--------------------------- MODULE ProcessesProofs ----------------------------
(***************************************************************************)
(* Proofs about Processes, for any number of requests at a time, attempts  *)
(* to connect and crashes, and about two parts of what the gateway runs:   *)
(* the hub of WebSocket connections (module WSHub) and the chat rooms      *)
(* (module ChatRooms).  They rest on the inductive invariants IInv,        *)
(* HubIInv and RoomsIInv of these modules.                                 *)
(***************************************************************************)
EXTENDS Processes, WSHub, ChatRooms, FiniteSetTheorems, TLAPS

-------------------------------------------------------------------------------
(* Metrics. *)

(* The metrics of a process that has just started. *)
LEMMA ZeroFacts == Zero \in MetricType /\ Zero.inFlight = 0
  BY DEF Zero, MetricType

(* A request that comes raises the gauge by one. *)
LEMMA EnteredFacts ==
    ASSUME NEW m \in MetricType
    PROVE  Entered(m) \in MetricType /\ Entered(m).inFlight = m.inFlight + 1
  BY DEF Entered, MetricType

(* Counting an answer does not touch the gauge. *)
LEMMA CountedFacts ==
    ASSUME NEW m \in MetricType, NEW k \in Classes, NEW t \in ErrorTypes
    PROVE  /\ [m EXCEPT !.total[k] = @ + 1] \in MetricType
           /\ [m EXCEPT !.total[k] = @ + 1].inFlight = m.inFlight
           /\ [m EXCEPT !.errors[t] = @ + 1] \in MetricType
           /\ [m EXCEPT !.errors[t] = @ + 1].inFlight = m.inFlight
  BY DEF MetricType

(* The answer of the gateway lowers its gauge by one, whatever the code. *)
LEMMA HTTPFacts ==
    ASSUME NEW m \in MetricType, NEW code \in Int
    PROVE  /\ HTTPMiddleware(m, code) \in MetricType
           /\ HTTPMiddleware(m, code).inFlight = m.inFlight - 1
<1> DEFINE n == [m EXCEPT !.inFlight = @ - 1]
           counted == [n EXCEPT !.total[getStatusClass(code)] = @ + 1]
<1>1. n \in MetricType /\ n.inFlight = m.inFlight - 1
  BY DEF MetricType
<1>2. getStatusClass(code) \in Classes
  BY DEF getStatusClass, Classes
<1>3. getErrorType(code) \in ErrorTypes
  BY DEF getErrorType, ErrorTypes
<1> HIDE DEF n
<1>4. counted \in MetricType /\ counted.inFlight = n.inFlight
  BY <1>1, <1>2, <1>3, CountedFacts
<1>5. HTTPMiddleware(m, code) =
        IF code >= 400 THEN [counted EXCEPT !.errors[getErrorType(code)] = @ + 1] ELSE counted
  BY DEF HTTPMiddleware, recordHTTP, n
<1> HIDE DEF counted
<1>6. /\ [counted EXCEPT !.errors[getErrorType(code)] = @ + 1] \in MetricType
      /\ [counted EXCEPT !.errors[getErrorType(code)] = @ + 1].inFlight = counted.inFlight
  BY <1>2, <1>3, <1>4, CountedFacts
<1> QED BY <1>1, <1>4, <1>5, <1>6

(* So does the answer of a service, whatever the status. *)
LEMMA GRPCFacts ==
    ASSUME NEW m \in MetricType, NEW status
    PROVE  /\ UnaryServerInterceptor(m, status) \in MetricType
           /\ UnaryServerInterceptor(m, status).inFlight = m.inFlight - 1
<1> DEFINE n == [m EXCEPT !.inFlight = @ - 1]
           counted == [n EXCEPT !.total[grpcCodeToStatusClass(status)] = @ + 1]
<1>1. n \in MetricType /\ n.inFlight = m.inFlight - 1
  BY DEF MetricType
<1>2. grpcCodeToStatusClass(status) \in Classes
  BY DEF grpcCodeToStatusClass, Classes
<1>3. grpcCodeToErrorType(status) \in ErrorTypes
  BY DEF grpcCodeToErrorType, ErrorTypes
<1> HIDE DEF n
<1>4. counted \in MetricType /\ counted.inFlight = n.inFlight
  BY <1>1, <1>2, <1>3, CountedFacts
<1>5. UnaryServerInterceptor(m, status) =
        IF status # "OK" THEN [counted EXCEPT !.errors[grpcCodeToErrorType(status)] = @ + 1]
        ELSE counted
  BY DEF UnaryServerInterceptor, recordGRPC, n
<1> HIDE DEF counted
<1>6. /\ [counted EXCEPT !.errors[grpcCodeToErrorType(status)] = @ + 1] \in MetricType
      /\ [counted EXCEPT !.errors[grpcCodeToErrorType(status)] = @ + 1].inFlight = counted.inFlight
  BY <1>2, <1>3, <1>4, CountedFacts
<1> QED BY <1>1, <1>4, <1>5, <1>6

(* The gateway answers with a number. *)
LEMMA CodeFacts ==
    ASSUME NEW c
    PROVE  AnswerCodes(c) \subseteq Int
<1>1. \A err : MapErrorToHTTP(err) \in Int
  BY DEF MapErrorToHTTP
<1>2. \A got : MiddlewareCodes(got) \subseteq Int /\ HandlerCodes(got) \subseteq Int
  BY <1>1 DEF MiddlewareCodes, HandlerCodes, UpgradeCodes
<1>3. OpenCodes \subseteq Int
  BY DEF OpenCodes
<1> QED BY <1>2, <1>3 DEF AnswerCodes

(* The status of an outcome is one a caller can get. *)
LEMMA StatusFacts ==
    ASSUME NEW err \in Outcomes
    PROVE  (IF err = Ok THEN "OK" ELSE ToGrpcError(err)) \in Statuses
  BY DEF Statuses

-------------------------------------------------------------------------------
(* Who works where. *)

At(f, p) == {c \in Calls : f[c].at = p}

(* A process works on finitely many calls. *)
LEMMA AtFinite ==
    ASSUME NEW f, NEW p
    PROVE  IsFiniteSet(At(f, p)) /\ Cardinality(At(f, p)) \in Nat
<1>1. At(f, p) \subseteq Calls
  BY DEF At
<1>2. IsFiniteSet(At(f, p))
  BY <1>1, CallsAssumption, FS_Subset
<1> QED BY <1>2, FS_CardinalityType

(* One call more at p. *)
LEMMA AtGains ==
    ASSUME NEW f, NEW g, NEW p, NEW c, c \notin At(f, p), At(g, p) = At(f, p) \cup {c}
    PROVE  Cardinality(At(g, p)) = Cardinality(At(f, p)) + 1
<1>1. IsFiniteSet(At(f, p))
  BY AtFinite
<1>2. \A S, x : IsFiniteSet(S) /\ x \notin S => Cardinality(S \cup {x}) = Cardinality(S) + 1
  BY FS_AddElement
<1> QED BY <1>1, <1>2, Zenon

(* As many calls at p as before. *)
LEMMA AtSame ==
    ASSUME NEW f, NEW g, NEW p, \A d \in Calls : g[d].at = p <=> f[d].at = p
    PROVE  Cardinality(At(g, p)) = Cardinality(At(f, p))
<1>1. At(g, p) = At(f, p)
  BY DEF At
<1> QED BY <1>1

(* No call at p. *)
LEMMA AtNone ==
    ASSUME NEW f, NEW p, \A d \in Calls : f[d].at # p
    PROVE  Cardinality(At(f, p)) = 0
<1>1. At(f, p) = {}
  BY DEF At
<1> QED BY <1>1, FS_EmptySet

(* A process waits for a number of others. *)
LEMMA NeedsFacts == \A p \in Procs : Len(Needs(p)) \in Nat
  BY DEF Procs, Services, Gateway, Needs

(* A call that is not in progress is well formed. *)
LEMMA FreeFacts ==
    /\ Free \in CallType
    /\ Free.at = "" /\ Free.parent = NoCall
<1>1. NoCtx \in ContextType
  BY DEF NoCtx, ContextType
<1> QED BY <1>1 DEF Free, CallType, Statuses

-------------------------------------------------------------------------------
(* The steps of a process that starts.  It has no calls before it serves,  *)
(* and they leave those of the others alone.                               *)

(* A process that does not serve has no calls, and no panics. *)
LEMMA NoCallsBeforeServing ==
    ASSUME IInv, NEW p \in Procs, ~Serves(p)
    PROVE  /\ \A c \in Calls : call[c].at # p
           /\ Cardinality(At(call, p)) = 0
           /\ p = Gateway => panics = 0
<1>1. \A c \in Calls : call[c].at # p
  BY DEF IInv, TypeOK, CallersWork, InProgress, Procs, Gateway, Services
<1> QED BY <1>1, AtNone DEF IInv, PanicsOfThisRun

(* Start resets the metrics of a process that has no calls. *)
LEMMA StartKeeps ==
    ASSUME IInv, NEW p \in Procs, Start(p)
    PROVE  IInv'
<1> USE DEF IInv, TypeOK
<1>0. ~Serves(p) /\ ~Serves(p)' /\ \A q \in Procs : Serves(q)' <=> Serves(q)
  BY DEF Start, Serves, ProcessType
<1>1. /\ proc' \in [Procs -> ProcessType]
      /\ AttemptsBounded'
  BY DEF Start, ProcessType, AttemptsBounded
<1>2. /\ metric' \in [Procs -> MetricType] /\ metric' = [metric EXCEPT ![p] = Zero]
  BY ZeroFacts DEF Start, NewHTTPMetrics, NewGRPCMetrics
<1>3. CallersWork'
  BY <1>0 DEF Start, CallersWork, InProgress, CallType, Procs, Gateway, Services
<1>4. CallsCarryTheUser'
  BY DEF Start, CallsCarryTheUser
<1>5. PanicsOfThisRun'
  BY <1>0 DEF Start, PanicsOfThisRun, Procs
<1>6. GaugesCount'
  <2>1. \A q \in Procs : metric[q].inFlight = Cardinality(At(call, q))
                              + (IF q = Gateway THEN panics ELSE 0)
    BY DEF GaugesCount, At
  <2>2. \A q \in Procs : metric'[q].inFlight = Cardinality(At(call, q))
                              + (IF q = Gateway THEN panics ELSE 0)
    BY <1>0, <1>2, <2>1, NoCallsBeforeServing, ZeroFacts
  <2> QED BY <2>2 DEF GaugesCount, At, Start
<1> QED BY <1>1, <1>2, <1>3, <1>4, <1>5, <1>6 DEF Start

(* A process that is down, or begins to serve, has made no attempts. *)
LEMMA DownFacts ==
    /\ Down \in ProcessType /\ Down.conns = 0 /\ Down.tries = 0
    /\ [Down EXCEPT !.state = "serving"] \in ProcessType
    /\ [Down EXCEPT !.state = "serving"].conns = 0
    /\ [Down EXCEPT !.state = "serving"].tries = 0
  BY DEF Down, ProcessType

(* One more connection. *)
LEMMA ConnectedFacts ==
    ASSUME NEW s \in ProcessType
    PROVE  /\ [s EXCEPT !.conns = @ + 1, !.tries = 0] \in ProcessType
           /\ [s EXCEPT !.conns = @ + 1, !.tries = 0].conns = s.conns + 1
           /\ [s EXCEPT !.conns = @ + 1, !.tries = 0].tries = 0
<1> DEFINE u == [s EXCEPT !.conns = @ + 1]
<1>1. u \in ProcessType /\ u.conns = s.conns + 1
  BY DEF ProcessType
<1> HIDE DEF u
<1>2. /\ [u EXCEPT !.tries = 0] \in ProcessType
      /\ [u EXCEPT !.tries = 0].conns = u.conns /\ [u EXCEPT !.tries = 0].tries = 0
  BY <1>1 DEF ProcessType
<1>3. [s EXCEPT !.conns = @ + 1, !.tries = 0] = [u EXCEPT !.tries = 0]
  BY DEF u
<1> QED BY <1>1, <1>2, <1>3

(* One more attempt. *)
LEMMA TriedFacts ==
    ASSUME NEW s \in ProcessType
    PROVE  /\ [s EXCEPT !.tries = @ + 1] \in ProcessType
           /\ [s EXCEPT !.tries = @ + 1].conns = s.conns
           /\ [s EXCEPT !.tries = @ + 1].tries = s.tries + 1
  BY DEF ProcessType

(* Boot moves proc only, and calls nobody in progress into question. *)
LEMMA BootKeeps ==
    ASSUME IInv, NEW p \in Procs, WaitForGRPC(p) \/ Listen(p)
    PROVE  IInv'
<1> USE DEF IInv, TypeOK
<1>0. /\ UNCHANGED <<call, metric, received, crashes, panics>>
      /\ ~Serves(p)
  BY DEF WaitForGRPC, Listen, Serves
<1>1. /\ proc' \in [Procs -> ProcessType]
      /\ AttemptsBounded'
      /\ \A q \in Procs : Serves(q) => Serves(q)'
  <2>1. Len(Needs(p)) \in Nat
    BY NeedsFacts
  <2>2. proc[p] \in ProcessType /\ proc[p].conns <= Len(Needs(p)) /\ proc[p].tries < Retries
    BY DEF AttemptsBounded
  <2>3. PICK s \in ProcessType :
           proc' = [proc EXCEPT ![p] = s] /\ s.conns <= Len(Needs(p)) /\ s.tries < Retries
    <3>1. CASE Listen(p)
      <4> DEFINE t == [Down EXCEPT !.state = "serving"]
      <4>1. proc' = [proc EXCEPT ![p] = t]
        BY <3>1 DEF Listen
      <4>2. t \in ProcessType /\ t.conns <= Len(Needs(p)) /\ t.tries < Retries
        BY <2>1, DownFacts, RetriesAssumption
      <4> HIDE DEF t
      <4> QED BY <4>1, <4>2
    <3>2. CASE WaitForGRPC(p) /\ Serves(Needs(p)[proc[p].conns + 1])
      <4> DEFINE t == [proc[p] EXCEPT !.conns = @ + 1, !.tries = 0]
      <4>1. proc' = [proc EXCEPT ![p] = t] /\ proc[p].conns < Len(Needs(p))
        BY <3>2 DEF WaitForGRPC
      <4>2. t \in ProcessType /\ t.conns = proc[p].conns + 1 /\ t.tries = 0
        BY <2>2, ConnectedFacts
      <4> HIDE DEF t
      <4>3. t.conns <= Len(Needs(p)) /\ t.tries < Retries
        BY <2>1, <2>2, <4>1, <4>2, RetriesAssumption DEF ProcessType
      <4> QED BY <4>1, <4>2, <4>3
    <3>3. CASE WaitForGRPC(p) /\ ~Serves(Needs(p)[proc[p].conns + 1]) /\ proc[p].tries + 1 < Retries
      <4> DEFINE t == [proc[p] EXCEPT !.tries = @ + 1]
      <4>1. proc' = [proc EXCEPT ![p] = t]
        BY <3>3 DEF WaitForGRPC
      <4>2. t \in ProcessType /\ t.conns <= Len(Needs(p)) /\ t.tries < Retries
        BY <2>2, <3>3, TriedFacts
      <4> HIDE DEF t
      <4> QED BY <4>1, <4>2
    <3>4. CASE WaitForGRPC(p) /\ ~Serves(Needs(p)[proc[p].conns + 1]) /\ ~(proc[p].tries + 1 < Retries)
      <4>1. proc' = [proc EXCEPT ![p] = Down]
        BY <3>4 DEF WaitForGRPC
      <4>2. Down \in ProcessType /\ Down.conns <= Len(Needs(p)) /\ Down.tries < Retries
        BY <2>1, DownFacts, RetriesAssumption
      <4> QED BY <4>1, <4>2
    <3> QED BY <3>1, <3>2, <3>3, <3>4
  <2>4. proc' \in [Procs -> ProcessType]
    BY <2>3
  <2>5. AttemptsBounded'
    BY <2>3 DEF AttemptsBounded
  <2>6. \A q \in Procs : Serves(q) => Serves(q)'
    BY <1>0, <2>3 DEF Serves
  <2> QED BY <2>4, <2>5, <2>6
<1>3. CallersWork'
  BY <1>0, <1>1 DEF CallersWork, InProgress, CallType
<1>4. CallsCarryTheUser' /\ GaugesCount'
  BY <1>0 DEF CallsCarryTheUser, GaugesCount
<1>5. PanicsOfThisRun'
  BY <1>0, <1>1 DEF PanicsOfThisRun, Procs
<1> QED BY <1>0, <1>1, <1>3, <1>4, <1>5

-------------------------------------------------------------------------------
(* The steps of a request.  Each of them moves one call, c, that waits for *)
(* nobody, and of the others at most what they got and how often they      *)
(* called.                                                                 *)

Moves(c) ==
    /\ proc' = proc
    /\ call' \in [Calls -> CallType]
    /\ ~Waits(c)
    /\ \A e \in Calls \ {c} : call'[e].at = call[e].at /\ call'[e].parent = call[e].parent
                                /\ call'[e].ctx = call[e].ctx

(* Such a step keeps what calls and callers know of each other. *)
LEMMA MovesKeeps ==
    ASSUME IInv, NEW c \in Calls, Moves(c),
           call'[c].at # "" => Serves(call'[c].at),
           call'[c].parent # NoCall =>
              /\ call'[c].parent \in Calls \ {c} /\ InProgress(call'[c].parent)
              /\ call'[c].at \in Services
              /\ call'[c].ctx.user = call[call'[c].parent].ctx.user
    PROVE  CallersWork' /\ CallsCarryTheUser'
<1>1. ASSUME NEW e \in Calls, call'[e].parent # NoCall
      PROVE  /\ call'[e].parent \in Calls \ {c}
             /\ InProgress(call'[e].parent)
             /\ call'[e].at \in Services
             /\ call'[e].ctx.user = call[call'[e].parent].ctx.user
  <2>1. CASE e = c
    BY <1>1, <2>1
  <2>2. CASE e # c
    <3>1. call[e].parent = call'[e].parent /\ call[e].at = call'[e].at /\ call[e].ctx = call'[e].ctx
      BY <2>2 DEF Moves
    <3>2. call[e].parent # c
      BY DEF Moves, Waits
    <3>3. call[e].parent \in Calls
      BY <1>1, <3>1 DEF IInv, TypeOK, CallType
    <3> QED BY <1>1, <3>1, <3>2, <3>3 DEF IInv, TypeOK, CallersWork, CallsCarryTheUser
  <2> QED BY <2>1, <2>2
<1>2. \A e \in Calls : call'[e].at # "" => Serves(call'[e].at)
  <2> SUFFICES ASSUME NEW e \in Calls, call'[e].at # "", e # c
               PROVE  Serves(call'[e].at)
    OBVIOUS
  <2> QED BY DEF Moves, IInv, TypeOK, CallersWork, InProgress
<1>3. \A e \in Calls : call'[e].parent # NoCall => call'[call'[e].parent].at # ""
  BY <1>1 DEF Moves, InProgress
<1>4. CallersWork'
  BY <1>1, <1>2, <1>3 DEF Moves, CallersWork, InProgress, Serves
<1>5. CallsCarryTheUser'
  BY <1>1 DEF Moves, CallsCarryTheUser
<1> QED BY <1>4, <1>5

(* Nobody waits for a call that is not in progress, and it waits for nobody. *)
LEMMA FreeCallFacts ==
    ASSUME IInv, NEW c \in Calls, ~InProgress(c)
    PROVE  ~Waits(c) /\ call[c].parent = NoCall
<1>1. call[c].parent = NoCall
  BY DEF IInv, TypeOK, CallersWork, InProgress, Services
<1>2. \A e \in Calls : call[e].parent # c
  BY CallsAssumption DEF IInv, TypeOK, CallersWork
<1> QED BY <1>1, <1>2 DEF Waits

(* A request of the gateway, and any call that moves without children, is  *)
(* served, and has no parent if it is at the gateway.                      *)
LEMMA RunsFacts ==
    ASSUME IInv, NEW c \in Calls, Runs(c)
    PROVE  /\ ~Waits(c) /\ call[c] \in CallType /\ call[c].at \in Procs /\ Serves(call[c].at)
           /\ call[c].at = Gateway => call[c].parent = NoCall
           /\ call[c].parent # NoCall =>
                 /\ call[c].parent \in Calls \ {c} /\ InProgress(call[c].parent)
                 /\ call[c].at \in Services
                 /\ call[c].ctx.user = call[call[c].parent].ctx.user
<1>1. ~Waits(c) /\ call[c] \in CallType /\ call[c].at \in Procs /\ Serves(call[c].at)
  BY DEF IInv, TypeOK, CallersWork, Runs, InProgress, CallType
<1>2. call[c].at = Gateway => call[c].parent = NoCall
  BY DEF IInv, TypeOK, CallersWork, Gateway, Services
<1>3. call[c].parent # NoCall => call[c].parent \in Calls \ {c}
  BY <1>1 DEF CallType, Waits
<1> QED BY <1>1, <1>2, <1>3 DEF IInv, TypeOK, CallersWork, CallsCarryTheUser

(* The gauge, when a call comes, ends or stays. *)
LEMMA InFlightAt ==
    /\ GaugesCount <=>
          \A p \in Procs : metric[p].inFlight = Cardinality(At(call, p))
                                                  + (IF p = Gateway THEN panics ELSE 0)
    /\ GaugesCount' <=>
          \A p \in Procs : metric'[p].inFlight = Cardinality(At(call', p))
                                                  + (IF p = Gateway THEN panics' ELSE 0)
  BY DEF GaugesCount, At

(* Arithmetic of a call that comes. *)
LEMMA OneMore == \A k, a \in Nat : (k + a) + 1 = (k + 1) + a
  OBVIOUS

(* Arithmetic of a call that ends. *)
LEMMA OneLess ==
    /\ \A l, a \in Nat : ((l + 1) + a) - a - 1 = l
    /\ \A l, b \in Nat : \A y \in Int : y - b = l => y = l + b
  OBVIOUS

(* A call that comes or ends at p changes nothing elsewhere. *)
LEMMA ElsewhereSame ==
    ASSUME NEW c \in Calls, Moves(c), NEW p \in Procs,
           call[c].at \in {"", p}, call'[c].at \in {"", p}
    PROVE  \A q \in Procs \ {p} : Cardinality(At(call', q)) = Cardinality(At(call, q))
<1> SUFFICES ASSUME NEW q \in Procs \ {p}
             PROVE  Cardinality(At(call', q)) = Cardinality(At(call, q))
  OBVIOUS
<1>1. q # "" /\ q # p
  BY DEF Procs, Gateway, Services
<1>2. \A d \in Calls : call'[d].at = q <=> call[d].at = q
  BY <1>1 DEF Moves
<1> QED BY <1>2, AtSame

(* A call comes to p. *)
LEMMA ComesInFlight ==
    ASSUME IInv, NEW c \in Calls, Moves(c), NEW p \in Procs,
           call[c].at = "", call'[c].at = p, panics' = panics,
           metric' = [metric EXCEPT ![p] = Entered(@)]
    PROVE  metric' \in [Procs -> MetricType] /\ GaugesCount'
<1>1. metric[p] \in MetricType /\ metric \in [Procs -> MetricType]
  BY DEF IInv, TypeOK
<1>2. metric' \in [Procs -> MetricType]
  BY <1>1, EnteredFacts
<1>3. metric'[p].inFlight = metric[p].inFlight + 1
  BY <1>1, EnteredFacts
<1>4. Cardinality(At(call', p)) = Cardinality(At(call, p)) + 1
  <2>1. c \notin At(call, p) /\ At(call', p) = At(call, p) \cup {c}
    BY DEF At, Moves, Procs, Gateway, Services
  <2> QED BY <2>1, AtGains, Zenon
<1>5. \A q \in Procs \ {p} : Cardinality(At(call', q)) = Cardinality(At(call, q))
  BY ElsewhereSame
<1>6. Cardinality(At(call, p)) \in Nat /\ panics \in Nat
  BY AtFinite DEF IInv, TypeOK
<1>7. metric'[p].inFlight = Cardinality(At(call', p)) + (IF p = Gateway THEN panics' ELSE 0)
  <2> DEFINE x == metric[p].inFlight
             y == metric'[p].inFlight
             k == Cardinality(At(call, p))
             l == Cardinality(At(call', p))
             a == IF p = Gateway THEN panics ELSE 0
  <2>1. x = k + a
    BY InFlightAt DEF IInv
  <2>2. y = x + 1 /\ l = k + 1 /\ k \in Nat /\ a \in Nat
    BY <1>3, <1>4, <1>6
  <2>3. y = l + a
    <3> HIDE DEF x, y, k, l, a
    <3>1. y = (k + a) + 1
      BY <2>1, <2>2, Zenon
    <3>2. (k + a) + 1 = (k + 1) + a
      BY <2>2, OneMore, Zenon
    <3> QED BY <2>2, <3>1, <3>2, Zenon
  <2> QED BY <2>3
<1>8. ASSUME NEW q \in Procs \ {p}
      PROVE  metric'[q].inFlight = Cardinality(At(call', q)) + (IF q = Gateway THEN panics' ELSE 0)
  <2>1. metric'[q] = metric[q]
    BY <1>1
  <2> QED BY <1>5, <2>1, InFlightAt DEF IInv
<1> QED BY <1>2, <1>7, <1>8, InFlightAt

(* A call of p ends, with a lower gauge or one more panic. *)
LEMMA EndsInFlight ==
    ASSUME IInv, NEW c \in Calls, Moves(c), NEW p \in Procs, NEW m \in MetricType,
           call[c].at = p, call'[c].at = "",
           metric' = [metric EXCEPT ![p] = m],
           panics' \in Nat, p # Gateway => panics' = panics,
           m.inFlight - (IF p = Gateway THEN panics' ELSE 0)
              = metric[p].inFlight - (IF p = Gateway THEN panics ELSE 0) - 1
    PROVE  metric' \in [Procs -> MetricType] /\ GaugesCount'
<1>1. metric[p] \in MetricType /\ metric \in [Procs -> MetricType]
  BY DEF IInv, TypeOK
<1>2. metric' \in [Procs -> MetricType] /\ metric'[p] = m
  BY <1>1
<1>3. m.inFlight \in Int /\ metric[p].inFlight \in Int
  BY <1>1 DEF MetricType
<1>4. Cardinality(At(call, p)) = Cardinality(At(call', p)) + 1
  <2>1. c \notin At(call', p) /\ At(call, p) = At(call', p) \cup {c}
    BY DEF At, Moves, Procs, Gateway, Services
  <2> QED BY <2>1, AtGains, Zenon
<1>5. \A q \in Procs \ {p} : Cardinality(At(call', q)) = Cardinality(At(call, q))
  BY ElsewhereSame
<1>6. \A q \in Procs : Cardinality(At(call, q)) \in Nat /\ Cardinality(At(call', q)) \in Nat
  BY AtFinite
<1>7. metric[p].inFlight = Cardinality(At(call, p)) + (IF p = Gateway THEN panics ELSE 0)
  BY InFlightAt DEF IInv
<1>8. metric'[p].inFlight = Cardinality(At(call', p)) + (IF p = Gateway THEN panics' ELSE 0)
  <2> DEFINE x == metric[p].inFlight
             y == m.inFlight
             k == Cardinality(At(call, p))
             l == Cardinality(At(call', p))
             a == IF p = Gateway THEN panics ELSE 0
             b == IF p = Gateway THEN panics' ELSE 0
  <2>1. x = k + a /\ y - b = x - a - 1
    BY <1>7
  <2>2. k = l + 1 /\ l \in Nat /\ a \in Nat /\ b \in Nat /\ y \in Int
    BY <1>3, <1>4, <1>6 DEF IInv, TypeOK
  <2>3. y = l + b
    <3> HIDE DEF x, y, k, l, a, b
    <3>1. y - b = ((l + 1) + a) - a - 1
      BY <2>1, <2>2, Zenon
    <3>2. ((l + 1) + a) - a - 1 = l
      BY <2>2, OneLess, Zenon
    <3>3. y - b = l
      BY <3>1, <3>2, Zenon
    <3> QED BY <2>2, <3>3, OneLess, Zenon
  <2> QED BY <1>2, <2>3
<1>9. ASSUME NEW q \in Procs \ {p}
      PROVE  metric'[q].inFlight = Cardinality(At(call', q)) + (IF q = Gateway THEN panics' ELSE 0)
  <2>1. metric'[q] = metric[q]
    BY <1>1
  <2> QED BY <1>5, <2>1, InFlightAt DEF IInv
<1> QED BY <1>2, <1>8, <1>9, InFlightAt

(* A call stays where it is. *)
LEMMA StaysInFlight ==
    ASSUME IInv, NEW c \in Calls, Moves(c), call'[c].at = call[c].at,
           metric' = metric, panics' = panics
    PROVE  metric' \in [Procs -> MetricType] /\ GaugesCount'
<1>1. \A q \in Procs : Cardinality(At(call', q)) = Cardinality(At(call, q))
  BY AtSame DEF Moves
<1> QED BY <1>1, InFlightAt DEF IInv, TypeOK

-------------------------------------------------------------------------------
(* The actions of requests, one by one. *)

(* The fields of a call, replaced one at a time. *)
LEMMA AtFacts ==
    ASSUME NEW r \in CallType, NEW p \in Procs
    PROVE  LET n == [r EXCEPT !.at = p]
           IN  n \in CallType /\ n.at = p /\ n.parent = r.parent /\ n.ctx = r.ctx
  BY DEF CallType

LEMMA ParentFacts ==
    ASSUME NEW r \in CallType, NEW c \in Calls \cup {NoCall}
    PROVE  LET n == [r EXCEPT !.parent = c]
           IN  n \in CallType /\ n.at = r.at /\ n.parent = c /\ n.ctx = r.ctx
  BY DEF CallType

LEMMA CtxFacts ==
    ASSUME NEW r \in CallType, NEW x \in ContextType
    PROVE  LET n == [r EXCEPT !.ctx = x]
           IN  n \in CallType /\ n.at = r.at /\ n.parent = r.parent /\ n.ctx = x
  BY DEF CallType

LEMMA StageFacts ==
    ASSUME NEW r \in CallType, NEW x \in {"auth", "again", "handle"}
    PROVE  LET n == [r EXCEPT !.stage = x]
           IN  n \in CallType /\ n.at = r.at /\ n.parent = r.parent /\ n.ctx = r.ctx
  BY DEF CallType

LEMMA GotFacts ==
    ASSUME NEW r \in CallType, NEW x \in Statuses
    PROVE  LET n == [r EXCEPT !.got = x]
           IN  n \in CallType /\ n.at = r.at /\ n.parent = r.parent /\ n.ctx = r.ctx
  BY DEF CallType

LEMMA CallsFacts ==
    ASSUME NEW r \in CallType, NEW x \in 0..1
    PROVE  LET n == [r EXCEPT !.calls = x]
           IN  n \in CallType /\ n.at = r.at /\ n.parent = r.parent /\ n.ctx = r.ctx
  BY DEF CallType

(* A new request belongs to nobody else. *)
LEMMA ReceiveKeeps ==
    ASSUME IInv, NEW c \in Calls, Receive(c)
    PROVE  IInv'
<1> DEFINE n == [Free EXCEPT !.at = Gateway, !.ctx = LoggingMiddleware]
<1>1. /\ n \in CallType /\ n.at = Gateway /\ n.parent = NoCall
  <2>1. LoggingMiddleware \in ContextType
    BY DEF LoggingMiddleware, ContextType
  <2> DEFINE n1 == [Free EXCEPT !.at = Gateway]
  <2>2. n = [n1 EXCEPT !.ctx = LoggingMiddleware]
    OBVIOUS
  <2>3. Gateway \in Procs
    BY DEF Procs
  <2>4. n1 \in CallType /\ n1.at = Gateway /\ n1.parent = NoCall
    BY <2>3, FreeFacts, AtFacts
  <2> HIDE DEF n, n1
  <2> QED BY <2>1, <2>2, <2>4, CtxFacts
<1>2. call' = [call EXCEPT ![c] = n] /\ proc' = proc /\ ~InProgress(c)
  BY DEF Receive
<1>3. received \in Nat /\ crashes \in Nat /\ panics \in Nat /\ call \in [Calls -> CallType]
  BY DEF IInv, TypeOK
<1> HIDE DEF n
<1>4. Moves(c) /\ call'[c] = n
  BY <1>1, <1>2, <1>3, FreeCallFacts DEF Moves
<1>5. Serves(Gateway) /\ Gateway \in Procs /\ Gateway # ""
  BY DEF Receive, Procs, Gateway
<1>6. CallersWork' /\ CallsCarryTheUser'
  BY <1>1, <1>4, <1>5, MovesKeeps
<1>7. metric' \in [Procs -> MetricType] /\ GaugesCount'
  BY <1>1, <1>2, <1>4, <1>5, ComesInFlight DEF Receive, InProgress
<1>8. received' \in Nat /\ crashes' \in Nat /\ panics' \in Nat /\ panics' = panics
  BY <1>3 DEF Receive
<1> QED BY <1>2, <1>4, <1>6, <1>7, <1>8
     DEF IInv, TypeOK, Moves, AttemptsBounded, PanicsOfThisRun, Serves

(* What a step of a request leaves alone. *)
LEMMA RestKeeps ==
    ASSUME IInv, NEW c \in Calls, Moves(c), CallersWork', CallsCarryTheUser',
           metric' \in [Procs -> MetricType], GaugesCount',
           received' = received, crashes' = crashes, panics' \in Nat,
           panics' = panics \/ Serves(Gateway)
    PROVE  IInv'
  BY DEF IInv, TypeOK, Moves, AttemptsBounded, PanicsOfThisRun, Serves

(* AuthMiddleware, Respond and Panic: the request is at the gateway, and   *)
(* has no parent before and after.                                         *)
LEMMA GatewayMoves ==
    ASSUME IInv, NEW c \in Calls, Runs(c), call[c].at = Gateway, NEW n \in CallType,
           call' = [call EXCEPT ![c] = n], proc' = proc,
           n.parent = NoCall, n.at \in {"", Gateway}
    PROVE  Moves(c) /\ call'[c] = n /\ CallersWork' /\ CallsCarryTheUser' /\ Serves(Gateway)
<1>1. ~Waits(c) /\ Serves(Gateway)
  BY RunsFacts
<1>2. Moves(c) /\ call'[c] = n
  BY <1>1 DEF Moves, IInv, TypeOK
<1> QED BY <1>1, <1>2, MovesKeeps

(* An answer ends a request. *)
LEMMA RespondKeeps ==
    ASSUME IInv, NEW c \in Calls, Respond(c)
    PROVE  IInv'
<1>1. /\ Runs(c) /\ call[c].at = Gateway
      /\ call' = [call EXCEPT ![c] = Free]
      /\ UNCHANGED <<proc, received, crashes, panics>>
  BY DEF Respond
<1>2. Moves(c) /\ call'[c] = Free /\ CallersWork' /\ CallsCarryTheUser' /\ Serves(Gateway)
  BY <1>1, FreeFacts, GatewayMoves
<1>3. PICK code \in Int : metric' = [metric EXCEPT ![Gateway] = HTTPMiddleware(@, code)]
  BY CodeFacts DEF Respond
<1>4. metric[Gateway] \in MetricType /\ Gateway \in Procs /\ panics \in Nat
  BY DEF IInv, TypeOK, Procs
<1> DEFINE m == HTTPMiddleware(metric[Gateway], code)
<1>5. m \in MetricType /\ m.inFlight = metric[Gateway].inFlight - 1
  BY <1>4, HTTPFacts
<1>6. metric' = [metric EXCEPT ![Gateway] = m]
  BY <1>3
<1>7. m.inFlight - panics' = metric[Gateway].inFlight - panics - 1
  BY <1>1, <1>4, <1>5 DEF MetricType
<1> HIDE DEF m
<1>8. metric' \in [Procs -> MetricType] /\ GaugesCount'
  BY <1>1, <1>2, <1>4, <1>5, <1>6, <1>7, FreeFacts, EndsInFlight
<1> QED BY <1>1, <1>2, <1>4, <1>8, RestKeeps

(* A panic ends a request too, and leaves the gauge to panics. *)
LEMMA PanicKeeps ==
    ASSUME IInv, NEW c \in Calls, Panic(c)
    PROVE  IInv'
<1>1. /\ Runs(c) /\ call[c].at = Gateway
      /\ call' = [call EXCEPT ![c] = Free]
      /\ panics' = panics + 1
      /\ UNCHANGED <<proc, received, crashes, metric>>
  BY DEF Panic
<1>2. Moves(c) /\ call'[c] = Free /\ CallersWork' /\ CallsCarryTheUser' /\ Serves(Gateway)
  BY <1>1, FreeFacts, GatewayMoves
<1>3. metric[Gateway] \in MetricType /\ Gateway \in Procs /\ panics \in Nat /\ panics' \in Nat
  BY <1>1 DEF IInv, TypeOK, Procs
<1>4. PICK m \in MetricType :
        /\ m = metric[Gateway]
        /\ metric' = [metric EXCEPT ![Gateway] = m]
  BY <1>1, <1>3 DEF IInv, TypeOK
<1>5. m.inFlight - (IF Gateway = Gateway THEN panics' ELSE 0)
        = metric[Gateway].inFlight - (IF Gateway = Gateway THEN panics ELSE 0) - 1
  BY <1>1, <1>3, <1>4 DEF MetricType
<1>6. call[c].at = Gateway /\ call'[c].at = "" /\ Moves(c)
  BY <1>1, <1>2, FreeFacts
<1>7. metric' \in [Procs -> MetricType] /\ GaugesCount'
  BY <1>3, <1>4, <1>5, <1>6, EndsInFlight
<1> QED BY <1>1, <1>2, <1>3, <1>7, RestKeeps

(* The user of a request changes before it has made any call. *)
LEMMA AuthMiddlewareKeeps ==
    ASSUME IInv, NEW c \in Calls, AuthMiddleware(c)
    PROVE  IInv'
<1>1. /\ Runs(c) /\ call[c].at = Gateway
      /\ UNCHANGED <<proc, metric, received, crashes, panics>>
  BY DEF AuthMiddleware
<1>2. PICK u \in {Anonymous, User}, next \in {"again", "handle"} :
         call' = [call EXCEPT ![c].stage = next, ![c].calls = 0, ![c].got = "OK",
                              ![c].ctx.user = u]
  BY DEF AuthMiddleware
<1>3. call[c] \in CallType /\ call[c].parent = NoCall /\ call \in [Calls -> CallType]
  BY <1>1, RunsFacts DEF IInv, TypeOK
<1> DEFINE n1 == [call[c] EXCEPT !.stage = next]
           n2 == [n1 EXCEPT !.calls = 0]
           n3 == [n2 EXCEPT !.got = "OK"]
           n  == [n3 EXCEPT !.ctx = [call[c].ctx EXCEPT !.user = u]]
<1>4. n \in CallType /\ n.parent = NoCall /\ n.at = Gateway
  <2>1. [call[c].ctx EXCEPT !.user = u] \in ContextType
    BY <1>3 DEF CallType, ContextType
  <2>2. n1 \in CallType /\ n1.parent = NoCall /\ n1.at = Gateway
    BY <1>1, <1>3, StageFacts
  <2> HIDE DEF n1
  <2>3. n2 \in CallType /\ n2.parent = NoCall /\ n2.at = Gateway
    <3>1. 0 \in 0..1
      OBVIOUS
    <3> QED BY <2>2, <3>1, CallsFacts
  <2> HIDE DEF n2
  <2>4. n3 \in CallType /\ n3.parent = NoCall /\ n3.at = Gateway
    <3>1. "OK" \in Statuses
      BY DEF Statuses
    <3> QED BY <2>3, <3>1, GotFacts
  <2> HIDE DEF n3
  <2> QED BY <2>1, <2>4, CtxFacts
<1>5. call' = [call EXCEPT ![c] = n]
  BY <1>1, <1>2, <1>3 DEF CallType
<1> HIDE DEF n
<1>6. Moves(c) /\ call'[c] = n /\ CallersWork' /\ CallsCarryTheUser' /\ Serves(Gateway)
  BY <1>1, <1>4, <1>5, GatewayMoves
<1>7. metric' \in [Procs -> MetricType] /\ GaugesCount'
  BY <1>1, <1>4, <1>6, StaysInFlight
<1> QED BY <1>1, <1>6, <1>7, RestKeeps DEF IInv, TypeOK

(* The metadata carries the user from one context to the next. *)
LEMMA ContextPasses ==
    ASSUME NEW x \in ContextType
    PROVE  /\ ServerUnaryInterceptor(ClientUnaryInterceptor(x)) \in ContextType
           /\ ServerUnaryInterceptor(ClientUnaryInterceptor(x)).user = x.user
<1>1. ServerUnaryInterceptor(ClientUnaryInterceptor(x)) = [user |-> x.user, requestID |-> ""]
  BY DEF ServerUnaryInterceptor, ClientUnaryInterceptor
<1>2. x.user \in {Anonymous, User}
  BY DEF ContextType
<1>3. [user |-> x.user, requestID |-> ""] \in ContextType
  BY <1>2 DEF ContextType
<1>4. [user |-> x.user, requestID |-> ""].user = x.user
  OBVIOUS
<1> QED BY <1>1, <1>3, <1>4, Zenon

(* A call has the user of its caller, or fails at once. *)
LEMMA InvokeKeeps ==
    ASSUME IInv, NEW c \in Calls, NEW d \in Calls, NEW q \in Services, Invoke(c, d, q)
    PROVE  IInv'
<1>1. Runs(c) /\ InProgress(c) /\ UNCHANGED <<proc, received, crashes, panics>>
  BY DEF Invoke, Runs
<1>2. call[c] \in CallType /\ call \in [Calls -> CallType] /\ panics \in Nat
  BY DEF IInv, TypeOK
<1>3. q \in Procs /\ q # "" /\ 1 \in 0..1
  <2>1. 1 \in 0..1
    OBVIOUS
  <2>2. q \in Procs /\ q # ""
    BY DEF Procs, Services
  <2> QED BY <2>1, <2>2
<1> DEFINE m == [call[c] EXCEPT !.calls = 1]
<1>4. m \in CallType /\ m.at = call[c].at /\ m.parent = call[c].parent /\ m.ctx = call[c].ctx
  BY <1>2, <1>3, CallsFacts
<1>5. CASE Serves(q) /\ ~InProgress(d)
  <2> DEFINE x  == ServerUnaryInterceptor(ClientUnaryInterceptor(call[c].ctx))
             n1 == [Free EXCEPT !.at = q]
             n2 == [n1 EXCEPT !.parent = c]
             n3 == [n2 EXCEPT !.stage = "handle"]
             n  == [n3 EXCEPT !.ctx = x]
  <2>1. c # d
    BY <1>1, <1>5
  <2>2. x \in ContextType /\ x.user = call[c].ctx.user
    BY <1>2, ContextPasses DEF CallType
  <2>3. n \in CallType /\ n.at = q /\ n.parent = c /\ n.ctx = x
    <3> HIDE DEF x
    <3>1. n1 \in CallType /\ n1.at = q
      BY <1>3, FreeFacts, AtFacts
    <3> HIDE DEF n1
    <3>2. n2 \in CallType /\ n2.at = q /\ n2.parent = c
      BY <3>1, ParentFacts
    <3> HIDE DEF n2
    <3>3. n3 \in CallType /\ n3.at = q /\ n3.parent = c
      BY <3>2, StageFacts
    <3> HIDE DEF n3
    <3> QED BY <2>2, <3>3, CtxFacts
  <2>4. /\ call' = [call EXCEPT ![c] = m, ![d] = n]
        /\ metric' = [metric EXCEPT ![q] = Entered(@)]
    BY <1>1, <1>5 DEF Invoke
  <2> HIDE DEF m, n, x
  <2>5. /\ call' \in [Calls -> CallType] /\ call'[d] = n
        /\ \A e \in Calls \ {d} : call'[e] = IF e = c THEN m ELSE call[e]
    BY <1>2, <1>4, <2>1, <2>3, <2>4
  <2>6. ~Waits(d) /\ call[d].at = ""
    BY <1>5, FreeCallFacts DEF InProgress
  <2>7. Moves(d)
    BY <1>1, <1>4, <2>5, <2>6 DEF Moves
  <2>8. CallersWork' /\ CallsCarryTheUser'
    BY <1>1, <1>5, <2>1, <2>2, <2>3, <2>5, <2>7, MovesKeeps
  <2>9. metric' \in [Procs -> MetricType] /\ GaugesCount'
    BY <1>1, <1>3, <2>3, <2>4, <2>5, <2>6, <2>7, ComesInFlight
  <2> QED BY <1>1, <1>2, <2>7, <2>8, <2>9, RestKeeps
<1>6. CASE ~Serves(q) /\ d = c
  <2> DEFINE n == [m EXCEPT !.got = "Unavailable"]
  <2>1. "Unavailable" \in Statuses
    BY DEF Statuses
  <2>2. call' = [call EXCEPT ![c] = n] /\ metric' = metric
    BY <1>6 DEF Invoke
  <2> HIDE DEF m
  <2>3. /\ n \in CallType /\ n.at = call[c].at /\ n.parent = call[c].parent
        /\ n.ctx = call[c].ctx
    BY <1>4, <2>1, GotFacts
  <2> HIDE DEF n
  <2>4. call'[c] = n /\ Moves(c)
    BY <1>1, <1>2, <2>2, <2>3, RunsFacts DEF Moves
  <2>5. CallersWork' /\ CallsCarryTheUser'
    BY <1>1, <2>3, <2>4, MovesKeeps, RunsFacts
  <2>6. metric' \in [Procs -> MetricType] /\ GaugesCount'
    BY <1>1, <2>2, <2>3, <2>4, StaysInFlight
  <2> QED BY <1>1, <1>2, <2>4, <2>5, <2>6, RestKeeps
<1> QED BY <1>5, <1>6 DEF Invoke

(* An answer changes nothing of the caller but its status. *)
LEMMA ReturnKeeps ==
    ASSUME IInv, NEW d \in Calls, Return(d)
    PROVE  IInv'
<1>1. /\ Runs(d) /\ call[d].at \in Services
      /\ UNCHANGED <<proc, received, crashes, panics>>
  BY DEF Return
<1> DEFINE p == call[d].at
           c == call[d].parent
<1>2. PICK status \in Statuses :
         /\ metric' = [metric EXCEPT ![p] = UnaryServerInterceptor(@, status)]
         /\ call' = IF c = NoCall THEN [call EXCEPT ![d] = Free]
                    ELSE [[call EXCEPT ![d] = Free] EXCEPT ![c].got = status]
  <2>1. "ErrDB" \in Outcomes
    BY DEF Outcomes
  <2>2. PICK err \in Outcomes :
           LET status == IF err = Ok THEN "OK" ELSE ToGrpcError(err)
               back   == [call EXCEPT ![d] = Free]
           IN  /\ metric' = [metric EXCEPT ![call[d].at] = UnaryServerInterceptor(@, status)]
               /\ call' = IF call[d].parent = NoCall THEN back
                          ELSE [back EXCEPT ![call[d].parent].got = status]
    BY <2>1 DEF Return
  <2> QED BY <2>2, StatusFacts
<1>3. call \in [Calls -> CallType] /\ panics \in Nat /\ metric \in [Procs -> MetricType]
  BY DEF IInv, TypeOK
<1>4. /\ ~Waits(d) /\ p \in Procs /\ p # Gateway
      /\ c # NoCall => c \in Calls \ {d}
  BY <1>1, RunsFacts DEF Procs, Gateway, Services
<1> HIDE DEF p, c
<1>5. Moves(d) /\ call'[d] = Free
  <2>1. CASE c = NoCall
    BY <1>1, <1>2, <1>3, <1>4, <2>1, FreeFacts DEF Moves
  <2>2. CASE c # NoCall
    <3> DEFINE n == [call[c] EXCEPT !.got = status]
    <3>1. /\ n \in CallType /\ n.at = call[c].at /\ n.parent = call[c].parent
          /\ n.ctx = call[c].ctx
      BY <1>3, <1>4, <2>2, GotFacts
    <3>2. call' = [[call EXCEPT ![d] = Free] EXCEPT ![c] = n]
      BY <1>2, <1>3, <1>4, <2>2
    <3> HIDE DEF n
    <3>3. /\ call' \in [Calls -> CallType] /\ call'[d] = Free
          /\ \A e \in Calls \ {d} : call'[e] = IF e = c THEN n ELSE call[e]
      BY <1>3, <1>4, <2>2, <3>1, <3>2, FreeFacts
    <3> QED BY <1>1, <1>4, <3>1, <3>3 DEF Moves
  <2> QED BY <2>1, <2>2
<1>6. CallersWork' /\ CallsCarryTheUser'
  BY <1>5, FreeFacts, MovesKeeps
<1> DEFINE m == UnaryServerInterceptor(metric[p], status)
<1>7. m \in MetricType /\ m.inFlight = metric[p].inFlight - 1
  BY <1>3, <1>4, GRPCFacts
<1>8. metric' = [metric EXCEPT ![p] = m]
  BY <1>2
<1>9. m.inFlight - 0 = metric[p].inFlight - 0 - 1
  BY <1>3, <1>4, <1>7 DEF MetricType
<1> HIDE DEF m
<1>10. metric' \in [Procs -> MetricType] /\ GaugesCount'
  BY <1>1, <1>3, <1>4, <1>5, <1>7, <1>8, <1>9, FreeFacts, EndsInFlight DEF p
<1> QED BY <1>1, <1>3, <1>5, <1>6, <1>10, RestKeeps

-------------------------------------------------------------------------------
(* A crash: the calls of p end, and their callers and children live on. *)
LEMMA CrashKeeps ==
    ASSUME IInv, NEW p \in Procs, Crash(p)
    PROVE  IInv'
<1> DEFINE dead == {c \in Calls : call[c].at = p}
           Left(c) == [call[c] EXCEPT
                         !.parent = IF @ \in dead THEN NoCall ELSE @,
                         !.got = IF \E d \in dead : call[d].parent = c THEN "Unavailable" ELSE @]
<1>1. /\ proc \in [Procs -> ProcessType] /\ call \in [Calls -> CallType]
      /\ metric \in [Procs -> MetricType]
      /\ received \in Nat /\ crashes \in Nat /\ panics \in Nat
  BY DEF IInv, TypeOK
<1>2. /\ proc' = [proc EXCEPT ![p] = Down] /\ metric' = [metric EXCEPT ![p] = Zero]
      /\ crashes' = crashes + 1 /\ received' = received
      /\ panics' = IF p = Gateway THEN 0 ELSE panics
      /\ call' = [c \in Calls |-> IF c \in dead THEN Free ELSE Left(c)]
  BY DEF Crash
<1>3. ASSUME NEW c \in Calls
      PROVE  /\ Left(c) \in CallType /\ Left(c).at = call[c].at /\ Left(c).ctx = call[c].ctx
             /\ Left(c).parent = IF call[c].parent \in dead THEN NoCall ELSE call[c].parent
  <2> DEFINE x  == IF call[c].parent \in dead THEN NoCall ELSE call[c].parent
             g  == IF \E d \in dead : call[d].parent = c THEN "Unavailable" ELSE call[c].got
             n1 == [call[c] EXCEPT !.parent = x]
             n  == [n1 EXCEPT !.got = g]
  <2>1. x \in Calls \cup {NoCall} /\ g \in Statuses
    BY <1>1 DEF CallType, Statuses
  <2>2. n1 \in CallType /\ n1.at = call[c].at /\ n1.ctx = call[c].ctx /\ n1.parent = x
    <3> HIDE DEF x
    <3> QED BY <1>1, <2>1, ParentFacts
  <2>3. n \in CallType /\ n.at = call[c].at /\ n.ctx = call[c].ctx /\ n.parent = x
    <3> HIDE DEF x, g, n1
    <3> QED BY <2>1, <2>2, GotFacts
  <2>4. Left(c) = n
    BY <1>1 DEF CallType
  <2> QED BY <2>3, <2>4
<1>4. /\ \A c \in dead : call'[c] = Free
      /\ \A c \in Calls \ dead :
            /\ call'[c] \in CallType /\ call'[c].at = call[c].at /\ call'[c].ctx = call[c].ctx
            /\ call'[c].parent = IF call[c].parent \in dead THEN NoCall ELSE call[c].parent
  <2> HIDE DEF dead, Left
  <2>1. dead \subseteq Calls
    BY DEF dead
  <2>2. \A c \in Calls : call'[c] = IF c \in dead THEN Free ELSE Left(c)
    BY <1>2
  <2>3. \A c \in dead : call'[c] = Free
    BY <2>1, <2>2
  <2>4. ASSUME NEW c \in Calls \ dead
        PROVE  /\ call'[c] \in CallType /\ call'[c].at = call[c].at
               /\ call'[c].ctx = call[c].ctx
               /\ call'[c].parent = IF call[c].parent \in dead THEN NoCall ELSE call[c].parent
    <3>1. call'[c] = Left(c)
      BY <2>2
    <3> QED BY <1>3, <3>1
  <2> QED BY <2>3, <2>4
<1>5. call' \in [Calls -> CallType]
  <2> HIDE DEF dead, Left
  <2> QED BY <1>2, <1>3, FreeFacts
<1> HIDE DEF Left
<1>6. proc' \in [Procs -> ProcessType] /\ AttemptsBounded'
  BY <1>1, <1>2, DownFacts, NeedsFacts, RetriesAssumption DEF IInv, TypeOK, AttemptsBounded
<1>7. metric' \in [Procs -> MetricType]
  BY <1>1, <1>2, ZeroFacts
<1>8. received' \in Nat /\ crashes' \in Nat /\ panics' \in Nat
  BY <1>1, <1>2
<1>9. ASSUME NEW c \in Calls, call'[c].parent # NoCall
      PROVE  /\ c \notin dead /\ call'[c].parent = call[c].parent
             /\ call[c].parent \in Calls \ dead
  BY <1>1, <1>4, <1>9, FreeFacts DEF CallType
<1>10. CallersWork'
  <2>1. ASSUME NEW c \in Calls, call'[c].at # ""
        PROVE  proc'[call'[c].at].state = "serving"
    <3>1. c \notin dead
      BY <1>4, <2>1, FreeFacts
    <3>2. call'[c].at = call[c].at /\ call[c].at # p /\ Serves(call[c].at) /\ call[c].at \in Procs
      BY <1>1, <1>4, <2>1, <3>1 DEF IInv, TypeOK, CallersWork, InProgress, CallType
    <3>3. proc'[call[c].at] = proc[call[c].at]
      BY <1>1, <1>2, <3>2
    <3> QED BY <3>2, <3>3 DEF Serves
  <2>2. ASSUME NEW c \in Calls, call'[c].parent # NoCall
        PROVE  call'[call'[c].parent].at # "" /\ call'[c].at \in Services
    <3>1. /\ c \notin dead /\ call'[c].parent = call[c].parent
          /\ call[c].parent \in Calls \ dead
      BY <1>9, <2>2
    <3>2. call[call[c].parent].at # "" /\ call[c].at \in Services
      BY <2>2, <3>1 DEF IInv, TypeOK, CallersWork, InProgress
    <3>3. call'[call[c].parent].at = call[call[c].parent].at /\ call'[c].at = call[c].at
      BY <1>4, <3>1
    <3> QED BY <3>1, <3>2, <3>3
  <2> QED BY <2>1, <2>2 DEF CallersWork, InProgress, Serves
<1>11. CallsCarryTheUser'
  BY <1>4, <1>9 DEF IInv, CallsCarryTheUser
<1>12. PanicsOfThisRun'
  BY <1>1, <1>2 DEF IInv, PanicsOfThisRun, Serves, Procs
<1>13. GaugesCount'
  <2>1. Cardinality(At(call', p)) = 0
    <3>1. p # ""
      BY DEF Procs, Gateway, Services
    <3>2. ASSUME NEW d \in Calls
          PROVE  call'[d].at # p
      <4>1. CASE d \in dead
        <5>1. call'[d] = Free
          BY <1>4, <4>1
        <5> QED BY <3>1, <5>1, FreeFacts
      <4>2. CASE d \notin dead
        <5>1. call'[d].at = call[d].at
          BY <1>4, <4>2
        <5> QED BY <4>2, <5>1
      <4> QED BY <4>1, <4>2
    <3> QED BY <3>2, AtNone
  <2>2. metric'[p].inFlight = 0
    BY <1>1, <1>2, ZeroFacts
  <2>3. metric'[p].inFlight = Cardinality(At(call', p)) + (IF p = Gateway THEN panics' ELSE 0)
    BY <1>2, <2>1, <2>2
  <2>4. ASSUME NEW q \in Procs \ {p}
        PROVE  metric'[q].inFlight = Cardinality(At(call', q)) + (IF q = Gateway THEN panics' ELSE 0)
    <3>1. q # ""
      BY DEF Procs, Gateway, Services
    <3>2. ASSUME NEW d \in Calls
          PROVE  call'[d].at = q <=> call[d].at = q
      <4>1. CASE d \in dead
        <5>1. call'[d] = Free
          BY <1>4, <4>1
        <5> QED BY <3>1, <4>1, <5>1, FreeFacts
      <4>2. CASE d \notin dead
        BY <1>4, <4>2
      <4> QED BY <4>1, <4>2
    <3>3. Cardinality(At(call', q)) = Cardinality(At(call, q))
      BY <3>2, AtSame
    <3>4. metric'[q] = metric[q] /\ (q = Gateway => panics' = panics)
      BY <1>1, <1>2
    <3> QED BY <3>3, <3>4, InFlightAt DEF IInv
  <2> QED BY <2>3, <2>4, InFlightAt
<1> QED BY <1>5, <1>6, <1>7, <1>8, <1>10, <1>11, <1>12, <1>13 DEF IInv, TypeOK

-------------------------------------------------------------------------------
(* The induction. *)

(* The invariant holds when nothing runs. *)
LEMMA InitIInv == Init => IInv
<1> SUFFICES ASSUME Init
             PROVE  IInv
  OBVIOUS
<1>1. /\ proc = [p \in Procs |-> Down] /\ call = [c \in Calls |-> Free]
      /\ metric = [p \in Procs |-> Zero]
      /\ received = 0 /\ crashes = 0 /\ panics = 0
  BY DEF Init
<1>2. /\ proc \in [Procs -> ProcessType] /\ call \in [Calls -> CallType]
      /\ metric \in [Procs -> MetricType]
  BY <1>1, DownFacts, FreeFacts, ZeroFacts
<1>3. AttemptsBounded
  BY <1>1, DownFacts, NeedsFacts, RetriesAssumption DEF AttemptsBounded
<1>4. CallersWork /\ CallsCarryTheUser /\ PanicsOfThisRun
  BY <1>1, FreeFacts DEF CallersWork, CallsCarryTheUser, PanicsOfThisRun, InProgress
<1>5. GaugesCount
  <2>1. \A p \in Procs : \A d \in Calls : call[d].at # p
    BY <1>1, FreeFacts DEF Procs, Gateway, Services
  <2>2. \A p \in Procs : Cardinality(At(call, p)) = 0
    BY <2>1, AtNone
  <2>3. \A p \in Procs : metric[p].inFlight = 0
    BY <1>1, ZeroFacts
  <2> QED BY <1>1, <2>2, <2>3, InFlightAt
<1> QED BY <1>1, <1>2, <1>3, <1>4, <1>5 DEF IInv, TypeOK

(* Every step keeps it. *)
LEMMA NextKeeps == IInv /\ [Next]_vars => IInv'
<1> SUFFICES ASSUME IInv, [Next]_vars
             PROVE  IInv'
  OBVIOUS
<1>1. CASE UNCHANGED vars
  BY <1>1 DEF vars, IInv, TypeOK, AttemptsBounded, CallersWork, CallsCarryTheUser, PanicsOfThisRun,
       GaugesCount, InProgress, Serves
<1>2. ASSUME NEW p \in Procs, Start(p) \/ Boot(p) \/ Crash(p)
      PROVE  IInv'
  BY <1>2, StartKeeps, BootKeeps, CrashKeeps DEF Boot
<1>3. ASSUME NEW c \in Calls, Receive(c)
      PROVE  IInv'
  BY <1>3, ReceiveKeeps
<1>4. ASSUME NEW c \in Calls, Advance(c)
      PROVE  IInv'
  <2>1. CASE AuthMiddleware(c)
    BY <2>1, AuthMiddlewareKeeps
  <2>2. CASE \E d \in Calls, q \in Services : Invoke(c, d, q)
    BY <2>2, InvokeKeeps
  <2>3. CASE Return(c)
    BY <2>3, ReturnKeeps
  <2>4. CASE Respond(c)
    BY <2>4, RespondKeeps
  <2>5. CASE Panic(c)
    BY <2>5, PanicKeeps
  <2> QED BY <1>4, <2>1, <2>2, <2>3, <2>4, <2>5 DEF Advance
<1> QED BY <1>1, <1>2, <1>3, <1>4 DEF Next

(* So it always holds. *)
LEMMA Invariance == Spec => []IInv
  BY InitIInv, NextKeeps, PTL DEF Spec

(* Processes, calls and metrics are well formed; no process exceeds its    *)
(* attempts to connect, none but those that serve have calls, and who      *)
(* waits for a call is still in progress, whoever dies.                    *)
THEOREM TypeCorrect == Spec => []TypeOK
<1>1. IInv => TypeOK
  BY DEF IInv
<1> QED BY <1>1, Invariance, PTL

(* The gauge of a process never shows less than the requests it works on,  *)
(* and exactly these unless a handler of the gateway has panicked since    *)
(* its start (metrics/metricsHTTP.go, metricsGRPC.go).                     *)
THEOREM GaugesAreRight == Spec => []InFlightIsRight
<1>1. IInv => InFlightIsRight
  <2> SUFFICES ASSUME IInv, NEW p \in Procs
               PROVE  /\ metric[p].inFlight >= Cardinality({c \in Calls : call[c].at = p})
                      /\ \/ metric[p].inFlight = Cardinality({c \in Calls : call[c].at = p})
                         \/ p = Gateway /\ panics > 0
    BY DEF InFlightIsRight
  <2>1. metric[p].inFlight = Cardinality(At(call, p)) + (IF p = Gateway THEN panics ELSE 0)
    BY InFlightAt DEF IInv
  <2>2. Cardinality(At(call, p)) \in Nat /\ panics \in Nat
    BY AtFinite DEF IInv, TypeOK
  <2>3. /\ metric[p].inFlight >= Cardinality(At(call, p))
        /\ metric[p].inFlight = Cardinality(At(call, p)) \/ (p = Gateway /\ panics > 0)
    BY <2>1, <2>2
  <2> QED BY <2>3 DEF At
<1> QED BY <1>1, Invariance, PTL

(* Whatever a call passes through, it is made in the name of the user of   *)
(* its request (internal/grpc/middleware.go).                              *)
THEOREM UsersAreCarried == Spec => []CallsCarryTheUser
<1>1. IInv => CallsCarryTheUser
  BY DEF IInv
<1> QED BY <1>1, Invariance, PTL

-------------------------------------------------------------------------------
(* Classes and types of errors. *)

ClientTypes ==
    {"bad_request", "unauthorized", "forbidden", "not_found", "timeout", "conflict",
     "validation_error", "rate_limit", "client_error", "invalid_argument", "already_exists",
     "permission_denied"}
ServerTypes == {"server_error", "unknown", "unavailable", "internal"}

(* Nothing is counted yet. *)
LEMMA ZeroClassified == Classified(Zero)
  BY DEF Zero, Classified, ClientErrors, ServerErrors, Classes, ErrorTypes

(* The gauge is not among what is classified. *)
LEMMA GaugeClassified ==
    ASSUME NEW m \in MetricType, NEW n \in MetricType, Classified(m),
           n.total = m.total, n.errors = m.errors
    PROVE  Classified(n)
  BY DEF Classified, ClientErrors, ServerErrors

(* One more error of a type makes one more error of its side. *)
LEMMA SumGrows ==
    ASSUME NEW m \in MetricType, NEW n \in MetricType, NEW t \in ClientTypes \cup ServerTypes,
           n.errors = [m.errors EXCEPT ![t] = @ + 1]
    PROVE  /\ ClientErrors(n) = ClientErrors(m) + (IF t \in ClientTypes THEN 1 ELSE 0)
           /\ ServerErrors(n) = ServerErrors(m) + (IF t \in ServerTypes THEN 1 ELSE 0)
<1>1. m.errors \in [ErrorTypes -> Nat]
  BY DEF MetricType
<1>2. \A x \in ErrorTypes : n.errors[x] = IF x = t THEN m.errors[x] + 1 ELSE m.errors[x]
  BY <1>1
<1> DEFINE d(x) == IF x = t THEN 1 ELSE 0
           A(f) == f["bad_request"] + f["unauthorized"] + f["forbidden"] + f["not_found"]
                     + f["timeout"] + f["conflict"]
           B(f) == f["validation_error"] + f["rate_limit"] + f["client_error"]
                     + f["invalid_argument"] + f["already_exists"] + f["permission_denied"]
           C(f) == f["server_error"] + f["unknown"] + f["unavailable"] + f["internal"]
           one == [x \in ErrorTypes |-> d(x)]
           Adds(x) == /\ n.errors[x] = m.errors[x] + one[x]
                      /\ m.errors[x] \in Nat /\ one[x] \in Nat
<1>3. \A x \in ErrorTypes : Adds(x)
  BY <1>1, <1>2
<1>4. \A x \in ErrorTypes : one[x] = IF x = t THEN 1 ELSE 0
  OBVIOUS
<1> HIDE DEF one, Adds
<1>5. /\ t \in ClientTypes => \/ A(one) = 1 /\ B(one) = 0 /\ C(one) = 0
                              \/ A(one) = 0 /\ B(one) = 1 /\ C(one) = 0
      /\ t \in ServerTypes => A(one) = 0 /\ B(one) = 0 /\ C(one) = 1
  BY <1>4 DEF ErrorTypes, ClientTypes, ServerTypes
<1>6. A(n.errors) = A(m.errors) + A(one) /\ A(m.errors) \in Nat
  <2>1. /\ Adds("bad_request")
        /\ Adds("unauthorized")
        /\ Adds("forbidden")
        /\ Adds("not_found")
        /\ Adds("timeout")
        /\ Adds("conflict")
    BY <1>3 DEF ErrorTypes
  <2> QED BY ONLY <2>1 DEF Adds
<1>7. B(n.errors) = B(m.errors) + B(one) /\ B(m.errors) \in Nat
  <2>1. /\ Adds("validation_error")
        /\ Adds("rate_limit")
        /\ Adds("client_error")
        /\ Adds("invalid_argument")
        /\ Adds("already_exists")
        /\ Adds("permission_denied")
    BY <1>3 DEF ErrorTypes
  <2> QED BY ONLY <2>1 DEF Adds
<1>8. C(n.errors) = C(m.errors) + C(one) /\ C(m.errors) \in Nat
  <2>1. /\ Adds("server_error")
        /\ Adds("unknown")
        /\ Adds("unavailable")
        /\ Adds("internal")
    BY <1>3 DEF ErrorTypes
  <2> QED BY ONLY <2>1 DEF Adds
<1>9. /\ ClientErrors(n) = A(n.errors) + B(n.errors) /\ ServerErrors(n) = C(n.errors)
      /\ ClientErrors(m) = A(m.errors) + B(m.errors) /\ ServerErrors(m) = C(m.errors)
  BY DEF ClientErrors, ServerErrors
<1>10. ~(t \in ClientTypes /\ t \in ServerTypes)
  BY DEF ClientTypes, ServerTypes
<1> HIDE DEF A, B, C
<1>11. CASE t \in ClientTypes
  BY <1>5, <1>6, <1>7, <1>8, <1>9, <1>10, <1>11
<1>12. CASE t \in ServerTypes
  BY <1>5, <1>6, <1>7, <1>8, <1>9, <1>10, <1>12
<1> QED BY <1>11, <1>12

(* An answer that is no error is counted in a class of its own. *)
LEMMA FineClassified ==
    ASSUME NEW m \in MetricType, Classified(m), NEW k \in {"2xx", "3xx"}
    PROVE  Classified([m EXCEPT !.total[k] = @ + 1])
<1> DEFINE n == [m EXCEPT !.total[k] = @ + 1]
<1>1. m.total \in [Classes -> Nat]
  BY DEF MetricType
<1>2. n.total = [m.total EXCEPT ![k] = @ + 1] /\ n.errors = m.errors
  BY DEF MetricType
<1> HIDE DEF n
<1>3. /\ n.total["4xx"] = m.total["4xx"] /\ n.total["5xx"] = m.total["5xx"]
      /\ n.total["unknown"] = m.total["unknown"]
  BY <1>1, <1>2 DEF Classes
<1>4. ClientErrors(n) = ClientErrors(m) /\ ServerErrors(n) = ServerErrors(m)
  BY <1>2 DEF ClientErrors, ServerErrors
<1>5. Classified(n)
  BY <1>2, <1>3, <1>4 DEF Classified
<1> QED BY <1>5 DEF n

Erred(m, k, t) == [[m EXCEPT !.total[k] = @ + 1] EXCEPT !.errors[t] = @ + 1]

(* An answer that is an error is counted once by its class and once by its *)
(* type.                                                                   *)
LEMMA ErrorClassified ==
    ASSUME NEW m \in MetricType, Classified(m), NEW k, NEW t,
           \/ k = "4xx" /\ t \in ClientTypes
           \/ k = "5xx" /\ t \in ServerTypes
    PROVE  Classified(Erred(m, k, t))
<1> DEFINE n == Erred(m, k, t)
<1>1. m.total \in [Classes -> Nat] /\ m.errors \in [ErrorTypes -> Nat]
  BY DEF MetricType
<1>2. /\ k \in Classes /\ t \in ErrorTypes /\ t # "unknown_error"
      /\ t \in ClientTypes \cup ServerTypes
      /\ t \in ClientTypes => t \notin ServerTypes
  BY DEF Classes, ErrorTypes, ClientTypes, ServerTypes
<1>3. /\ n.total = [m.total EXCEPT ![k] = @ + 1] /\ n.errors = [m.errors EXCEPT ![t] = @ + 1]
      /\ n \in MetricType
  <2>1. [m EXCEPT !.total[k] = @ + 1] \in MetricType
    BY <1>2, CountedFacts
  <2>2. n \in MetricType
    BY <1>2, <2>1, CountedFacts DEF Erred
  <2> QED BY <2>2 DEF MetricType, Erred
<1> HIDE DEF n
<1>4. /\ n.total["4xx"] = m.total["4xx"] + (IF t \in ClientTypes THEN 1 ELSE 0)
      /\ n.total["5xx"] = m.total["5xx"] + (IF t \in ServerTypes THEN 1 ELSE 0)
      /\ n.total["unknown"] = m.total["unknown"]
  <2>1. CASE k = "4xx" /\ t \in ClientTypes
    BY <1>1, <1>2, <1>3, <2>1 DEF Classes
  <2>2. CASE k = "5xx" /\ t \in ServerTypes
    BY <1>1, <1>2, <1>3, <2>2 DEF Classes
  <2> QED BY <2>1, <2>2
<1>5. n.errors["unknown_error"] = m.errors["unknown_error"]
  BY <1>1, <1>2, <1>3 DEF ErrorTypes
<1>6. /\ ClientErrors(n) = ClientErrors(m) + (IF t \in ClientTypes THEN 1 ELSE 0)
      /\ ServerErrors(n) = ServerErrors(m) + (IF t \in ServerTypes THEN 1 ELSE 0)
  BY <1>2, <1>3, SumGrows
<1>7. Classified(n)
  BY <1>4, <1>5, <1>6 DEF Classified
<1> QED BY <1>7 DEF n

(* The codes the gateway answers with. *)
FineCodes  == {200, 206, 301, 304}
ErrorCodes == {400, 403, 404, 405, 409, 412, 416, 500}

LEMMA CodesKnown ==
    ASSUME NEW c
    PROVE  AnswerCodes(c) \subseteq FineCodes \cup ErrorCodes
<1>1. \A err : MapErrorToHTTP(err) \in ErrorCodes
  BY DEF MapErrorToHTTP, ErrorCodes
<1>2. \A got : /\ MiddlewareCodes(got) \subseteq FineCodes \cup ErrorCodes
               /\ HandlerCodes(got) \subseteq FineCodes \cup ErrorCodes
  BY <1>1 DEF MiddlewareCodes, HandlerCodes, UpgradeCodes, FineCodes, ErrorCodes
<1>3. OpenCodes \subseteq FineCodes \cup ErrorCodes
  BY DEF OpenCodes, FineCodes, ErrorCodes
<1> QED BY <1>2, <1>3 DEF AnswerCodes

(* Whatever the gateway answers is classified. *)
LEMMA HTTPClassified ==
    ASSUME NEW m \in MetricType, Classified(m), NEW code \in FineCodes \cup ErrorCodes
    PROVE  Classified(HTTPMiddleware(m, code))
<1> DEFINE n == [m EXCEPT !.inFlight = @ - 1]
<1>1. n \in MetricType /\ n.total = m.total /\ n.errors = m.errors
  BY DEF MetricType
<1> HIDE DEF n
<1>2. Classified(n)
  BY <1>1, GaugeClassified
<1>3. CASE code \in FineCodes
  <2>1. PICK k \in {"2xx", "3xx"} : getStatusClass(code) = k
    BY <1>3 DEF getStatusClass, FineCodes
  <2>2. HTTPMiddleware(m, code) = recordHTTP(n, code)
    BY DEF HTTPMiddleware, n
  <2>3. ~(code >= 400)
    BY <1>3 DEF FineCodes
  <2>4. recordHTTP(n, code) = [n EXCEPT !.total[k] = @ + 1]
    BY <2>1, <2>3 DEF recordHTTP
  <2> QED BY <1>1, <1>2, <2>2, <2>4, FineClassified
<1>4. CASE code \in ErrorCodes
  <2> DEFINE Blames(k, t) == \/ k = "4xx" /\ t \in ClientTypes
                             \/ k = "5xx" /\ t \in ServerTypes
  <2>1. ASSUME code = 500
        PROVE  Blames(getStatusClass(code), getErrorType(code))
    <3>1. getStatusClass(500) = "5xx" /\ getErrorType(500) = "server_error"
      BY DEF getStatusClass, getErrorType
    <3> QED BY <2>1, <3>1 DEF ServerTypes
  <2>2. ASSUME code # 500
        PROVE  Blames(getStatusClass(code), getErrorType(code))
    <3>1. getStatusClass(code) = "4xx"
      BY <1>4, <2>2 DEF getStatusClass, ErrorCodes
    <3>2. /\ getErrorType(400) = "bad_request" /\ getErrorType(403) = "forbidden"
          /\ getErrorType(404) = "not_found" /\ getErrorType(409) = "conflict"
      BY DEF getErrorType
    <3>3. /\ getErrorType(405) = "client_error" /\ getErrorType(412) = "client_error"
          /\ getErrorType(416) = "client_error"
      BY DEF getErrorType
    <3>4. \/ code = 400 \/ code = 403 \/ code = 404 \/ code = 409
          \/ code = 405 \/ code = 412 \/ code = 416
      BY <1>4, <2>2 DEF ErrorCodes
    <3>5. getErrorType(code) \in ClientTypes
      BY <3>2, <3>3, <3>4 DEF ClientTypes
    <3> QED BY <3>1, <3>5
  <2>3. PICK k, t : k = getStatusClass(code) /\ t = getErrorType(code)
    OBVIOUS
  <2>4. Blames(k, t)
    BY <2>1, <2>2, <2>3
  <2>5. code >= 400
    BY <1>4 DEF ErrorCodes
  <2>6. HTTPMiddleware(m, code) = Erred(n, k, t)
    BY <2>3, <2>5 DEF HTTPMiddleware, recordHTTP, n, Erred
  <2> QED BY <1>1, <1>2, <2>4, <2>6, ErrorClassified
<1> QED BY <1>3, <1>4

(* And so is whatever a service answers. *)
LEMMA GRPCClassified ==
    ASSUME NEW m \in MetricType, Classified(m), NEW status \in Statuses
    PROVE  Classified(UnaryServerInterceptor(m, status))
<1> DEFINE n == [m EXCEPT !.inFlight = @ - 1]
<1>1. n \in MetricType /\ n.total = m.total /\ n.errors = m.errors
  BY DEF MetricType
<1> HIDE DEF n
<1>2. Classified(n)
  BY <1>1, GaugeClassified
<1>3. CASE status = "OK"
  <2>1. grpcCodeToStatusClass(status) = "2xx"
    BY <1>3 DEF grpcCodeToStatusClass
  <2>2. UnaryServerInterceptor(m, status) = [n EXCEPT !.total["2xx"] = @ + 1]
    BY <1>3, <2>1 DEF UnaryServerInterceptor, recordGRPC, n
  <2> QED BY <1>1, <1>2, <2>2, FineClassified
<1>4. CASE status # "OK"
  <2>1. status \in {"Unavailable", "NotFound", "PermissionDenied", "InvalidArgument",
                    "AlreadyExists", "Internal: database error", "Internal: service error",
                    "Unknown"}
    BY <1>4 DEF Statuses, ToGrpcError
  <2>2. UnaryServerInterceptor(m, status)
          = Erred(n, grpcCodeToStatusClass(status), grpcCodeToErrorType(status))
    BY <1>4 DEF UnaryServerInterceptor, recordGRPC, n, Erred
  <2>3. CASE status \in {"NotFound", "PermissionDenied", "InvalidArgument", "AlreadyExists"}
    <3>1. grpcCodeToStatusClass(status) = "4xx" /\ grpcCodeToErrorType(status) \in ClientTypes
      BY <2>3 DEF grpcCodeToStatusClass, grpcCodeToErrorType, ClientTypes
    <3> QED BY <1>1, <1>2, <2>2, <3>1, ErrorClassified
  <2>4. CASE status \in {"Unavailable", "Internal: database error", "Internal: service error",
                         "Unknown"}
    <3>1. grpcCodeToStatusClass(status) = "5xx" /\ grpcCodeToErrorType(status) \in ServerTypes
      BY <2>4 DEF grpcCodeToStatusClass, grpcCodeToErrorType, ServerTypes
    <3> QED BY <1>1, <1>2, <2>2, <3>1, ErrorClassified
  <2> QED BY <2>1, <2>3, <2>4
<1> QED BY <1>3, <1>4

(* A step that changes the metrics of one process keeps all classified if  *)
(* it keeps those.                                                         *)
LEMMA OneClassified ==
    ASSUME IInv, ErrorsAreClassified, NEW p \in Procs, NEW n, Classified(n),
           metric' = [metric EXCEPT ![p] = n]
    PROVE  ErrorsAreClassified'
<1>1. metric \in [Procs -> MetricType]
  BY DEF IInv, TypeOK
<1>2. \A q \in Procs : metric'[q] = IF q = p THEN n ELSE metric[q]
  BY <1>1
<1> QED BY <1>2 DEF ErrorsAreClassified

(* Every step keeps what is counted classified. *)
LEMMA NextClassifies == IInv /\ ErrorsAreClassified /\ [Next]_vars => ErrorsAreClassified'
<1> SUFFICES ASSUME IInv, ErrorsAreClassified, [Next]_vars
             PROVE  ErrorsAreClassified'
  OBVIOUS
<1>1. \A p \in Procs : metric[p] \in MetricType /\ Classified(metric[p])
  BY DEF IInv, TypeOK, ErrorsAreClassified
<1>2. \A p \in Procs : Classified(Entered(metric[p]))
  <2>1. \A m \in MetricType : /\ Entered(m) \in MetricType
                              /\ Entered(m).total = m.total /\ Entered(m).errors = m.errors
    BY DEF Entered, MetricType
  <2> QED BY <1>1, <2>1, GaugeClassified
<1>3. Gateway \in Procs /\ Services \subseteq Procs
  BY DEF Procs
<1>4. CASE UNCHANGED metric
  BY <1>4 DEF ErrorsAreClassified
<1>5. ASSUME NEW p \in Procs, Start(p) \/ Crash(p)
      PROVE  ErrorsAreClassified'
  <2>1. metric' = [metric EXCEPT ![p] = Zero]
    BY <1>5 DEF Start, Crash, NewHTTPMetrics, NewGRPCMetrics
  <2> QED BY <2>1, ZeroClassified, OneClassified
<1>6. ASSUME NEW c \in Calls, Receive(c)
      PROVE  ErrorsAreClassified'
  <2>1. metric' = [metric EXCEPT ![Gateway] = Entered(metric[Gateway])]
    BY <1>6 DEF Receive
  <2> QED BY <1>2, <1>3, <2>1, OneClassified
<1>7. ASSUME NEW c \in Calls, NEW d \in Calls, NEW q \in Services, Invoke(c, d, q)
      PROVE  ErrorsAreClassified'
  <2>1. UNCHANGED metric \/ metric' = [metric EXCEPT ![q] = Entered(metric[q])]
    BY <1>7 DEF Invoke
  <2> QED BY <1>2, <1>3, <1>4, <2>1, OneClassified
<1>8. ASSUME NEW c \in Calls, Return(c)
      PROVE  ErrorsAreClassified'
  <2>1. PICK err \in IF call[c].got = "OK" THEN Outcomes ELSE {"ErrDB"} :
          metric' = [metric EXCEPT ![call[c].at] =
            UnaryServerInterceptor(metric[call[c].at], IF err = Ok THEN "OK" ELSE ToGrpcError(err))]
    BY <1>8 DEF Return
  <2>2. PICK p \in Services : p = call[c].at
    BY <1>8 DEF Return
  <2>3. PICK status : status = IF err = Ok THEN "OK" ELSE ToGrpcError(err)
    OBVIOUS
  <2>4. err \in Outcomes
    BY DEF Outcomes
  <2>5. status \in Statuses
    BY <2>3, <2>4, StatusFacts
  <2>6. Classified(UnaryServerInterceptor(metric[p], status))
    BY <1>1, <1>3, <2>5, GRPCClassified
  <2>7. metric' = [metric EXCEPT ![p] = UnaryServerInterceptor(metric[p], status)]
    BY <2>1, <2>2, <2>3
  <2> QED BY <1>3, <2>6, <2>7, OneClassified
<1>9. ASSUME NEW c \in Calls, Respond(c)
      PROVE  ErrorsAreClassified'
  <2>1. PICK code \in FineCodes \cup ErrorCodes :
          metric' = [metric EXCEPT ![Gateway] = HTTPMiddleware(metric[Gateway], code)]
    BY <1>9, CodesKnown DEF Respond
  <2>2. Classified(HTTPMiddleware(metric[Gateway], code))
    BY <1>1, <1>3, HTTPClassified
  <2> QED BY <1>3, <2>1, <2>2, OneClassified
<1>10. ASSUME NEW p \in Procs, Boot(p)
       PROVE  ErrorsAreClassified'
  BY <1>4, <1>10 DEF Boot, WaitForGRPC, Listen
<1>11. ASSUME NEW c \in Calls, AuthMiddleware(c) \/ Panic(c)
       PROVE  ErrorsAreClassified'
  BY <1>4, <1>11 DEF AuthMiddleware, Panic
<1>12. CASE UNCHANGED vars
  BY <1>4, <1>12 DEF vars
<1> QED BY <1>5, <1>6, <1>7, <1>8, <1>9, <1>10, <1>11, <1>12 DEF Next, Advance

(* Whatever is asked of the gateway, inside /api or not, however the       *)
(* answers fail, and whoever dies in the middle: the errors of a process   *)
(* whose type blames the client add up to its answers of class 4xx, those  *)
(* whose type blames the server to the ones of class 5xx, and no answer    *)
(* has an unknown class or type (metrics/metricsHTTP.go, metricsGRPC.go,   *)
(* domain/errors.go).                                                      *)
THEOREM ErrorsAddUp == Spec => []ErrorsAreClassified
<1>1. Init => ErrorsAreClassified
  BY ZeroClassified DEF Init, ErrorsAreClassified
<1> QED BY <1>1, Invariance, NextClassifies, PTL DEF Spec

-------------------------------------------------------------------------------
(* The WebSocket hub (module WSHub), which the gateway's process runs, for *)
(* any number of users, connections and senders and any capacity of a      *)
(* channel.  All follows from the inductive invariant HubIInv: the map     *)
(* only holds connections that are being served, and a pump that left its  *)
(* loop belongs to a broken connection.                                    *)

(* Nothing changes, or only the peer, the queues, the senders or the panic *)
(* of a send: what AddClient, RemoveClient and the pumps own is untouched. *)
LEMMA QueuesKeep ==
    ASSUME HubIInv, HubTypeOK', panic' # "close of closed channel",
           UNCHANGED <<clients, user, closed, conn, peer, writer, reader>>
    PROVE  HubIInv'
BY DEF HubIInv, NoDoubleClose, RegisteredIsServed, PumpsHaveCause, Broken

(* The new client is known to nobody, so replacing the user's entry cannot *)
(* disturb another one.                                                    *)
LEMMA AddClientKeeps ==
    ASSUME HubIInv, NEW c \in Clients, NEW u \in Users, AddClient(c, u)
    PROVE  HubIInv'
<1> USE DEF HubIInv, AddClient
<1>1. HubTypeOK'
  BY DEF HubTypeOK
<1>2. NoDoubleClose'
  BY DEF NoDoubleClose
<1>3. RegisteredIsServed'
  <2> SUFFICES ASSUME NEW w \in Users, NEW d \in Clients, clients'[w] = d
               PROVE  /\ user'[d] = w
                      /\ d \notin closed'
                      /\ conn'[d] = "open"
                      /\ writer'[d] \in {"run", "removing"}
                      /\ reader'[d] \in {"run", "removing"}
    BY DEF RegisteredIsServed
  <2>1. CASE w = u
    <3>1. d = c /\ c \notin closed
      BY <2>1 DEF HubTypeOK, PumpsHaveCause
    <3> QED BY <2>1, <3>1 DEF HubTypeOK
  <2>2. CASE w # u
    <3>1. clients[w] = d
      BY <2>2 DEF HubTypeOK
    <3>2. conn[d] = "open" /\ d # c
      BY <3>1 DEF RegisteredIsServed
    <3>3. /\ user'[d] = user[d] /\ closed' = closed /\ conn'[d] = conn[d]
          /\ writer'[d] = writer[d] /\ reader'[d] = reader[d]
      BY <3>2 DEF HubTypeOK
    <3> QED BY <3>1, <3>3 DEF RegisteredIsServed
  <2> QED BY <2>1, <2>2
<1>4. PumpsHaveCause'
  BY DEF HubTypeOK, PumpsHaveCause, Broken
<1> QED BY <1>1, <1>2, <1>3, <1>4

(* RemoveClient closes the channel of a registered client, which is open,  *)
(* and leaves every other client alone.                                    *)
LEMMA RemoveClientKeeps ==
    ASSUME HubIInv, NEW u \in Users, RemoveClient(u)
    PROVE  /\ clients' = [clients EXCEPT ![u] = NoClient]
           /\ panic' = panic
           /\ closed' \subseteq Clients
           /\ conn' \in [Clients -> {"none", "open", "closed"}]
           /\ \A d \in Clients :
                 \/ (d \in closed' <=> d \in closed) /\ conn'[d] = conn[d]
                 \/ d = clients[u] /\ d \in closed' /\ conn'[d] = "closed"
<1> USE DEF RemoveClient
<1>0. /\ clients \in [Users -> Clients \cup {NoClient}]
      /\ closed \subseteq Clients
      /\ conn \in [Clients -> {"none", "open", "closed"}]
  BY DEF HubIInv, HubTypeOK
<1>1. CASE clients[u] = NoClient
  BY <1>0, <1>1
<1>2. CASE clients[u] # NoClient
  <2>1. clients[u] \in Clients
    BY <1>0, <1>2
  <2>2. clients[u] \notin closed
    BY <2>1 DEF HubIInv, RegisteredIsServed
  <2> QED BY <1>0, <1>2, <2>1, <2>2
<1> QED BY <1>1, <1>2

(* A pump's deferred RemoveClient: the only entry it can disturb is that   *)
(* of its own user.                                                        *)
LEMMA RemovalKeeps ==
    ASSUME HubIInv, NEW c \in Clients, WriterEnds(c) \/ ReaderRemoves(c)
    PROVE  HubIInv'
<1> DEFINE u == user[c]
<1>1. u \in Users
  BY DEF HubIInv, WriterEnds, ReaderRemoves, PumpsHaveCause
<1>2. RemoveClient(u)
  BY DEF WriterEnds, ReaderRemoves
<1> HIDE DEF u
<1>3. /\ clients' = [clients EXCEPT ![u] = NoClient]
      /\ panic' = panic
      /\ closed' \subseteq Clients
      /\ conn' \in [Clients -> {"none", "open", "closed"}]
      /\ \A d \in Clients :
            \/ (d \in closed' <=> d \in closed) /\ conn'[d] = conn[d]
            \/ d = clients[u] /\ d \in closed' /\ conn'[d] = "closed"
  BY <1>1, <1>2, RemoveClientKeeps
<1>4. HubTypeOK'
  BY <1>1, <1>3 DEF HubIInv, HubTypeOK, WriterEnds, ReaderRemoves
<1>5. NoDoubleClose'
  BY <1>3 DEF HubIInv, NoDoubleClose
<1>6. RegisteredIsServed'
  <2> SUFFICES ASSUME NEW w \in Users, NEW d \in Clients, clients'[w] = d
               PROVE  /\ user'[d] = w
                      /\ d \notin closed'
                      /\ conn'[d] = "open"
                      /\ writer'[d] \in {"run", "removing"}
                      /\ reader'[d] \in {"run", "removing"}
    BY DEF RegisteredIsServed
  <2>1. w # u /\ clients[w] = d
    BY <1>3, <1>1, NoClientAssumption, NoUserAssumption DEF HubIInv, HubTypeOK
  <2>2. user[d] = w /\ d \notin closed /\ conn[d] = "open"
        /\ writer[d] \in {"run", "removing"} /\ reader[d] \in {"run", "removing"}
    BY <2>1 DEF HubIInv, RegisteredIsServed
  <2>3. d # c
    BY <2>1, <2>2 DEF u, WriterEnds, ReaderRemoves
  <2>4. d # clients[u]
    BY <2>1, <2>2, <1>1 DEF HubIInv, RegisteredIsServed
  <2> QED BY <1>3, <2>1, <2>2, <2>3, <2>4 DEF WriterEnds, ReaderRemoves, HubIInv, HubTypeOK
<1>7. PumpsHaveCause'
  <2>1. clients[u] \in Clients => conn[clients[u]] = "open" /\ user[clients[u]] = u
    BY <1>1, NoClientAssumption, NoUserAssumption DEF HubIInv, RegisteredIsServed
  <2> SUFFICES ASSUME NEW d \in Clients
               PROVE  /\ conn'[d] = "none" => writer'[d] = "none" /\ reader'[d] = "none"
                      /\ conn'[d] # "none" => user'[d] \in Users
                      /\ d \in closed' => conn'[d] = "closed"
                      /\ writer'[d] \in {"removing", "done"} => Broken(d)'
                      /\ reader'[d] \in {"removing", "closing", "done"} => Broken(d)'
    BY DEF PumpsHaveCause
  <2>2. /\ conn[d] = "none" => writer[d] = "none" /\ reader[d] = "none"
        /\ conn[d] # "none" => user[d] \in Users
        /\ d \in closed => conn[d] = "closed"
        /\ writer[d] \in {"removing", "done"} => Broken(d)
        /\ reader[d] \in {"removing", "closing", "done"} => Broken(d)
    BY DEF HubIInv, PumpsHaveCause
  <2>3. user' = user /\ peer' = peer
    BY DEF WriterEnds, ReaderRemoves
  <2>4. \/ writer'[d] = writer[d]
        \/ writer[d] = "removing" /\ writer'[d] = "done"
    BY DEF HubIInv, HubTypeOK, WriterEnds, ReaderRemoves
  <2>5. \/ reader'[d] = reader[d]
        \/ reader[d] = "removing" /\ reader'[d] = "closing"
    BY DEF HubIInv, HubTypeOK, WriterEnds, ReaderRemoves
  <2> QED BY <1>3, <2>1, <2>2, <2>3, <2>4, <2>5 DEF Broken
<1> QED BY <1>4, <1>5, <1>6, <1>7 DEF HubIInv

(* The steps of a pump before its deferred calls only move that pump, and  *)
(* only on a broken connection; the reader closes its connection only      *)
(* after the entry is gone.                                                *)
LEMMA PumpsKeep ==
    ASSUME HubIInv, NEW c \in Clients,
           WriteMessage(c) \/ WriteClose(c) \/ PingFails(c) \/ ReadFails(c)
               \/ ReaderCloses(c) \/ PeerGone(c)
    PROVE  HubIInv'
<1>0. HubTypeOK /\ NoDoubleClose /\ RegisteredIsServed /\ PumpsHaveCause
  BY DEF HubIInv
<1>1. HubTypeOK'
  <2>1. CASE WriteMessage(c)
    <3>1. queue[c] \in 0..Cap /\ queue[c] > 0
      BY <1>0, <2>1 DEF HubTypeOK, WriteMessage
    <3>2. queue[c] - 1 \in 0..Cap
      BY <3>1, CapAssumption
    <3>3. queue' \in [Clients -> 0..Cap]
      BY <1>0, <2>1, <3>2 DEF HubTypeOK, WriteMessage
    <3>4. writer' \in [Clients -> {"none", "run", "removing", "done"}]
      BY <1>0, <2>1 DEF HubTypeOK, WriteMessage
    <3> QED BY <1>0, <2>1, <3>3, <3>4 DEF HubTypeOK, WriteMessage
  <2>2. CASE WriteClose(c)
    BY <1>0, <2>2 DEF HubTypeOK, WriteClose
  <2>3. CASE PingFails(c)
    BY <1>0, <2>3 DEF HubTypeOK, PingFails
  <2>4. CASE ReadFails(c)
    BY <1>0, <2>4 DEF HubTypeOK, ReadFails
  <2>5. CASE ReaderCloses(c)
    BY <1>0, <2>5 DEF HubTypeOK, ReaderCloses
  <2>6. CASE PeerGone(c)
    BY <1>0, <2>6 DEF HubTypeOK, PeerGone
  <2> QED BY <2>1, <2>2, <2>3, <2>4, <2>5, <2>6
<1>2. UNCHANGED <<clients, user, closed, panic>>
  BY DEF WriteMessage, WriteClose, PingFails, ReadFails, ReaderCloses, PeerGone
<1>3. ASSUME NEW d \in Clients, d # c
      PROVE  UNCHANGED <<conn[d], peer[d], writer[d], reader[d]>>
  BY <1>0, <1>3 DEF HubTypeOK, WriteMessage, WriteClose, PingFails, ReadFails, ReaderCloses, PeerGone
<1>4. /\ \/ conn'[c] = conn[c]
         \/ conn'[c] = "closed" /\ reader[c] = "closing"
      /\ peer'[c] = peer[c] \/ peer'[c] = "gone"
      /\ \/ writer'[c] = writer[c]
         \/ writer[c] = "run" /\ writer'[c] = "removing" /\ Broken(c)
      /\ \/ reader'[c] = reader[c]
         \/ reader[c] = "run" /\ reader'[c] = "removing" /\ Broken(c)
         \/ reader[c] = "closing" /\ reader'[c] = "done"
  <2>0. /\ conn \in [Clients -> {"none", "open", "closed"}]
        /\ peer \in [Clients -> {"up", "gone"}]
        /\ writer \in [Clients -> {"none", "run", "removing", "done"}]
        /\ reader \in [Clients -> {"none", "run", "removing", "closing", "done"}]
    BY <1>0 DEF HubTypeOK
  <2>1. CASE WriteMessage(c)
    <3>1. CASE writer' = writer
      BY <2>1, <3>1 DEF WriteMessage
    <3>2. CASE Broken(c) /\ writer' = [writer EXCEPT ![c] = "removing"]
      BY <2>0, <2>1, <3>2 DEF WriteMessage
    <3> QED BY <2>1, <3>1, <3>2 DEF WriteMessage
  <2>2. CASE WriteClose(c)
    <3>1. Broken(c)
      BY <1>0, <2>2 DEF PumpsHaveCause, Broken, WriteClose
    <3> QED BY <2>0, <2>2, <3>1 DEF WriteClose
  <2>3. CASE PingFails(c)
    BY <2>0, <2>3 DEF PingFails
  <2>4. CASE ReadFails(c)
    BY <2>0, <2>4 DEF ReadFails
  <2>5. CASE ReaderCloses(c)
    BY <2>0, <2>5 DEF ReaderCloses
  <2>6. CASE PeerGone(c)
    BY <2>0, <2>6 DEF PeerGone
  <2> QED BY <2>1, <2>2, <2>3, <2>4, <2>5, <2>6
<1>5. NoDoubleClose'
  BY <1>0, <1>2 DEF NoDoubleClose
<1>6. RegisteredIsServed'
  <2> SUFFICES ASSUME NEW w \in Users, NEW d \in Clients, clients[w] = d
               PROVE  /\ user[d] = w /\ d \notin closed
                      /\ conn'[d] = "open"
                      /\ writer'[d] \in {"run", "removing"}
                      /\ reader'[d] \in {"run", "removing"}
    BY <1>2 DEF RegisteredIsServed
  <2>1. /\ user[d] = w /\ d \notin closed /\ conn[d] = "open"
        /\ writer[d] \in {"run", "removing"} /\ reader[d] \in {"run", "removing"}
    BY <1>0 DEF RegisteredIsServed
  <2> QED BY <1>3, <1>4, <2>1
<1>7. PumpsHaveCause'
  <2> SUFFICES ASSUME NEW d \in Clients
               PROVE  /\ conn'[d] = "none" => writer'[d] = "none" /\ reader'[d] = "none"
                      /\ conn'[d] # "none" => user[d] \in Users
                      /\ d \in closed => conn'[d] = "closed"
                      /\ writer'[d] \in {"removing", "done"} => Broken(d)'
                      /\ reader'[d] \in {"removing", "closing", "done"} => Broken(d)'
    BY <1>2 DEF PumpsHaveCause
  <2>1. CASE d # c
    BY <1>0, <1>3, <2>1 DEF PumpsHaveCause, Broken
  <2>2. CASE d = c
    BY <1>0, <1>4, <2>2 DEF PumpsHaveCause, Broken
  <2> QED BY <2>1, <2>2
<1> QED BY <1>1, <1>5, <1>6, <1>7 DEF HubIInv

LEMMA HubInitIInv == HubInit => HubIInv
<1> SUFFICES ASSUME HubInit PROVE HubIInv
  OBVIOUS
<1>1. HubTypeOK
  <2>1. 0 \in 0..Cap
    BY CapAssumption
  <2> QED BY <2>1 DEF HubInit, HubTypeOK
<1>2. NoDoubleClose
  BY DEF HubInit, NoDoubleClose
<1>3. RegisteredIsServed
  BY NoClientAssumption, NoUserAssumption DEF HubInit, RegisteredIsServed
<1>4. PumpsHaveCause
  BY DEF HubInit, PumpsHaveCause, Broken
<1> QED BY <1>1, <1>2, <1>3, <1>4 DEF HubIInv

LEMMA HubNextIInv == HubIInv /\ [HubNext]_hubVars => HubIInv'
<1> SUFFICES ASSUME HubIInv, [HubNext]_hubVars PROVE HubIInv'
  OBVIOUS
<1>1. ASSUME NEW c \in Clients, NEW u \in Users, AddClient(c, u) PROVE HubIInv'
  BY <1>1, AddClientKeeps
<1>2. ASSUME NEW s \in Senders, NEW u \in Users, LookUp(s, u) PROVE HubIInv'
  <2>1. HubTypeOK' /\ panic' # "close of closed channel"
    BY <1>2 DEF HubIInv, HubTypeOK, NoDoubleClose, LookUp
  <2> QED BY <1>2, <2>1, QueuesKeep DEF LookUp
<1>3. ASSUME NEW s \in Senders, Enqueue(s) PROVE HubIInv'
  <2>1. target[s] \in Clients
    BY <1>3 DEF HubIInv, HubTypeOK, Enqueue
  <2>2. /\ queue' \in [Clients -> 0..Cap]
        /\ target' \in [Senders -> Clients \cup {NoClient}]
        /\ panic' \in {"none", "send on closed channel"}
    <3>1. queue \in [Clients -> 0..Cap] /\ target \in [Senders -> Clients \cup {NoClient}]
          /\ panic = "none"
      BY <1>3 DEF HubIInv, HubTypeOK, Enqueue, Alive
    <3>2. queue[target[s]] < Cap => queue[target[s]] + 1 \in 0..Cap
      BY <2>1, <3>1, CapAssumption
    <3> QED BY <1>3, <2>1, <3>1, <3>2 DEF Enqueue
  <2>3. HubTypeOK' /\ panic' # "close of closed channel"
    BY <1>3, <2>2 DEF HubIInv, HubTypeOK, Enqueue
  <2> QED BY <1>3, <2>3, QueuesKeep DEF Enqueue
<1>4. ASSUME NEW c \in Clients, Writer(c) PROVE HubIInv'
  BY <1>4, PumpsKeep, RemovalKeeps DEF Writer
<1>5. ASSUME NEW c \in Clients, Reader(c) PROVE HubIInv'
  BY <1>5, PumpsKeep, RemovalKeeps DEF Reader
<1>6. ASSUME NEW c \in Clients, PeerGone(c) PROVE HubIInv'
  BY <1>6, PumpsKeep
<1>7. CASE UNCHANGED hubVars
  BY <1>7 DEF hubVars, HubIInv, HubTypeOK, NoDoubleClose, RegisteredIsServed, PumpsHaveCause, Broken
<1> QED BY <1>1, <1>2, <1>3, <1>4, <1>5, <1>6, <1>7 DEF HubNext

-------------------------------------------------------------------------------
(* Every variable keeps its type, in particular no channel overflows.      *)
THEOREM HubTypeCorrect == HubSpec => []HubTypeOK
<1>1. HubIInv => HubTypeOK
  BY DEF HubIInv
<1> QED BY HubInitIInv, HubNextIInv, <1>1, PTL DEF HubSpec

(* RemoveClient never closes a channel twice, although both pumps of every *)
(* connection call it and a call may hit a newer connection.               *)
THEOREM NoDoubleCloseHolds == HubSpec => []NoDoubleClose
<1>1. HubIInv => NoDoubleClose
  BY DEF HubIInv
<1> QED BY HubInitIInv, HubNextIInv, <1>1, PTL DEF HubSpec

(* A client in the hub's map is served by both pumps.                      *)
THEOREM RegisteredIsServedHolds == HubSpec => []RegisteredIsServed
<1>1. HubIInv => RegisteredIsServed
  BY DEF HubIInv
<1> QED BY HubInitIInv, HubNextIInv, <1>1, PTL DEF HubSpec

(* A connection that still answers is evicted from the map only by another *)
(* connection of the same user.                                            *)
THEOREM EvictedOnlyByOwnConnectionsHolds == HubSpec => EvictedOnlyByOwnConnections
<1> DEFINE Evicted == \A u \in Users, c \in Clients :
          clients[u] = c /\ peer[c] = "up" /\ clients'[u] # c =>
              \E d \in Clients \ {c} :
                  /\ user'[d] = u
                  /\ clients'[u] = d \/ writer[d] = "removing" \/ reader[d] = "removing"
<1>1. HubIInv /\ [HubNext]_hubVars => [Evicted]_hubVars
  <2> SUFFICES ASSUME HubIInv, HubNext,
                      NEW u \in Users, NEW c \in Clients,
                      clients[u] = c, peer[c] = "up", clients'[u] # c
               PROVE  \E d \in Clients \ {c} :
                         /\ user'[d] = u
                         /\ clients'[u] = d \/ writer[d] = "removing" \/ reader[d] = "removing"
    OBVIOUS
  <2>1. user[c] = u /\ conn[c] = "open" /\ writer[c] # "removing" /\ reader[c] # "removing"
    BY NoClientAssumption, NoUserAssumption DEF HubIInv, RegisteredIsServed, PumpsHaveCause, Broken
  <2>2. ASSUME NEW d \in Clients, WriterEnds(d) \/ ReaderRemoves(d)
        PROVE  d # c /\ user'[d] = u /\ (writer[d] = "removing" \/ reader[d] = "removing")
    <3>1. d # c /\ user' = user /\ RemoveClient(user[d])
      BY <2>1, <2>2 DEF WriterEnds, ReaderRemoves
    <3>2. user[d] = u
      BY <3>1 DEF RemoveClient, HubIInv, HubTypeOK
    <3> QED BY <3>1, <3>2, <2>2 DEF WriterEnds, ReaderRemoves
  <2>3. ASSUME NEW d \in Clients, NEW w \in Users, AddClient(d, w)
        PROVE  d # c /\ user'[d] = u /\ clients'[u] = d
    <3>1. d # c
      BY <2>1, <2>3 DEF AddClient
    <3>2. w = u
      BY <2>3 DEF AddClient, HubIInv, HubTypeOK
    <3> QED BY <3>1, <3>2, <2>3 DEF AddClient, HubIInv, HubTypeOK
  <2>4. ASSUME NEW s \in Senders, NEW w \in Users PROVE ~LookUp(s, w) /\ ~Enqueue(s)
    BY DEF LookUp, Enqueue
  <2>5. ASSUME NEW d \in Clients
        PROVE  ~WriteMessage(d) /\ ~WriteClose(d) /\ ~PingFails(d) /\ ~ReadFails(d)
                  /\ ~ReaderCloses(d) /\ ~PeerGone(d)
    BY DEF WriteMessage, WriteClose, PingFails, ReadFails, ReaderCloses, PeerGone
  <2> QED BY <2>2, <2>3, <2>4, <2>5 DEF HubNext, Writer, Reader
<1> QED BY HubInitIInv, HubNextIInv, <1>1, PTL DEF HubSpec, EvictedOnlyByOwnConnections

-------------------------------------------------------------------------------
(* The chat rooms (module ChatRooms), for any users, any number of         *)
(* overlapping requests and any number of chats.  The theorems rest on the *)
(* inductive invariant RoomsIInv: besides the invariants themselves, that  *)
(* the id a transaction has inserted belongs to that transaction alone.    *)

(* What a request looks like after Answer and after Goto. *)
LEMMA AnswerFacts ==
    ASSUME RoomsTypeOK, NEW r \in Requests, req[r] \in Request,
           NEW res \in Results, NEW c \in {NoChat} \cup ChatIds, Answer(r, res, c)
    PROVE  /\ req' \in [Requests -> {Unused} \cup Request]
           /\ req'[r] \in Request
           /\ req'[r].step = "idle" /\ req'[r].res = res /\ req'[r].chat = c
           /\ req'[r].user = req[r].user /\ req'[r].other = req[r].other
           /\ \A s \in Requests : s # r => req'[s] = req[s]
<1>1. req \in [Requests -> {Unused} \cup Request]
  BY DEF RoomsTypeOK
<1>2. [req[r] EXCEPT !.step = "idle", !.res = res, !.chat = c] \in Request
  BY DEF Request, Steps
<1>3. req' = [req EXCEPT ![r] = [req[r] EXCEPT !.step = "idle", !.res = res, !.chat = c]]
  BY DEF Answer
<1> QED BY <1>1, <1>2, <1>3 DEF Request

LEMMA GotoFacts ==
    ASSUME RoomsTypeOK, NEW r \in Requests, req[r] \in Request, NEW step \in Steps,
           Goto(r, step)
    PROVE  /\ req' \in [Requests -> {Unused} \cup Request]
           /\ req'[r] \in Request
           /\ req'[r].step = step /\ req'[r].res = req[r].res /\ req'[r].chat = req[r].chat
           /\ req'[r].user = req[r].user /\ req'[r].other = req[r].other
           /\ \A s \in Requests : s # r => req'[s] = req[s]
<1>1. req \in [Requests -> {Unused} \cup Request]
  BY DEF RoomsTypeOK
<1>2. [req[r] EXCEPT !.step = step] \in Request
  BY DEF Request
<1>3. req' = [req EXCEPT ![r] = [req[r] EXCEPT !.step = step]]
  BY DEF Goto
<1> QED BY <1>1, <1>2, <1>3 DEF Request

(* A step that changes one request and no table keeps the invariant, as    *)
(* long as that request is not brought to its commit and, when it ends     *)
(* with a chat, that chat is one of its pair.                              *)
LEMMA RequestStepKeeps ==
    ASSUME RoomsIInv, NEW r \in Requests, UNCHANGED <<chats, members, nextChat>>,
           req' \in [Requests -> {Unused} \cup Request],
           req'[r] \in Request,
           \A s \in Requests : s # r => req'[s] = req[s],
           req'[r].step # "commit",
           req'[r].step \in {"find", "insert"} =>
               req'[r].other \in Accounts /\ req'[r].user # req'[r].other,
           req'[r].step = "idle" /\ req'[r].res = Ok =>
               req'[r].chat \in ChatsOf(req'[r].user, req'[r].other)
    PROVE  RoomsIInv'
<1>1. RoomsTypeOK'
  BY DEF RoomsIInv, RoomsTypeOK
<1>2. ChatsArePairs'
  BY DEF RoomsIInv, ChatsArePairs
<1>3. AnswerNamesTheirChat'
  BY DEF RoomsIInv, AnswerNamesTheirChat, ChatsOf
<1>4. TransactionsAreSound'
  BY DEF RoomsIInv, TransactionsAreSound
<1> QED BY <1>1, <1>2, <1>3, <1>4 DEF RoomsIInv

(* A request that is not idle is a record of the type Request. *)
LEMMA BusyIsRequest ==
    ASSUME RoomsIInv, NEW r \in Requests, req[r].step # "idle"
    PROVE  req[r] \in Request
BY DEF RoomsIInv, TransactionsAreSound

LEMMA GetOrCreateChatKeeps ==
    ASSUME RoomsIInv, NEW r \in Requests, NEW u \in Accounts, NEW v \in Users, GetOrCreateChatWithUser(r, u, v)
    PROVE  RoomsIInv'
<1> DEFINE q == [user |-> u, other |-> v, step |-> "exists", chat |-> NoChat, res |-> Ok]
<1>1. q \in Request /\ q.step = "exists"
  BY DEF Request, Steps, Results
<1>2. req' = [req EXCEPT ![r] = q] /\ UNCHANGED <<chats, members, nextChat>>
  BY DEF GetOrCreateChatWithUser
<1>3. req \in [Requests -> {Unused} \cup Request]
  BY DEF RoomsIInv, RoomsTypeOK
<1> HIDE DEF q
<1>4. /\ req' \in [Requests -> {Unused} \cup Request]
      /\ req'[r] = q
      /\ \A s \in Requests : s # r => req'[s] = req[s]
  BY <1>1, <1>2, <1>3
<1> QED BY <1>1, <1>2, <1>4, RequestStepKeeps

LEMMA CheckUserExistsKeeps ==
    ASSUME RoomsIInv, NEW r \in Requests, CheckUserExists(r)
    PROVE  RoomsIInv'
<1>1. RoomsTypeOK /\ req[r] \in Request /\ UNCHANGED <<chats, members, nextChat>>
  BY BusyIsRequest DEF CheckUserExists, RoomsIInv
<1>2. ASSUME NEW res \in {"ErrNotExist", "ErrInvalidInput"}, Answer(r, res, NoChat)
      PROVE  RoomsIInv'
  <2>1. res \in Results /\ res # Ok /\ NoChat \in {NoChat} \cup ChatIds
    BY DEF Results, Ok
  <2> QED BY <1>1, <1>2, <2>1, AnswerFacts, RequestStepKeeps
<1>3. ASSUME req[r].other \in Accounts, req[r].user # req[r].other, Goto(r, "find")
      PROVE  RoomsIInv'
  <2>1. "find" \in Steps
    BY DEF Steps
  <2> QED BY <1>1, <1>3, <2>1, GotoFacts, RequestStepKeeps
<1> QED BY <1>2, <1>3 DEF CheckUserExists

LEMMA FindChatKeeps ==
    ASSUME RoomsIInv, NEW r \in Requests, FindChat(r)
    PROVE  RoomsIInv'
<1>1. RoomsTypeOK /\ req[r] \in Request /\ UNCHANGED <<chats, members, nextChat>>
  BY BusyIsRequest DEF FindChat, RoomsIInv
<1>2. req[r].other \in Accounts /\ req[r].user # req[r].other
  BY DEF FindChat, RoomsIInv, TransactionsAreSound
<1>3. CASE Goto(r, "insert")
  <2>1. "insert" \in Steps
    BY DEF Steps
  <2> QED BY <1>1, <1>2, <1>3, <2>1, GotoFacts, RequestStepKeeps
<1>4. ASSUME NEW c \in ChatsOf(req[r].user, req[r].other), Answer(r, Ok, c)
      PROVE  RoomsIInv'
  <2>1. Ok \in Results /\ c \in {NoChat} \cup ChatIds
    BY <1>1 DEF Results, ChatsOf, RoomsTypeOK
  <2>2. /\ req' \in [Requests -> {Unused} \cup Request]
        /\ req'[r] \in Request
        /\ req'[r].step = "idle" /\ req'[r].res = Ok /\ req'[r].chat = c
        /\ req'[r].user = req[r].user /\ req'[r].other = req[r].other
        /\ \A s \in Requests : s # r => req'[s] = req[s]
    BY <1>1, <1>4, <2>1, AnswerFacts
  <2> QED BY <1>1, <2>2, RequestStepKeeps
<1> QED BY <1>3, <1>4 DEF FindChat

LEMMA ChatFailKeeps ==
    ASSUME RoomsIInv, NEW r \in Requests, Fail(r)
    PROVE  RoomsIInv'
<1>1. RoomsTypeOK /\ req[r] \in Request /\ UNCHANGED <<chats, members, nextChat>>
  BY BusyIsRequest DEF Fail, RoomsIInv
<1>2. "ErrDB" \in Results /\ "ErrDB" # Ok /\ NoChat \in {NoChat} \cup ChatIds
  BY DEF Results, Ok
<1>3. Answer(r, "ErrDB", NoChat)
  BY DEF Fail
<1> QED BY <1>1, <1>2, <1>3, AnswerFacts, RequestStepKeeps

(* The id that is inserted is larger than all ids in use. *)
LEMMA InsertChatKeeps ==
    ASSUME RoomsIInv, NEW r \in Requests, InsertChat(r)
    PROVE  RoomsIInv'
<1> DEFINE q == [req[r] EXCEPT !.step = "commit", !.chat = nextChat]
<1>1. req[r] \in Request /\ req \in [Requests -> {Unused} \cup Request]
  BY BusyIsRequest DEF InsertChat, RoomsIInv, RoomsTypeOK
<1>2. nextChat \in ChatIds /\ nextChat' = nextChat + 1 /\ UNCHANGED <<chats, members>>
  BY DEF InsertChat
<1>3. /\ q \in Request /\ q.step = "commit" /\ q.chat = nextChat
      /\ q.user = req[r].user /\ q.other = req[r].other
  BY <1>1, <1>2 DEF Request, Steps
<1>4. req' = [req EXCEPT ![r] = q]
  BY DEF InsertChat
<1> HIDE DEF q
<1>5. /\ req' \in [Requests -> {Unused} \cup Request]
      /\ req'[r] = q
      /\ \A s \in Requests : s # r => req'[s] = req[s]
  BY <1>1, <1>3, <1>4
<1>6. RoomsTypeOK'
  BY <1>2, <1>5, MaxChatsAssumption DEF RoomsIInv, RoomsTypeOK, ChatIds
<1>7. ChatsArePairs'
  BY <1>2 DEF RoomsIInv, ChatsArePairs
<1>8. AnswerNamesTheirChat'
  BY <1>2, <1>3, <1>5 DEF RoomsIInv, AnswerNamesTheirChat, ChatsOf
<1>9. TransactionsAreSound'
  <2>1. nextChat \in Nat /\ \A c \in chats : c \in Nat /\ c < nextChat
    BY <1>2, MaxChatsAssumption DEF RoomsIInv, TransactionsAreSound, RoomsTypeOK, ChatIds
  <2>2. \A s \in Requests : req[s].step = "commit" => req[s].chat \in Nat /\ req[s].chat < nextChat
    BY MaxChatsAssumption DEF RoomsIInv, TransactionsAreSound, ChatIds
  <2>3. req[r].other \in Accounts /\ req[r].user # req[r].other
    BY DEF InsertChat, RoomsIInv, TransactionsAreSound
  <2> QED BY <1>2, <1>3, <1>5, <2>1, <2>2, <2>3 DEF RoomsIInv, TransactionsAreSound
<1> QED BY <1>6, <1>7, <1>8, <1>9 DEF RoomsIInv

(* The chat that is committed gets its two members, and no other chat      *)
(* changes.                                                                *)
LEMMA CommitFacts ==
    ASSUME RoomsIInv, NEW r \in Requests, CommitChat(r)
    PROVE  LET c == req[r].chat
               u == req[r].user
               v == req[r].other
           IN  /\ req[r] \in Request
               /\ c \in ChatIds /\ c \notin chats /\ c < nextChat
               /\ u \in Accounts /\ v \in Accounts /\ u # v
               /\ chats' = chats \cup {c}
               /\ \A w : <<c, w>> \in members' <=> w \in {u, v}
               /\ \A d, w : d # c => (<<d, w>> \in members' <=> <<d, w>> \in members)
<1>1. req[r] \in Request
  BY BusyIsRequest DEF CommitChat
<1>2. /\ req[r].chat \in ChatIds /\ req[r].chat \notin chats /\ req[r].chat < nextChat
      /\ req[r].other \in Accounts /\ req[r].user # req[r].other
  BY DEF CommitChat, RoomsIInv, TransactionsAreSound
<1>3. \A w : <<req[r].chat, w>> \notin members
  BY <1>2 DEF RoomsIInv, ChatsArePairs
<1> QED BY <1>1, <1>2, <1>3 DEF CommitChat, Request

LEMMA CommitChatKeeps ==
    ASSUME RoomsIInv, NEW r \in Requests, CommitChat(r)
    PROVE  RoomsIInv'
<1> DEFINE c == req[r].chat
           u == req[r].user
           v == req[r].other
<1>1. /\ req[r] \in Request
      /\ c \in ChatIds /\ c \notin chats /\ c < nextChat
      /\ u \in Accounts /\ v \in Accounts /\ u # v
      /\ chats' = chats \cup {c}
      /\ \A w : <<c, w>> \in members' <=> w \in {u, v}
      /\ \A d, w : d # c => (<<d, w>> \in members' <=> <<d, w>> \in members)
  BY CommitFacts
<1>2. nextChat' = nextChat /\ members' = members \cup {<<c, u>>, <<c, v>>}
  BY DEF CommitChat
<1>3. \E res \in Results, d \in {NoChat, c} :
         Answer(r, res, d) /\ (res = Ok => d = c)
  BY DEF CommitChat, Results, Ok
<1> HIDE DEF c, u, v
<1>4. PICK res \in Results, d \in {NoChat, c} : Answer(r, res, d) /\ (res = Ok => d = c)
  BY <1>3
<1>5. /\ req' \in [Requests -> {Unused} \cup Request]
      /\ req'[r] \in Request
      /\ req'[r].step = "idle" /\ req'[r].res = res /\ req'[r].chat = d
      /\ req'[r].user = u /\ req'[r].other = v
      /\ \A s \in Requests : s # r => req'[s] = req[s]
  <2>1. RoomsTypeOK /\ d \in {NoChat} \cup ChatIds
    BY <1>1 DEF RoomsIInv
  <2> QED BY <1>1, <1>4, <2>1, AnswerFacts DEF u, v
<1>6. RoomsTypeOK'
  BY <1>1, <1>2, <1>5 DEF RoomsIInv, RoomsTypeOK
<1>7. ChatsArePairs'
  <2>1. ASSUME NEW e \in chats'
        PROVE  \E x, y \in Accounts : x # y /\ {w \in Accounts : <<e, w>> \in members'} = {x, y}
    <3>1. CASE e = c
      BY <1>1, <3>1
    <3>2. CASE e # c
      <4>1. {w \in Accounts : <<e, w>> \in members'} = {w \in Accounts : <<e, w>> \in members}
        BY <1>1, <3>2
      <4> QED BY <1>1, <2>1, <3>2, <4>1 DEF RoomsIInv, ChatsArePairs
    <3> QED BY <3>1, <3>2
  <2>2. \A m \in members' : m[1] \in chats'
    BY <1>1, <1>2 DEF RoomsIInv, ChatsArePairs
  <2> QED BY <2>1, <2>2 DEF ChatsArePairs
<1>8. AnswerNamesTheirChat'
  <2> SUFFICES ASSUME NEW s \in Requests,
                      req'[s] # Unused, req'[s].step = "idle", req'[s].res = Ok
               PROVE  /\ req'[s].chat \in chats'
                      /\ <<req'[s].chat, req'[s].user>> \in members'
                      /\ <<req'[s].chat, req'[s].other>> \in members'
    BY DEF AnswerNamesTheirChat, ChatsOf
  <2>1. CASE s = r
    BY <1>1, <1>2, <1>4, <1>5, <2>1
  <2>2. CASE s # r
    BY <1>1, <1>2, <1>5, <2>2 DEF RoomsIInv, AnswerNamesTheirChat, ChatsOf
  <2> QED BY <2>1, <2>2
<1>9. TransactionsAreSound'
  <2>1. \A s \in Requests : s # r /\ req[s].step = "commit" => req[s].chat # c
    BY DEF RoomsIInv, TransactionsAreSound, CommitChat, c
  <2> QED BY <1>1, <1>2, <1>5, <2>1 DEF RoomsIInv, TransactionsAreSound
<1> QED BY <1>6, <1>7, <1>8, <1>9 DEF RoomsIInv

LEMMA RoomsInitIInv == RoomsInit => RoomsIInv
BY MaxChatsAssumption DEF RoomsInit, RoomsIInv, RoomsTypeOK, ChatsArePairs, AnswerNamesTheirChat,
                          TransactionsAreSound, Unused

LEMMA RoomsNextIInv == RoomsIInv /\ [RoomsNext]_roomsVars => RoomsIInv'
<1> SUFFICES ASSUME RoomsIInv, [RoomsNext]_roomsVars PROVE RoomsIInv'
  OBVIOUS
<1>1. CASE UNCHANGED roomsVars
  BY <1>1 DEF roomsVars, RoomsIInv, RoomsTypeOK, ChatsArePairs, AnswerNamesTheirChat, ChatsOf, TransactionsAreSound
<1>2. CASE RoomsNext
  BY <1>2, GetOrCreateChatKeeps, CheckUserExistsKeeps, FindChatKeeps, InsertChatKeeps,
     CommitChatKeeps, ChatFailKeeps DEF RoomsNext, Step
<1> QED BY <1>1, <1>2

-------------------------------------------------------------------------------
(* Every variable keeps its type. *)
THEOREM RoomsTypeCorrect == RoomsSpec => []RoomsTypeOK
<1>1. RoomsIInv => RoomsTypeOK
  BY DEF RoomsIInv
<1> QED BY RoomsInitIInv, RoomsNextIInv, <1>1, PTL DEF RoomsSpec

(* Committed chats always have exactly two members. *)
THEOREM ChatsArePairsHolds == RoomsSpec => []ChatsArePairs
<1>1. RoomsIInv => ChatsArePairs
  BY DEF RoomsIInv
<1> QED BY RoomsInitIInv, RoomsNextIInv, <1>1, PTL DEF RoomsSpec

(* GetOrCreateChatWithUser answers with a chat of the two users. *)
THEOREM AnswerNamesTheirChatHolds == RoomsSpec => []AnswerNamesTheirChat
<1>1. RoomsIInv => AnswerNamesTheirChat
  BY DEF RoomsIInv
<1> QED BY RoomsInitIInv, RoomsNextIInv, <1>1, PTL DEF RoomsSpec

(* One step of one request neither unsettles a settled pair nor changes    *)
(* its chats.                                                              *)
LEMMA SettledStep ==
    ASSUME RoomsIInv, NEW r \in Requests, NEW u \in Accounts, NEW v \in Accounts,
           u # v, Settled(u, v),
           \/ \E x \in Accounts, y \in Users : GetOrCreateChatWithUser(r, x, y)
           \/ Step(r)
           \/ Fail(r)
    PROVE  Settled(u, v)' /\ ChatsOf(u, v)' = ChatsOf(u, v)
<1>0. req \in [Requests -> {Unused} \cup Request] /\ RoomsTypeOK
  BY DEF RoomsIInv, RoomsTypeOK
(* It suffices that r is not about to add a chat for the pair afterwards. *)
<1>1. ASSUME ChatsOf(u, v)' = ChatsOf(u, v),
             \A s \in Requests : s # r => req'[s] = req[s],
             req'[r].step \in {"insert", "commit"} =>
                 {req'[r].user, req'[r].other} # {u, v}
      PROVE  Settled(u, v)' /\ ChatsOf(u, v)' = ChatsOf(u, v)
  BY <1>1 DEF Settled, About
<1>2. ASSUME UNCHANGED <<chats, members>> PROVE ChatsOf(u, v)' = ChatsOf(u, v)
  BY <1>2 DEF ChatsOf
<1>3. ASSUME NEW res, NEW d, Answer(r, res, d), req[r] \in Request
      PROVE  /\ \A s \in Requests : s # r => req'[s] = req[s]
             /\ req'[r].step = "idle"
  BY <1>0, <1>3 DEF Answer, Request
<1>4. ASSUME NEW x \in Accounts, NEW y \in Users, GetOrCreateChatWithUser(r, x, y)
      PROVE  Settled(u, v)' /\ ChatsOf(u, v)' = ChatsOf(u, v)
  BY <1>0, <1>1, <1>2, <1>4 DEF GetOrCreateChatWithUser
<1>5. CASE CheckUserExists(r)
  <2>1. req[r] \in Request /\ UNCHANGED <<chats, members>>
    BY <1>5, BusyIsRequest DEF CheckUserExists
  <2>2. CASE Goto(r, "find")
    BY <1>0, <1>1, <1>2, <2>1, <2>2 DEF Goto, Request
  <2> QED BY <1>1, <1>2, <1>3, <1>5, <2>1, <2>2 DEF CheckUserExists
<1>6. CASE FindChat(r)
  <2>1. req[r] \in Request /\ UNCHANGED <<chats, members>>
    BY <1>6, BusyIsRequest DEF FindChat
  <2>2. CASE ChatsOf(req[r].user, req[r].other) = {} /\ Goto(r, "insert")
    <3>1. {req[r].user, req[r].other} # {u, v}
      <4> SUFFICES ASSUME {req[r].user, req[r].other} = {u, v} PROVE FALSE
        OBVIOUS
      <4>1. \/ req[r].user = u /\ req[r].other = v
            \/ req[r].user = v /\ req[r].other = u
        OBVIOUS
      <4>2. ChatsOf(v, u) = ChatsOf(u, v)
        BY DEF ChatsOf
      <4> QED BY <2>2, <4>1, <4>2 DEF Settled
    <3>2. "insert" \in Steps
      BY DEF Steps
    <3> QED BY <1>0, <1>1, <1>2, <2>1, <2>2, <3>1, <3>2, GotoFacts
  <2> QED BY <1>1, <1>2, <1>3, <1>6, <2>1, <2>2 DEF FindChat
<1>7. CASE InsertChat(r)
  <2>1. req[r] \in Request /\ UNCHANGED <<chats, members>> /\ req[r].step = "insert"
    BY <1>7, BusyIsRequest DEF InsertChat
  <2>2. /\ \A s \in Requests : s # r => req'[s] = req[s]
        /\ req'[r].user = req[r].user /\ req'[r].other = req[r].other
    BY <1>0, <1>7, <2>1 DEF InsertChat, Request
  <2>3. {req[r].user, req[r].other} # {u, v}
    BY <2>1 DEF Settled, About
  <2> QED BY <1>1, <1>2, <2>1, <2>2, <2>3
<1>8. CASE CommitChat(r)
  <2> DEFINE c == req[r].chat
  <2>1. /\ req[r] \in Request /\ c \notin chats
        /\ chats' = chats \cup {c}
        /\ \A w : <<c, w>> \in members' <=> w \in {req[r].user, req[r].other}
        /\ \A d, w : d # c => (<<d, w>> \in members' <=> <<d, w>> \in members)
    BY <1>8, CommitFacts
  <2>2. {req[r].user, req[r].other} # {u, v}
    BY <1>8 DEF CommitChat, Settled, About
  <2> HIDE DEF c
  <2>3. ~(<<c, u>> \in members' /\ <<c, v>> \in members')
    BY <2>1, <2>2
  <2>4. ChatsOf(u, v)' = ChatsOf(u, v)
    BY <2>1, <2>3 DEF ChatsOf
  <2> QED BY <1>1, <1>3, <1>8, <2>1, <2>4 DEF CommitChat
<1>9. CASE Fail(r)
  <2>1. req[r] \in Request /\ UNCHANGED <<chats, members>>
    BY <1>9, BusyIsRequest DEF Fail
  <2> QED BY <1>1, <1>2, <1>3, <1>9, <2>1 DEF Fail
<1> QED BY <1>4, <1>5, <1>6, <1>7, <1>8, <1>9 DEF Step

(* Once a pair has a chat and no transaction that searched before is left, *)
(* GetOrCreateChatWithUser never adds another chat for the pair.           *)
THEOREM SettledForGoodHolds == RoomsSpec => SettledForGood
<1> DEFINE Stays == \A u, v \in Accounts :
          u # v /\ Settled(u, v) => Settled(u, v)' /\ ChatsOf(u, v)' = ChatsOf(u, v)
<1>1. RoomsIInv /\ [RoomsNext]_roomsVars => [Stays]_roomsVars
  BY SettledStep DEF RoomsNext
<1> QED BY RoomsInitIInv, RoomsNextIInv, <1>1, PTL DEF RoomsSpec, SettledForGood

===============================================================================
