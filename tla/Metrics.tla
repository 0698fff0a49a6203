------------------------------- MODULE Metrics --------------------------------
(***************************************************************************)
(* The metrics that each process keeps of the requests it answers          *)
(* (metrics/metricsHTTP.go in the gateway, metrics/metricsGRPC.go in the   *)
(* services).  They are kept in memory.  Durations are left out, and so    *)
(* are the paths and methods the counters are also labelled with.          *)
(***************************************************************************)
EXTENDS Errors, Integers

(* HTTP codes. *)
getStatusClass(code) ==
    CASE code \in 200..299 -> "2xx"
      [] code \in 300..399 -> "3xx"
      [] code \in 400..499 -> "4xx"
      [] code >= 500       -> "5xx"
      [] OTHER             -> "unknown"

getErrorType(code) ==
    CASE code = 400        -> "bad_request"
      [] code = 401        -> "unauthorized"
      [] code = 403        -> "forbidden"
      [] code = 404        -> "not_found"
      [] code = 408        -> "timeout"
      [] code = 409        -> "conflict"
      [] code = 422        -> "validation_error"
      [] code = 429        -> "rate_limit"
      [] code \in 500..599 -> "server_error"
      [] OTHER             -> "client_error"

(* gRPC statuses, as far as ToGrpcError and the runtime produce them. *)
grpcCodeToStatusClass(status) ==
    CASE status = "OK" -> "2xx"
      [] status \in {"InvalidArgument", "NotFound", "AlreadyExists", "PermissionDenied"} -> "4xx"
      [] status \in {"Unknown", "Internal: database error", "Internal: service error",
                     "Unavailable"} -> "5xx"
      [] OTHER -> "unknown"

grpcCodeToErrorType(status) ==
    CASE status = "Unknown"          -> "unknown"
      [] status = "InvalidArgument"  -> "invalid_argument"
      [] status = "NotFound"         -> "not_found"
      [] status = "AlreadyExists"    -> "already_exists"
      [] status = "PermissionDenied" -> "permission_denied"
      [] status = "Unavailable"      -> "unavailable"
      [] status \in {"Internal: database error", "Internal: service error"} -> "internal"
      [] OTHER                       -> "unknown_error"

Classes == {"2xx", "3xx", "4xx", "5xx", "unknown"}
ErrorTypes ==
    {"bad_request", "unauthorized", "forbidden", "not_found", "timeout", "conflict",
     "validation_error", "rate_limit", "server_error", "client_error", "unknown", "invalid_argument", "already_exists", "permission_denied",
     "unavailable", "internal", "unknown_error"}

(* RPCRequestsInFlight, RPCRequestsTotal and the counter of errors. *)
MetricType == [inFlight : Int, total : [Classes -> Nat], errors : [ErrorTypes -> Nat]]

Zero == [inFlight |-> 0, total |-> [k \in Classes |-> 0], errors |-> [t \in ErrorTypes |-> 0]]

NewHTTPMetrics == Zero
NewGRPCMetrics == Zero

(* The first lines of the middleware and of the interceptor. *)
Entered(m) == [m EXCEPT !.inFlight = @ + 1]

(* Mutation: the code 400 is no error. *)
recordHTTPOff(m, code) ==
    LET counted == [m EXCEPT !.total[getStatusClass(code)] = @ + 1]
    IN  IF code > 400 THEN [counted EXCEPT !.errors[getErrorType(code)] = @ + 1] ELSE counted

(* recordAllMetrics of the gateway, and of a service. *)
recordHTTP(m, code) ==
    LET counted == [m EXCEPT !.total[getStatusClass(code)] = @ + 1]
    IN  IF code >= 400 THEN [counted EXCEPT !.errors[getErrorType(code)] = @ + 1] ELSE counted

recordGRPC(m, status) ==
    LET counted == [m EXCEPT !.total[grpcCodeToStatusClass(status)] = @ + 1]
    IN  IF status # "OK" THEN [counted EXCEPT !.errors[grpcCodeToErrorType(status)] = @ + 1]
        ELSE counted

(* What the middleware of the gateway does when the handler returns.  If   *)
(* it panics, nothing of this is done.                                     *)
HTTPMiddleware(m, code) == recordHTTP([m EXCEPT !.inFlight = @ - 1], code)

(* Mutation: a failed call does not count as finished. *)
UnaryServerInterceptorOk(m, status) ==
    recordGRPC(IF status = "OK" THEN [m EXCEPT !.inFlight = @ - 1] ELSE m, status)

(* The same for the interceptor of a service. *)
UnaryServerInterceptor(m, status) == recordGRPC([m EXCEPT !.inFlight = @ - 1], status)

===============================================================================
