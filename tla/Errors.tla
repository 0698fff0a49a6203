-------------------------------- MODULE Errors --------------------------------
(***************************************************************************)
(* Domain errors (domain/errors.go) and what becomes of them on their way  *)
(* to the client.  A service behind gRPC (auth, profile, friend) returns a *)
(* domain error, its wrapper turns it into a gRPC status, the gateway      *)
(* turns the status back into a domain error and then into an HTTP code.   *)
(* Messages are left out, except the one FromGrpcError looks at.           *)
(***************************************************************************)
EXTENDS Naturals

Ok == "ok"

(* The gRPC status of a domain error: its code, and for Internal whether   *)
(* the message says "database error".                                      *)
ToGrpcError(err) ==
    CASE err \in {"ErrNotFound", "ErrNotExist"} -> "NotFound"
      [] err = "ErrAccessDenied"                -> "PermissionDenied"
      [] err = "ErrInvalidInput"                -> "InvalidArgument"
      [] err = "ErrAlreadyExists"               -> "AlreadyExists"
      [] err = "ErrDB"                          -> "Internal: database error"
      [] err = "ErrService"                     -> "Internal: service error"
      [] OTHER                                  -> "Unknown"

(* The domain error the gateway makes of a gRPC status; everything it does *)
(* not know is ErrService.                                                 *)
FromGrpcError(status) ==
    CASE status = "NotFound"                                  -> "ErrNotFound"
      [] status \in {"PermissionDenied", "Unauthenticated"}   -> "ErrAccessDenied"
      [] status \in {"InvalidArgument", "FailedPrecondition"} -> "ErrInvalidInput"
      [] status = "AlreadyExists"                             -> "ErrAlreadyExists"
      [] status = "Internal: database error"                  -> "ErrDB"
      [] OTHER                                                -> "ErrService"

(* The HTTP code a handler answers with. *)
MapErrorToHTTP(err) ==
    CASE err \in {"ErrNotFound", "ErrPostNotFound"}                  -> 404
      [] err = "ErrAccessDenied"                                     -> 403
      [] err \in {"ErrInvalidInput", "ErrNotExist", "ErrInvalidParams"} -> 400
      [] err = "ErrAlreadyExists"                                    -> 409
      [] OTHER                                                       -> 500

(* The code of a gateway handler that calls a gRPC service and converts    *)
(* the status it gets back.                                                *)
GatewayCode(err) ==
    IF err = Ok THEN 200 ELSE MapErrorToHTTP(FromGrpcError(ToGrpcError(err)))

===============================================================================
