------------------------------ MODULE HttpLayer ------------------------------
(***************************************************************************)
(* What surrounds every handler: settings, tokens and roles, the middleware *)
(* stack and the error responses (app/core/, app/main.py).  No state.      *)
(***************************************************************************)
EXTENDS Naturals, Sequences

(* Settings. *)
AppEnv == {"local", "development", "staging", "production"}

TokenIssuance(env) == env \in {"local", "development"}

------------------------------------------------------------------------------
(* What a client sends to prove who it is.  decode_bearer_optional gives    *)
(* claims for a token that was signed with the secret, has exp, sub and     *)
(* role, and has not expired; nothing else is asked of it.                  *)
Credentials == {"missing", "undecodable", "rider", "driver", "other_driver"}

Claims(cred) == cred \notin {"missing", "undecodable"}
RoleOf(cred) == IF cred = "other_driver" THEN "driver" ELSE cred

Kinds == {"create", "accept", "reject", "start", "end", "decline", "health", "token"}

(* require_rider, require_driver with the driver of the path, require_auth, *)
(* and the environments without token issuance: the status of the refusal.  *)
Denied(kind, cred, env) ==
  CASE kind \notin {"health", "token"} /\ ~Claims(cred) -> 401
    [] kind = "create" /\ Claims(cred) /\ RoleOf(cred) # "rider" -> 403
    [] kind \in {"accept", "reject"} /\ Claims(cred) /\ cred # "driver" -> 403
    [] kind = "token" /\ ~TokenIssuance(env) -> 404
    [] OTHER -> 0

------------------------------------------------------------------------------
(* Seeded fault: the request-id layer is never added. *)
AddedBare == << "access_log", "rate_prep", "idempotency", "cors", "slowapi" >>

(* add_middleware puts each layer around those added before it. *)
Added == << "access_log", "rate_prep", "idempotency", "request_id", "cors", "slowapi" >>

(* Outermost first; the router comes last. *)
Stack == [i \in DOMAIN Added |-> Added[Len(Added) + 1 - i]]

(* What answers: the router with the exception handlers around it, or a     *)
(* layer itself (slowapi a 429, CORS a preflight); an exception that a      *)
(* handler or slowapi's call of its storage raises is answered with a 500   *)
(* outside of the whole stack.                                             *)
Answers == {"router", "slowapi", "cors", "server_error", "limiter_error"}
Unhandled == {"server_error", "limiter_error"}

(* How far in the request had come. *)
Origin(from) == CASE from \in {"router", "server_error"}   -> "router"
                  [] from \in {"slowapi", "limiter_error"} -> "slowapi"
                  [] from = "cors"                         -> "cors"

Depth(place) == IF place = "router" THEN Len(Stack) + 1
                                    ELSE CHOOSE i \in DOMAIN Stack : Stack[i] = place

(* Layers the request has gone through, and those its response passes.      *)
Entered(from) == {Stack[i] : i \in {i \in DOMAIN Stack : i < Depth(Origin(from))}}
Passed(from)  == IF from \in Unhandled THEN {} ELSE Entered(from)

(* X-Request-ID is set on the way out; error_envelope takes the identifier  *)
(* from request.state, where the layer has put it on the way in.            *)
HasHeader(from) == "request_id" \in Passed(from)
HasEnvelopeId(from) == from \in Unhandled /\ "request_id" \in Entered(from)
==============================================================================
