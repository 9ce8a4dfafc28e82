------------------------------ MODULE MCProcess ------------------------------
(* A small process: two requests, two subscribers, one connection.          *)
EXTENDS ApiProcess, TLC

CONSTANTS q1, q2

MCAsked == q1 :> {"create", "accept", "health"} @@ q2 :> {"end", "token"}
==============================================================================
