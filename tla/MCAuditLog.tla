----------------------------- MODULE MCAuditLog -----------------------------
(***************************************************************************)
(* Instances of AuditLog: session w1 in the main loop of `gekko serve`, w2 *)
(* in its fill stream's, and w3 in a command that is its own process.      *)
(***************************************************************************)
EXTENDS AuditLog

CONSTANTS w1, w2, w3, serve, command, main, stream, other

HomeOf == [w \in Writers |-> IF w = w3 THEN command ELSE serve]
OneLoop == [w \in Writers |-> IF w = w3 THEN other ELSE main]
WithFillStream == [w \in Writers |-> CASE w = w1 -> main
                                       [] w = w2 -> stream
                                       [] w = w3 -> other]
=============================================================================
