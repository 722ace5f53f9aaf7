-------------------------- MODULE SessionRegister --------------------------
(***************************************************************************)
(* What irmik/session and the helpers over it (irmik/auth, irmik/csrf)     *)
(* promise a browser that sends one request at a time: its values behave   *)
(* like one register, written by handlers and carried from each request    *)
(* to the next, whatever ids the session goes by underneath.               *)
(***************************************************************************)
CONSTANTS Users, Tokens, None

VARIABLES user, token

vars == <<user, token>>

Init == user = None /\ token = None

Login(u) == user' = u /\ UNCHANGED token

EnsureToken(t) == token = None /\ token' = t /\ UNCHANGED user

(* Clear, a logout, or a session that was idle for too long.               *)
Forget == user' = None /\ token' = None

Next ==
    \/ \E u \in Users : Login(u)
    \/ \E t \in Tokens : EnsureToken(t)
    \/ Forget

Spec == Init /\ [][Next]_vars

=============================================================================
