---------------------------- MODULE AdminRefresh ---------------------------
(***************************************************************************)
(* The token endpoints of examples/admin over the refresh tokens of        *)
(* irmik/auth: handleAPIToken, handleAPIRefresh, handleAPIRevoke.  The     *)
(* refresh handler does not know whose token it was given: it calls        *)
(* Refresh for one user after the other, in any order, until one succeeds. *)
(***************************************************************************)
EXTENDS RefreshTokens

VARIABLE left       \* the users a refresh request has not been tried for

adminVars == <<vars, left>>

AdminInit == Init /\ left = [c \in Calls |-> {}]

ApiToken(c, u) == left[c] = {} /\ Login(c, u) /\ UNCHANGED left

ApiRevoke(u) == RevokeUser(u) /\ UNCHANGED left

\* The first user of the loop.
ApiRefresh(c, i) ==
    /\ left[c] = {}
    /\ \E u \in Users : Refresh(c, i, u) /\ left' = [left EXCEPT ![c] = Users \ {u}]

\* The last attempt has failed.
NextUser(c) ==
    \E u \in left[c] :
        /\ Refresh(c, old[c], u)
        /\ left' = [left EXCEPT ![c] = @ \ {u}]

\* The claims have expired since: no user is left to try.
GivesUp(c) ==
    /\ pc[c] = "idle" /\ left[c] # {} /\ now >= jwt[old[c]].exp
    /\ left' = [left EXCEPT ![c] = {}]
    /\ UNCHANGED vars

\* A step of the current attempt; the pair is the answer.
Attempt(c) ==
    /\ Call(c)
    /\ left' = IF Put(c) THEN [left EXCEPT ![c] = {}] ELSE left

AdminNext ==
    \/ (Tick \/ Restart) /\ left' = IF restarts' # restarts THEN [c \in Calls |-> {}] ELSE left
    \/ \E u \in Users : ApiRevoke(u)
    \/ \E c \in Calls :
          \/ Attempt(c) \/ NextUser(c) \/ GivesUp(c)
          \/ \E u \in Users : ApiToken(c, u)
          \/ \E i \in Ids : ApiRefresh(c, i)

AdminSpec == AdminInit /\ [][AdminNext]_adminVars

-----------------------------------------------------------------------------
(* "Refresh rotates a refresh token" (jwt.go:114): a call that has taken   *)
(* a token out of the store gives its client another one, unless the user  *)
(* has been revoked in between or issuing fails.                           *)
RefreshRotates == [][\A c \in Calls : CheckFails(c) => IsRevoked(UserOf(old[c]))]_adminVars

=============================================================================
