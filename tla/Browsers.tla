------------------------------ MODULE Browsers -----------------------------
(***************************************************************************)
(* Sessions seen from browsers: several that send requests at a time to a  *)
(* store that may fail, or a lone one that waits for each response.  A     *)
(* behaviour has one of the two.                                           *)
(***************************************************************************)
EXTENDS Session

CONSTANTS
    LoneRequest,                    \* the requests of the lone browser, one by one
    LoneIds, LoneTokens, LoneMsgs, LoneOps

(* No handler the lone browser meets panics, which unwinds past the save,  *)
(* or begins the body before the cookie is set (the run session_cookie).   *)
ASSUME BrowsersAssumption ==
    /\ LoneRequest \in Requests
    /\ None \notin LoneIds \cup LoneTokens /\ "clear" \notin LoneIds
    /\ LoneOps \subseteq {"login", "destroy", "clear", "save", "token", "flash", "expire"}

VARIABLE crowd      \* "many" or "lone"

Lone == INSTANCE Session WITH
    Ids <- LoneIds, Tokens <- LoneTokens, Msgs <- LoneMsgs, Ops <- LoneOps, MaxFailures <- 0

(* An entry of the store can be told from none.                            *)
ASSUME EntryAssumption == None \notin Lone!Entries

BrowsersInit == (crowd = "many" /\ Init) \/ (crowd = "lone" /\ Lone!Init)

BrowsersNext ==
    /\ UNCHANGED crowd
    /\ \/ crowd = "many" /\ Next
       \/ crowd = "lone" /\ Lone!Next /\ \A r \in Requests \ {LoneRequest} : pc'[r] = "idle"

BrowsersSpec == BrowsersInit /\ [][BrowsersNext]_<<crowd, vars>>

-----------------------------------------------------------------------------
Register == INSTANCE SessionRegister WITH
    Users <- Clients, Tokens <- LoneTokens,
    user <- IF crowd = "lone" THEN Lone!Visible(LoneRequest).user ELSE None,
    token <- IF crowd = "lone" THEN Lone!Visible(LoneRequest).token ELSE None

(* The values a lone browser sees are the register of SessionRegister:     *)
(* none is lost, resurrected or mixed with older ones across loads, saves  *)
(* and new ids, as long as the store answers (session.go:70-260).          *)
RegisterSpec == Register!Spec

(* A message is read by one request of a lone browser: what a request read  *)
(* is no longer there for the next (session.go:96-100).                    *)
FlashOnce ==
    [][crowd = "lone" /\ Lone!LoadFound(LoneRequest) =>
          \A m \in store[cookie[LoneRequest]].flash : msgs[m] # "seen"]_<<crowd, vars>>

=============================================================================
