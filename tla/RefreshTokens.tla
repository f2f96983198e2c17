---------------------------- MODULE RefreshTokens ----------------------------
(***************************************************************************)
(* The refresh tokens of one user: logins, the rotation of a token by      *)
(* several tabs at once, logout, expiry and the collection of old rows.    *)
(*                                                                         *)
(* Code: rotate_refresh and revoke_refresh of                              *)
(* backend/app/services/auth_service.py, refresh_token_gc.py, the routes   *)
(* of auth.py.                                                             *)
(*                                                                         *)
(* A request is one transaction of several statements.  A row it selects   *)
(* FOR UPDATE stays locked until it ends.  A row that is already in its    *)
(* session keeps the attributes that were loaded first: the second select  *)
(* of a chain head, FOR UPDATE, waits for the row but does not refresh it. *)
(*                                                                         *)
(* Tokens are numbered in the order in which they are issued.  login (the  *)
(* login a token descends from) and forked (the logins in which a token    *)
(* was rotated over a copy that was out of date) are history: nothing in   *)
(* the code reads them.                                                    *)
(***************************************************************************)
EXTENDS Naturals, FiniteSets

CONSTANTS
    MaxTokens,   \* bound: tokens ever issued
    MaxLogins,   \* bound: logins
    Requests     \* requests in progress at a time

ASSUME BoundsAreNatural == MaxTokens \in Nat /\ MaxLogins \in Nat

Tokens == 1..MaxTokens
None == 0

VARIABLES
    status,    \* "unissued", "live", "revoked" within the grace period, "old" after it, "gone"
    expired,   \* the tokens past expires_at
    next,      \* replaced_by_id
    login,     \* the login a token descends from
    forked,    \* the logins in which a request rotated a head another had revoked
    request    \* what each request has loaded, locked and still has to do

vars == <<status, expired, next, login, forked, request>>

Idle == [at |-> "idle", row |-> None, locks |-> {}, live |-> FALSE, found |-> {}]

TypeOK ==
    /\ status \in [Tokens -> {"unissued", "live", "revoked", "old", "gone"}]
    /\ expired \subseteq Tokens
    /\ next \in [Tokens -> Tokens \cup {None}]
    /\ login \in [Tokens -> 0..MaxLogins]
    /\ forked \subseteq 1..MaxLogins
    /\ request \in [Requests ->
          [at: {"idle", "locked", "head", "burning", "logout"}, row: Tokens \cup {None},
           locks: SUBSET Tokens, live: BOOLEAN, found: SUBSET Tokens]]

Init ==
    /\ status = [t \in Tokens |-> "unissued"]
    /\ expired = {}
    /\ next = [t \in Tokens |-> None]
    /\ login = [t \in Tokens |-> 0]
    /\ forked = {}
    /\ request = [u \in Requests |-> Idle]

----------------------------------------------------------------------------
Exists(t) == status[t] \in {"live", "revoked", "old"}
Live == {t \in Tokens : status[t] = "live"}
Unlocked(t, u) == \A v \in Requests \ {u} : t \notin request[v].locks

\* the token that _issue_tokens_with_row inserts
IsFresh(n) == status[n] = "unissued" /\ \A t \in Tokens : t < n => status[t] # "unissued"

End(u) == request' = [request EXCEPT ![u] = Idle]

Login(l) ==
    /\ \A t \in Tokens : login[t] < l
    /\ \A k \in 1..(l - 1) : \E t \in Tokens : login[t] = k
    /\ \E n \in Tokens :
          /\ IsFresh(n)
          /\ status' = [status EXCEPT ![n] = "live"]
          /\ login' = [login EXCEPT ![n] = l]
    /\ UNCHANGED <<expired, next, forked, request>>

----------------------------------------------------------------------------
(* rotate_refresh *)

\* Mutant: the token in the cookie is selected without a lock.
Present_Unlocked(u, t) ==
    /\ request[u].at = "idle"
    /\ Exists(t)
    /\ request' = [request EXCEPT ![u] =
          [Idle EXCEPT !.at = "locked", !.row = t, !.locks = {t},
                       !.live = status[t] = "live"]]
    /\ UNCHANGED <<status, expired, next, login, forked>>

\* the first select, FOR UPDATE, by the hash of the token in the cookie
Present(u, t) ==
    /\ request[u].at = "idle"
    /\ Exists(t) /\ Unlocked(t, u)
    /\ request' = [request EXCEPT ![u] =
          [Idle EXCEPT !.at = "locked", !.row = t, !.locks = {t},
                       !.live = status[t] = "live"]]
    /\ UNCHANGED <<status, expired, next, login, forked>>

\* the row is a head the request came to from the token in the cookie, loaded
\* before it was locked, and no longer live
StaleHead(u) == request[u].locks # {request[u].row} /\ status[request[u].row] # "live"

\* the row was live when it was loaded: mint the next token, revoke the row,
\* link the two, commit
Rotate(u) == LET t == request[u].row IN
    /\ request[u].at = "locked" /\ request[u].live
    /\ t \notin expired
    /\ \E n \in Tokens :
          /\ IsFresh(n)
          /\ status' = [status EXCEPT ![t] = "revoked", ![n] = "live"]
          /\ next' = [next EXCEPT ![t] = n]
          /\ login' = [login EXCEPT ![n] = login[t]]
    /\ forked' = IF StaleHead(u) THEN forked \cup {login[t]} ELSE forked
    /\ End(u)
    /\ UNCHANGED expired

\* _find_race_chain_head may find a replacement that can be rotated instead: the
\* row was rotated within the grace period, for the user agent of this request
HasHead(u) == LET t == request[u].row IN
    /\ next[t] # None
    /\ status[t] = "revoked"
    /\ status[next[t]] = "live"
    /\ next[t] \notin expired

\* ... and loads it, without a lock
FindHead(u) ==
    /\ request[u].at = "locked" /\ ~request[u].live
    /\ HasHead(u)
    /\ request' = [request EXCEPT ![u].at = "head", ![u].row = next[request[u].row],
                                  ![u].live = TRUE]
    /\ UNCHANGED <<status, expired, next, login, forked>>

\* Lock the head.  It stays as FindHead loaded it, live.
Relock(u) ==
    /\ request[u].at = "head"
    /\ Exists(request[u].row) /\ Unlocked(request[u].row, u)
    /\ request' = [request EXCEPT ![u].at = "locked", ![u].locks = @ \cup {request[u].row}]
    /\ UNCHANGED <<status, expired, next, login, forked>>

\* no such head, or another user agent: the UPDATE of _revoke_all_active finds
\* the live tokens ...
Burn(u) ==
    /\ request[u].at = "locked" /\ ~request[u].live
    /\ request' = [request EXCEPT ![u].at = "burning", ![u].found = Live]
    /\ UNCHANGED <<status, expired, next, login, forked>>

\* ... and revokes those that still are when it has their locks
Burnt(u) == LET burnt == request[u].found \cap Live IN
    /\ request[u].at = "burning"
    /\ \A t \in request[u].found : Unlocked(t, u)
    /\ status' = [t \in Tokens |-> IF t \in burnt THEN "revoked" ELSE status[t]]
    /\ End(u)
    /\ UNCHANGED <<expired, next, login, forked>>

\* 401 for an expired row, an inactive user or a head that is gone; or the
\* client or the process is gone before the commit
Fail(u) ==
    /\ request[u].at # "idle"
    /\ End(u)
    /\ UNCHANGED <<status, expired, next, login, forked>>

----------------------------------------------------------------------------
(* revoke_refresh selects without a lock and revokes what was live then.   *)

Logout(u, t) ==
    /\ request[u].at = "idle"
    /\ status[t] = "live"
    /\ request' = [request EXCEPT ![u] = [Idle EXCEPT !.at = "logout", !.row = t]]
    /\ UNCHANGED <<status, expired, next, login, forked>>

LoggedOut(u) == LET t == request[u].row IN
    /\ request[u].at = "logout"
    /\ Exists(t) /\ Unlocked(t, u)
    /\ status' = [status EXCEPT ![t] = "revoked"]
    /\ End(u)
    /\ UNCHANGED <<expired, next, login, forked>>

----------------------------------------------------------------------------
(* Time *)

GraceOver(t) ==
    /\ status[t] = "revoked"
    /\ status' = [status EXCEPT ![t] = "old"]
    /\ UNCHANGED <<expired, next, login, forked, request>>

Expire(t) ==
    /\ Exists(t) /\ t \notin expired
    /\ expired' = expired \cup {t}
    /\ UNCHANGED <<status, next, login, forked, request>>

\* Mutant: the links to a collected row stay.
Collect_Dangling(t) ==
    /\ Exists(t) /\ t \in expired
    /\ \A u \in Requests : t \notin request[u].locks
    /\ status' = [status EXCEPT ![t] = "gone"]
    /\ UNCHANGED <<expired, next, login, forked, request>>

\* gc_expired_refresh_tokens; the foreign key is ON DELETE SET NULL
Collect(t) ==
    /\ Exists(t) /\ t \in expired
    /\ \A u \in Requests : t \notin request[u].locks
    /\ \A s \in Tokens : next[s] = t => \A u \in Requests : s \notin request[u].locks
    /\ status' = [status EXCEPT ![t] = "gone"]
    /\ next' = [s \in Tokens |-> IF s = t \/ next[s] = t THEN None ELSE next[s]]
    /\ UNCHANGED <<expired, login, forked, request>>

----------------------------------------------------------------------------
Next ==
    \/ \E l \in 1..MaxLogins : Login(l)
    \/ \E u \in Requests : \/ Rotate(u) \/ FindHead(u) \/ Relock(u) \/ Burn(u) \/ Burnt(u)
                           \/ Fail(u) \/ LoggedOut(u)
    \/ \E u \in Requests, t \in Tokens : Logout(u, t) \/ Present(u, t)
    \/ \E t \in Tokens : GraceOver(t) \/ Expire(t) \/ Collect(t)

Spec == Init /\ [][Next]_vars

----------------------------------------------------------------------------
(* Properties *)

(* The links of the table lead from revoked tokens to newer ones of the    *)
(* same login, and never to a deleted row: whatever tabs race, and         *)
(* whatever the collection deletes from the middle of a chain, following   *)
(* the links ends (rotate_refresh, gc_expired_refresh_tokens).             *)
ChainsLeadForward ==
    \A t \in Tokens : next[t] # None =>
        /\ status[t] \in {"revoked", "old"}
        /\ next[t] > t
        /\ Exists(next[t])
        /\ login[next[t]] = login[t]

(* "FOR UPDATE serialises writers": a login has one live token, whatever   *)
(* tabs race, log out, burn or collect its rows, as long as every token    *)
(* was rotated by the request that presented it.  A second one appears     *)
(* only after a request has come to a replacement through the chain and    *)
(* rotated it over a copy loaded before its lock (rotate_refresh).         *)
OneLegUntilStaleHead ==
    \A s, t \in Live : login[s] = login[t] => s = t \/ login[s] \in forked

(* "the loser of a race observes the winner's revocation and follows the   *)
(* chain instead of producing an orphaned leg": a login has one live       *)
(* token.                                                                  *)
NoOrphanedLeg ==
    \A s, t \in Live : login[s] = login[t] => s = t
=============================================================================
