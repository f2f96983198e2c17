------------------------- MODULE RefreshTokensProofs -------------------------
(***************************************************************************)
(* Proofs about RefreshTokens, for any number of tokens, logins and        *)
(* concurrent requests.  The invariant adds to the two properties which    *)
(* tokens have been issued, and what a request that holds a lock may rely  *)
(* on: no other has it, the row stays, and a row that was locked when it   *)
(* was loaded is as live as it was then.                                   *)
(***************************************************************************)
EXTENDS RefreshTokens, TLAPS

\* tokens are issued in order, and each belongs to a login
IssuedOK ==
    \A t \in Tokens : status[t] # "unissued" =>
        /\ login[t] \in 1..MaxLogins
        /\ \A s \in Tokens : s < t => status[s] # "unissued"

\* a locked row is not deleted, and a request that rotates has its row locked
HoldsRows(u) ==
    /\ \A t \in request[u].locks : Exists(t)
    /\ request[u].at = "locked" => request[u].row \in request[u].locks
    /\ request[u].at \in {"head", "logout"} => request[u].row \in Tokens

RequestsOK == \A u \in Requests : HoldsRows(u)

LocksApart ==
    \A u, v \in Requests : \A t \in request[u].locks : t \in request[v].locks => u = v

\* what was loaded under its lock is up to date; another row has been locked
\* before a head is
LoadedOK(u) ==
    /\ request[u].at = "locked" /\ request[u].live /\ request[u].locks = {request[u].row}
           => status[request[u].row] = "live"
    /\ request[u].at = "head" => \E t \in request[u].locks : t # request[u].row

CopiesOK == \A u \in Requests : LoadedOK(u)

ExpiredOK == \A t \in expired : status[t] # "unissued"

Tables == TypeOK /\ IssuedOK /\ ExpiredOK /\ ChainsLeadForward /\ OneLegUntilStaleHead
IInv == Tables /\ RequestsOK /\ LocksApart /\ CopiesOK

RequestType == [at: {"idle", "locked", "head", "burning", "logout"}, row: Tokens \cup {None},
                locks: SUBSET Tokens, live: BOOLEAN, found: SUBSET Tokens]

LEMMA InitInv == Init => IInv
<1> SUFFICES ASSUME Init PROVE IInv
  OBVIOUS
<1>1. Idle \in RequestType
  BY DEF Idle, RequestType
<1>2. TypeOK
  BY <1>1, BoundsAreNatural DEF Init, TypeOK, RequestType, None
<1>3. IssuedOK /\ ExpiredOK /\ ChainsLeadForward
  BY DEF Init, IssuedOK, ExpiredOK, ChainsLeadForward
<1>4. OneLegUntilStaleHead
  BY DEF Init, OneLegUntilStaleHead, Live
<1>5. \A u \in Requests : request[u].locks = {} /\ request[u].at = "idle"
  BY DEF Init, Idle
<1>6. RequestsOK /\ LocksApart /\ CopiesOK
  BY <1>5 DEF RequestsOK, HoldsRows, LocksApart, CopiesOK, LoadedOK
<1> QED
  BY <1>2, <1>3, <1>4, <1>6 DEF IInv, Tables

(* A step that writes only what requests remember leaves the tables alone. *)
LEMMA TablesKept ==
    ASSUME Tables, UNCHANGED <<status, expired, next, login, forked>>,
           request' \in [Requests -> RequestType]
    PROVE  Tables'
  BY DEF Tables, TypeOK, IssuedOK, ExpiredOK, ChainsLeadForward, OneLegUntilStaleHead,
         Exists, Live, RequestType

(* A request that ends, or none, while no row is deleted and no row that   *)
(* another has locked changes from live to something else.                 *)
LEMMA RequestsKept ==
    ASSUME IInv, NEW S \in SUBSET Requests,
           request' \in [Requests -> RequestType],
           \A u \in Requests : request'[u] = IF u \in S THEN Idle ELSE request[u],
           \A t \in Tokens : Exists(t) /\ (\E u \in Requests : t \in request[u].locks) => Exists(t)',
           \A u \in Requests \ S : \A t \in request[u].locks :
               status[t] = "live" => status'[t] = "live"
    PROVE  RequestsOK' /\ LocksApart' /\ CopiesOK'
<1>1. Idle.locks = {} /\ Idle.at = "idle"
  BY DEF Idle
<1>2. \A u \in Requests : request[u].locks \subseteq Tokens
  BY DEF IInv, Tables, TypeOK
<1>3. RequestsOK'
  BY <1>1, <1>2 DEF RequestsOK, HoldsRows, IInv
<1>4. LocksApart'
  BY <1>1 DEF LocksApart, IInv
<1>5. CopiesOK'
  BY <1>1 DEF CopiesOK, LoadedOK, IInv
<1> QED
  BY <1>3, <1>4, <1>5

LEMMA EndKeepsType ==
    ASSUME IInv, NEW u \in Requests, End(u)
    PROVE  /\ request' \in [Requests -> RequestType]
           /\ \A v \in Requests : request'[v] = IF v \in {u} THEN Idle ELSE request[v]
  BY DEF IInv, Tables, TypeOK, RequestType, End, Idle

(* The row of a request that has it locked exists.                         *)
LEMMA LockedExists ==
    ASSUME IInv, NEW u \in Requests, request[u].at = "locked"
    PROVE  request[u].row \in Tokens /\ Exists(request[u].row)
<1>1. request[u].locks \subseteq Tokens
  BY DEF IInv, Tables, TypeOK
<1> QED
  BY <1>1 DEF IInv, RequestsOK, HoldsRows

(* A token that is issued is newer than all there are, nothing leads to it *)
(* and it leads nowhere.                                                   *)
LEMMA FreshIsNew ==
    ASSUME IInv, NEW n \in Tokens, IsFresh(n)
    PROVE  /\ n \notin expired /\ next[n] = None
           /\ \A t \in Tokens : next[t] # n
           /\ \A t \in Tokens : status[t] # "unissued" => t < n
<1>1. n \notin expired /\ next[n] = None
  BY DEF IInv, Tables, ExpiredOK, ChainsLeadForward, IsFresh
<1>2. \A t \in Tokens : next[t] # n
  BY DEF IInv, Tables, ChainsLeadForward, IsFresh, Exists, Tokens, None
<1>3. \A t \in Tokens : status[t] # "unissued" => t < n
  BY BoundsAreNatural DEF IInv, Tables, IssuedOK, IsFresh, Tokens
<1> QED
  BY <1>1, <1>2, <1>3

----------------------------------------------------------------------------
(* The steps of a request that write nothing but its memory.               *)
LEMMA QuietStep ==
    ASSUME IInv, NEW u \in Requests,
           \/ FindHead(u) \/ Relock(u) \/ Burn(u) \/ Fail(u)
           \/ \E t \in Tokens : Logout(u, t) \/ Present(u, t)
    PROVE  IInv'
<1> USE DEF RequestType
<1>1. request \in [Requests -> RequestType] /\ request[u] \in RequestType
  BY DEF IInv, Tables, TypeOK
<1>2. UNCHANGED <<status, expired, next, login, forked>>
  BY DEF FindHead, Relock, Burn, Fail, Logout, Present
<1>a. /\ HoldsRows(u) /\ LoadedOK(u)
      /\ \A t \in request[u].locks : Unlocked(t, u)
  BY DEF IInv, RequestsOK, CopiesOK, LocksApart, Unlocked
<1> DEFINE Goal == /\ request'[u] \in RequestType
                   /\ request' = [request EXCEPT ![u] = request'[u]]
                   /\ HoldsRows(u)'
                   /\ \A t \in request'[u].locks : Unlocked(t, u)
                   /\ LoadedOK(u)'
<1>3. Goal
  <2>1. CASE FindHead(u)
    <3>1. request[u].row \in Tokens
      BY <2>1, LockedExists DEF FindHead
    <3>2. next[request[u].row] \in Tokens /\ next[request[u].row] # request[u].row
      BY <2>1, <3>1 DEF FindHead, HasHead, IInv, Tables, TypeOK, ChainsLeadForward, Tokens
    <3>3. request'[u] = [request[u] EXCEPT !.at = "head", !.row = next[request[u].row],
                                           !.live = TRUE]
      BY <2>1, <1>1 DEF FindHead
    <3>4. request' = [request EXCEPT ![u] = request'[u]]
      BY <2>1, <1>1 DEF FindHead
    <3>5. /\ request'[u].at = "head" /\ request'[u].row = next[request[u].row]
          /\ request'[u].locks = request[u].locks /\ request'[u] \in RequestType
      BY <1>1, <3>2, <3>3
    <3>6. HoldsRows(u)'
      BY <1>2, <1>a, <3>2, <3>5 DEF HoldsRows, Exists
    <3>7. request[u].row \in request[u].locks
      BY <2>1, <1>a DEF FindHead, HoldsRows
    <3>8. LoadedOK(u)'
      BY <3>2, <3>5, <3>7 DEF LoadedOK
    <3> QED
      BY <1>a, <3>4, <3>5, <3>6, <3>8
  <2>2. CASE Relock(u)
    <3>1. request[u].row \in Tokens /\ request[u].at = "head"
      BY <2>2, <1>a DEF Relock, HoldsRows
    <3>2. request'[u] = [request[u] EXCEPT !.at = "locked", !.locks = @ \cup {request[u].row}]
      BY <2>2, <1>1 DEF Relock
    <3>3. request' = [request EXCEPT ![u] = request'[u]]
      BY <2>2, <1>1 DEF Relock
    <3>4. Exists(request[u].row) /\ Unlocked(request[u].row, u)
      BY <2>2 DEF Relock
    <3>5. request[u].locks \cup {request[u].row} \in SUBSET Tokens
      BY <1>1, <3>1
    <3>6. request'[u].locks = request[u].locks \cup {request[u].row}
      BY <1>1, <3>2
    <3>7. request'[u].at = "locked" /\ request'[u].row = request[u].row
      BY <1>1, <3>2
    <3>8. request'[u] \in RequestType
      BY <1>1, <3>2, <3>5
    <3>9. HoldsRows(u)'
      BY <1>2, <1>a, <3>4, <3>6, <3>7 DEF HoldsRows, Exists
    <3>10. request'[u].locks # {request'[u].row}
      BY <1>a, <3>1, <3>6, <3>7 DEF LoadedOK
    <3>11. LoadedOK(u)'
      BY <3>7, <3>10 DEF LoadedOK
    <3> QED
      BY <1>a, <3>3, <3>4, <3>6, <3>8, <3>9, <3>11
  <2>3. CASE Burn(u)
    <3>1. request'[u] = [request[u] EXCEPT !.at = "burning", !.found = Live]
      BY <2>3, <1>1 DEF Burn
    <3>2. request' = [request EXCEPT ![u] = request'[u]]
      BY <2>3, <1>1 DEF Burn
    <3>3. Live \subseteq Tokens
      BY DEF Live
    <3>4. /\ request'[u].at = "burning" /\ request'[u].locks = request[u].locks
          /\ request'[u] \in RequestType
      BY <1>1, <3>1, <3>3
    <3>5. HoldsRows(u)' /\ LoadedOK(u)'
      BY <1>2, <1>a, <3>4 DEF HoldsRows, LoadedOK, Exists
    <3> QED
      BY <1>a, <3>2, <3>4, <3>5
  <2>4. CASE Fail(u)
    BY <2>4, <1>1 DEF Fail, End, Idle, HoldsRows, LoadedOK
  <2>5. ASSUME NEW t \in Tokens, Logout(u, t)
        PROVE  Goal
    BY <2>5, <1>1 DEF Logout, Idle, HoldsRows, LoadedOK
  <2>6. ASSUME NEW t \in Tokens, Present(u, t)
        PROVE  Goal
    <3>1. /\ request'[u] = [Idle EXCEPT !.at = "locked", !.row = t, !.locks = {t},
                                        !.live = status[t] = "live"]
          /\ request' = [request EXCEPT ![u] = request'[u]]
          /\ Exists(t) /\ Unlocked(t, u)
      BY <2>6, <1>1 DEF Present
    <3>a. (status[t] = "live") \in BOOLEAN /\ {t} \in SUBSET Tokens
      OBVIOUS
    <3>2. /\ request'[u].at = "locked" /\ request'[u].row = t /\ request'[u].locks = {t}
          /\ request'[u].live = (status[t] = "live") /\ request'[u] \in RequestType
      BY <3>1, <3>a DEF Idle
    <3>3. HoldsRows(u)' /\ LoadedOK(u)'
      BY <1>2, <3>1, <3>2 DEF HoldsRows, LoadedOK, Exists
    <3> QED
      BY <3>1, <3>2, <3>3
  <2> QED
    BY <2>1, <2>2, <2>3, <2>4, <2>5, <2>6
<1>4. request' \in [Requests -> RequestType]
  BY <1>1, <1>3
<1>5. \A v \in Requests \ {u} : request'[v] = request[v]
  BY <1>1, <1>3
<1>6. RequestsOK' /\ CopiesOK'
  BY <1>2, <1>3, <1>5 DEF RequestsOK, CopiesOK, IInv, HoldsRows, LoadedOK, Exists
<1>7. LocksApart'
  BY <1>3, <1>5 DEF LocksApart, IInv, Unlocked
<1> QED
  BY <1>2, <1>4, <1>6, <1>7, TablesKept DEF IInv

----------------------------------------------------------------------------
(* The steps that write the tables.                                        *)
LEMMA LoginStep ==
    ASSUME IInv, NEW l \in 1..MaxLogins, Login(l)
    PROVE  IInv'
<1> USE DEF IInv, Tables
<1>1. PICK n \in Tokens : /\ IsFresh(n)
                          /\ status' = [status EXCEPT ![n] = "live"]
                          /\ login' = [login EXCEPT ![n] = l]
  BY DEF Login
<1>2. UNCHANGED <<expired, next, forked, request>> /\ \A s \in Tokens : login[s] < l
  BY DEF Login
<1>3. /\ n \notin expired /\ next[n] = None /\ \A t \in Tokens : next[t] # n
      /\ \A t \in Tokens : status[t] # "unissued" => t < n
  BY <1>1, FreshIsNew
<1>4. /\ status'[n] = "live" /\ login'[n] = l /\ status[n] = "unissued"
      /\ \A t \in Tokens \ {n} : status'[t] = status[t] /\ login'[t] = login[t]
  BY <1>1 DEF TypeOK, IsFresh
<1>5. request' \in [Requests -> RequestType] /\ RequestsOK' /\ LocksApart' /\ CopiesOK'
  <2>1. request' \in [Requests -> RequestType]
    BY <1>2 DEF TypeOK, RequestType
  <2>2. \A u \in Requests : request'[u] = IF u \in {} THEN Idle ELSE request[u]
    BY <1>2
  <2>3. \A t \in Tokens : Exists(t) => Exists(t)'
    BY <1>4 DEF Exists
  <2>4. \A u \in Requests : \A t \in request[u].locks :
            status[t] = "live" => status'[t] = "live"
    BY <1>4 DEF TypeOK
  <2>5. {} \in SUBSET Requests /\ Requests \ {} = Requests
    OBVIOUS
  <2> QED
    BY <2>1, <2>2, <2>3, <2>4, <2>5, RequestsKept
<1>6. TypeOK'
  BY <1>1, <1>2, BoundsAreNatural DEF TypeOK
<1>7. IssuedOK'
  BY <1>1, <1>4 DEF IssuedOK, IsFresh
<1>8. ExpiredOK'
  BY <1>2, <1>3, <1>4 DEF ExpiredOK, TypeOK
<1>9. ChainsLeadForward'
  BY <1>2, <1>3, <1>4 DEF ChainsLeadForward, Exists, TypeOK
<1>10. OneLegUntilStaleHead'
  <2> SUFFICES ASSUME NEW s \in Live', NEW t \in Live', login'[s] = login'[t], s # t
               PROVE  login'[s] \in forked'
    BY DEF OneLegUntilStaleHead
  <2>1. s # n /\ t # n
    BY <1>2, <1>4 DEF Live, TypeOK
  <2> QED
    BY <1>2, <1>4, <2>1 DEF OneLegUntilStaleHead, Live
<1> QED
  BY <1>5, <1>6, <1>7, <1>8, <1>9, <1>10

LEMMA RotateStep ==
    ASSUME IInv, NEW u \in Requests, Rotate(u)
    PROVE  IInv'
<1> USE DEF IInv, Tables
<1> DEFINE t == request[u].row
<1>1. PICK n \in Tokens : /\ IsFresh(n)
                          /\ status' = [status EXCEPT ![t] = "revoked", ![n] = "live"]
                          /\ next' = [next EXCEPT ![t] = n]
                          /\ login' = [login EXCEPT ![n] = login[t]]
  BY DEF Rotate
<1>2. /\ UNCHANGED expired /\ End(u)
      /\ request[u].at = "locked" /\ request[u].live
      /\ forked' = IF StaleHead(u) THEN forked \cup {login[t]} ELSE forked
  BY DEF Rotate
<1>3. t \in Tokens /\ Exists(t)
  BY LockedExists DEF Rotate
<1>13. status[t] = "live" \/ StaleHead(u)
  BY <1>2 DEF CopiesOK, LoadedOK, StaleHead
<1>14. t \in request[u].locks
  BY <1>2 DEF RequestsOK, HoldsRows
<1> HIDE DEF t
<1>4. /\ n \notin expired /\ next[n] = None /\ \A s \in Tokens : next[s] # n
      /\ \A s \in Tokens : status[s] # "unissued" => s < n
  BY <1>1, FreshIsNew
<1>5. t # n /\ t < n /\ status[n] = "unissued" /\ login[t] \in 1..MaxLogins
  BY <1>1, <1>3, <1>4 DEF Exists, IsFresh, IssuedOK
<1>6. /\ status'[n] = "live" /\ status'[t] = "revoked" /\ next'[t] = n
      /\ login'[n] = login[t] /\ login'[t] = login[t]
      /\ \A s \in Tokens \ {t} : next'[s] = next[s]
      /\ \A s \in Tokens \ {t, n} : status'[s] = status[s] /\ login'[s] = login[s]
  BY <1>1, <1>3, <1>5 DEF TypeOK
<1>7. request' \in [Requests -> RequestType] /\ RequestsOK' /\ LocksApart' /\ CopiesOK'
  <2>1. /\ request' \in [Requests -> RequestType]
        /\ \A v \in Requests : request'[v] = IF v \in {u} THEN Idle ELSE request[v]
    BY <1>2, EndKeepsType
  <2>2. \A s \in Tokens : Exists(s) => Exists(s)'
    BY <1>6 DEF Exists
  <2>3. \A v \in Requests \ {u} : t \notin request[v].locks
    BY <1>14 DEF LocksApart
  <2>4. \A v \in Requests \ {u} : \A s \in request[v].locks :
            status[s] = "live" => status'[s] = "live"
    BY <1>5, <1>6, <2>3 DEF TypeOK
  <2> QED
    BY <2>1, <2>2, <2>4, RequestsKept
<1>8. TypeOK'
  <2>1. request' \in [Requests -> RequestType]
    BY <1>7
  <2>2. status' \in [Tokens -> {"unissued", "live", "revoked", "old", "gone"}]
        /\ next' \in [Tokens -> Tokens \cup {None}]
    BY <1>1, <1>3 DEF TypeOK
  <2>3. login' \in [Tokens -> 0..MaxLogins]
    BY <1>1, <1>3 DEF TypeOK
  <2> QED
    BY <1>2, <1>5, <2>1, <2>2, <2>3 DEF TypeOK, RequestType
<1>9. IssuedOK'
  BY <1>1, <1>3, <1>5, <1>6 DEF IssuedOK, IsFresh, Exists
<1>10. ExpiredOK'
  BY <1>2, <1>4, <1>6 DEF ExpiredOK, TypeOK
<1>11. ChainsLeadForward'
  <2> SUFFICES ASSUME NEW s \in Tokens, next'[s] # None
               PROVE  /\ status'[s] \in {"revoked", "old"} /\ next'[s] > s
                      /\ Exists(next[s])' /\ login'[next'[s]] = login'[s]
    BY DEF ChainsLeadForward
  <2>1. CASE s = t
    BY <2>1, <1>5, <1>6 DEF Exists, Tokens
  <2>2. CASE s # t
    <3>1. /\ next'[s] = next[s] /\ status[s] \in {"revoked", "old"} /\ next[s] > s
          /\ Exists(next[s]) /\ login[next[s]] = login[s] /\ next[s] \in Tokens
      BY <2>2, <1>6 DEF ChainsLeadForward, TypeOK
    <3>2. s # n /\ next[s] # n
      BY <3>1, <1>4, <1>5
    <3>3. status'[s] = status[s] /\ login'[s] = login[s] /\ login'[next[s]] = login[next[s]]
      BY <3>1, <3>2, <2>2, <1>6
    <3>4. status'[next[s]] = status[next[s]] \/ status'[next[s]] = "revoked"
      BY <3>1, <3>2, <1>6
    <3> QED
      BY <3>1, <3>3, <3>4 DEF Exists
  <2> QED
    BY <2>1, <2>2
<1>12. OneLegUntilStaleHead'
  <2> SUFFICES ASSUME NEW s \in Live', NEW k \in Live', login'[s] = login'[k], s # k
               PROVE  login'[s] \in forked'
    BY DEF OneLegUntilStaleHead
  <2>1. forked \subseteq forked' /\ (status[t] # "live" => login[t] \in forked')
    BY <1>2, <1>13
  <2>2. s \in Tokens /\ k \in Tokens /\ status'[s] = "live" /\ status'[k] = "live"
    BY DEF Live
  <2>3. s # t /\ k # t
    BY <2>2, <1>6
  <2>4. CASE s # n /\ k # n
    <3>1. s \in Live /\ k \in Live /\ login[s] = login[k] /\ login'[s] = login[s]
      BY <2>2, <2>3, <2>4, <1>6 DEF Live
    <3> QED
      BY <3>1, <2>1 DEF OneLegUntilStaleHead
  <2>5. ASSUME NEW r \in {s, k}, r # n, s = n \/ k = n
        PROVE  login'[s] \in forked'
    <3>1. r \in Live /\ login[r] = login[t] /\ login'[s] = login[t] /\ r # t
      BY <2>2, <2>3, <2>5, <1>6 DEF Live
    <3>2. status[t] = "live" => login[t] \in forked
      BY <3>1, <1>3 DEF OneLegUntilStaleHead, Live
    <3> QED
      BY <3>1, <3>2, <2>1
  <2> QED
    BY <2>4, <2>5
<1> QED
  BY <1>7, <1>8, <1>9, <1>10, <1>11, <1>12

LEMMA BurntStep ==
    ASSUME IInv, NEW u \in Requests, Burnt(u)
    PROVE  IInv'
<1> USE DEF IInv, Tables
<1> DEFINE burnt == request[u].found \cap Live
<1>1. /\ status' = [t \in Tokens |-> IF t \in burnt THEN "revoked" ELSE status[t]]
      /\ UNCHANGED <<expired, next, login, forked>> /\ End(u)
      /\ \A t \in burnt : Unlocked(t, u)
  BY DEF Burnt
<1>2. \A t \in burnt : t \in Tokens /\ status[t] = "live"
  BY DEF Live
<1> HIDE DEF burnt
<1>3. \A t \in Tokens : status'[t] = IF t \in burnt THEN "revoked" ELSE status[t]
  BY <1>1
<1>4. request' \in [Requests -> RequestType] /\ RequestsOK' /\ LocksApart' /\ CopiesOK'
  <2>1. /\ request' \in [Requests -> RequestType]
        /\ \A v \in Requests : request'[v] = IF v \in {u} THEN Idle ELSE request[v]
    BY <1>1, EndKeepsType
  <2>2. \A t \in Tokens : Exists(t) => Exists(t)'
    BY <1>3 DEF Exists
  <2>3. \A v \in Requests \ {u} : \A t \in request[v].locks :
            status[t] = "live" => status'[t] = "live"
    BY <1>1, <1>3 DEF Unlocked, TypeOK
  <2> QED
    BY <2>1, <2>2, <2>3, RequestsKept
<1>5. IssuedOK'
  BY <1>1, <1>2, <1>3 DEF IssuedOK
<1>6. TypeOK'
  <2>2. status' \in [Tokens -> {"unissued", "live", "revoked", "old", "gone"}]
    BY <1>1 DEF TypeOK
  <2> QED
    BY <1>1, <1>4, <2>2 DEF TypeOK, RequestType
<1>7. ExpiredOK'
  BY <1>1, <1>2, <1>3 DEF ExpiredOK, TypeOK
<1>8. ChainsLeadForward'
  BY <1>1, <1>2, <1>3 DEF ChainsLeadForward, Exists, TypeOK
<1>9. OneLegUntilStaleHead'
  BY <1>1, <1>2, <1>3 DEF OneLegUntilStaleHead, Live
<1> QED
  BY <1>4, <1>5, <1>6, <1>7, <1>8, <1>9

LEMMA LoggedOutStep ==
    ASSUME IInv, NEW u \in Requests, LoggedOut(u)
    PROVE  IInv'
<1> USE DEF IInv, Tables
<1> DEFINE t == request[u].row
<1>1. /\ Exists(t) /\ status' = [status EXCEPT ![t] = "revoked"]
      /\ UNCHANGED <<expired, next, login, forked>> /\ End(u) /\ Unlocked(t, u)
  BY DEF LoggedOut
<1>2. t \in Tokens
  BY DEF LoggedOut, RequestsOK, HoldsRows
<1> HIDE DEF t
<1>3. status'[t] = "revoked" /\ \A s \in Tokens \ {t} : status'[s] = status[s]
  BY <1>1, <1>2 DEF TypeOK
<1>4. request' \in [Requests -> RequestType] /\ RequestsOK' /\ LocksApart' /\ CopiesOK'
  <2>1. /\ request' \in [Requests -> RequestType]
        /\ \A v \in Requests : request'[v] = IF v \in {u} THEN Idle ELSE request[v]
    BY <1>1, EndKeepsType
  <2>2. \A s \in Tokens : Exists(s) => Exists(s)'
    BY <1>3 DEF Exists
  <2>3. \A v \in Requests \ {u} : \A s \in request[v].locks :
            status[s] = "live" => status'[s] = "live"
    BY <1>1, <1>3 DEF Unlocked, TypeOK
  <2> QED
    BY <2>1, <2>2, <2>3, RequestsKept
<1>5. IssuedOK'
  BY <1>1, <1>2, <1>3 DEF IssuedOK, Exists
<1>6. TypeOK'
  <2>1. status' \in [Tokens -> {"unissued", "live", "revoked", "old", "gone"}]
    BY <1>1, <1>2 DEF TypeOK
  <2> QED
    BY <1>1, <1>4, <2>1 DEF TypeOK, RequestType
<1>7. ExpiredOK'
  BY <1>1, <1>2, <1>3 DEF ExpiredOK, TypeOK
<1>8. ChainsLeadForward'
  BY <1>1, <1>2, <1>3 DEF ChainsLeadForward, Exists, TypeOK
<1>9. OneLegUntilStaleHead'
  BY <1>1, <1>2, <1>3 DEF OneLegUntilStaleHead, Live
<1> QED
  BY <1>4, <1>5, <1>6, <1>7, <1>8, <1>9

(* Time passes and old rows are deleted.                                   *)
LEMMA TimeStep ==
    ASSUME IInv, NEW t \in Tokens, GraceOver(t) \/ Expire(t) \/ Collect(t)
    PROVE  IInv'
<1> USE DEF IInv, Tables
<1>1. request' = request /\ login' = login
  BY DEF GraceOver, Expire, Collect
<1>2. \A s \in Tokens : /\ Exists(s) /\ (\E u \in Requests : s \in request[u].locks) => Exists(s)'
                        /\ status[s] # "unissued" <=> status'[s] # "unissued"
  BY DEF GraceOver, Expire, Collect, Exists, TypeOK
<1>3. request' \in [Requests -> RequestType] /\ RequestsOK' /\ LocksApart' /\ CopiesOK'
  <2>1. request' \in [Requests -> RequestType]
    BY <1>1 DEF TypeOK, RequestType
  <2>2. \A u \in Requests : request'[u] = IF u \in {} THEN Idle ELSE request[u]
    BY <1>1
  <2>3. \A u \in Requests : \A s \in request[u].locks :
            status[s] = "live" => status'[s] = "live"
    BY DEF GraceOver, Expire, Collect, TypeOK
  <2>5. {} \in SUBSET Requests /\ Requests \ {} = Requests
    OBVIOUS
  <2> QED
    BY <1>2, <2>1, <2>2, <2>3, <2>5, RequestsKept
<1>4. IssuedOK'
  BY <1>1, <1>2 DEF IssuedOK
<1>5. CASE GraceOver(t)
  <2>1. /\ UNCHANGED <<expired, next, login, forked>> /\ status[t] = "revoked"
        /\ status'[t] = "old" /\ \A s \in Tokens \ {t} : status'[s] = status[s]
    BY <1>5 DEF GraceOver, TypeOK
  <2>2. TypeOK'
    BY <1>3, <1>5 DEF GraceOver, TypeOK, RequestType
  <2>3. ExpiredOK'
    BY <2>1 DEF ExpiredOK, TypeOK
  <2>4. ChainsLeadForward'
    BY <2>1 DEF ChainsLeadForward, Exists, TypeOK
  <2>5. OneLegUntilStaleHead'
    BY <2>1 DEF OneLegUntilStaleHead, Live
  <2> QED
    BY <1>3, <1>4, <2>2, <2>3, <2>4, <2>5
<1>6. CASE Expire(t)
  <2>1. /\ UNCHANGED <<status, next, login, forked>> /\ Exists(t)
        /\ expired' = expired \cup {t}
    BY <1>6 DEF Expire
  <2>2. TypeOK'
    BY <1>3, <2>1 DEF TypeOK, RequestType
  <2>3. ExpiredOK'
    BY <2>1 DEF ExpiredOK, Exists
  <2>4. ChainsLeadForward'
    BY <2>1 DEF ChainsLeadForward, Exists
  <2>5. OneLegUntilStaleHead'
    BY <2>1 DEF OneLegUntilStaleHead, Live
  <2> QED
    BY <1>3, <1>4, <2>2, <2>3, <2>4, <2>5
<1>7. CASE Collect(t)
  <2>1. /\ UNCHANGED <<expired, login, forked>> /\ t \in expired
        /\ status'[t] = "gone" /\ \A s \in Tokens \ {t} : status'[s] = status[s]
        /\ \A s \in Tokens : next'[s] = IF s = t \/ next[s] = t THEN None ELSE next[s]
    BY <1>7 DEF Collect, TypeOK
  <2>2. TypeOK'
    BY <1>3, <1>7 DEF Collect, TypeOK, RequestType
  <2>3. ExpiredOK'
    BY <2>1 DEF ExpiredOK, TypeOK
  <2>4. ChainsLeadForward'
    <3> SUFFICES ASSUME NEW s \in Tokens, next'[s] # None
                 PROVE  /\ status'[s] \in {"revoked", "old"} /\ next'[s] > s
                        /\ Exists(next[s])' /\ login'[next'[s]] = login'[s]
      BY DEF ChainsLeadForward
    <3>1. s # t /\ next[s] # t /\ next'[s] = next[s] /\ next[s] \in Tokens
      BY <2>1 DEF TypeOK
    <3> QED
      BY <2>1, <3>1 DEF ChainsLeadForward, Exists
  <2>5. OneLegUntilStaleHead'
    BY <2>1 DEF OneLegUntilStaleHead, Live, ExpiredOK
  <2> QED
    BY <1>3, <1>4, <2>2, <2>3, <2>4, <2>5
<1> QED
  BY <1>5, <1>6, <1>7

LEMMA StepInv == IInv /\ [Next]_vars => IInv'
<1> SUFFICES ASSUME IInv, [Next]_vars PROVE IInv'
  OBVIOUS
<1>1. CASE UNCHANGED vars
  BY <1>1 DEF vars, IInv, Tables, TypeOK, IssuedOK, ExpiredOK, ChainsLeadForward, Live, Exists,
              OneLegUntilStaleHead, RequestsOK, HoldsRows, LocksApart, CopiesOK, LoadedOK
<1>2. CASE Next
  BY <1>2, LoginStep, QuietStep, RotateStep, BurntStep, LoggedOutStep, TimeStep DEF Next
<1> QED
  BY <1>1, <1>2

LEMMA Invariance == Spec => []IInv
  BY InitInv, StepInv, PTL DEF Spec

(* The rows, and what requests remember of them, keep their types.         *)
THEOREM TypeCorrect == Spec => []TypeOK
  BY Invariance, PTL DEF IInv, Tables

(* For any number of tokens, tabs and logins, and whatever is collected in *)
(* the meantime, following the links of a token leads to newer tokens of   *)
(* its login that exist.                                                   *)
THEOREM ChainsLead == Spec => []ChainsLeadForward
  BY Invariance, PTL DEF IInv, Tables

(* Whatever tabs race, log out, burn or are collected, a login has one     *)
(* live token until a request has rotated, over a copy loaded before its   *)
(* lock, a replacement that another request had revoked (rotate_refresh).  *)
THEOREM OneLeg == Spec => []OneLegUntilStaleHead
  BY Invariance, PTL DEF IInv, Tables
=============================================================================
