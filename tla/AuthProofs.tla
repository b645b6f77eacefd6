----------------------------- MODULE AuthProofs -----------------------------
(***************************************************************************)
(* Proofs about AuthSessions, for any number of requests in flight, of       *)
(* sessions and of tokens, and any lifetimes.                               *)
(***************************************************************************)
EXTENDS AuthSessions, TLAPS

-----------------------------------------------------------------------------
(* The inductive invariant *)

\* No refresh token outlives what a token issued now would.
RowsAreRows ==
    /\ tokens \in Seq(Token)
    /\ now \in Nat
    /\ \A i \in DOMAIN tokens : tokens[i].expires <= now + Lifetime

RequestTypes ==
    /\ pc \in [Requests -> Labels]
    /\ shown \in [Requests -> Nat]
    /\ lock \in [Requests -> {"none", "share", "update"}]
    /\ DOMAIN draft = Requests

\* A row that is about to be inserted.
NewRow(row) == row \in Token /\ row.reason = None /\ row.expires <= now + Lifetime

\* What a request has written when it is about to commit, in terms of the rows
\* as they are now: nobody has changed, since it read them, what it read.
LoginDraft(r) ==
    /\ lock[r] = "share"
    /\ draft[r].revoke = {} /\ draft[r].reason = None
    /\ NewRow(draft[r].insert)
    /\ draft[r].insert.session \notin Opened

RotationDraft(r) ==
    /\ lock[r] = "update"
    /\ draft[r].revoke = {shown[r]} /\ draft[r].reason = "rotated" /\ draft[r].at \in Nat
    /\ shown[r] \in DOMAIN tokens
    /\ Row(r).reason = None
    /\ NewRow(draft[r].insert)
    /\ draft[r].insert.session = Row(r).session
    /\ draft[r].insert.expires >= Row(r).expires

LogoutDraft(r) ==
    /\ lock[r] = "update"
    /\ shown[r] \in DOMAIN tokens
    /\ draft[r].revoke = RowsOf(Row(r).session)
    /\ draft[r].reason = "logout" /\ draft[r].at \in Nat
    /\ draft[r].insert = None

ReuseDraft(r) ==
    /\ lock[r] = "update"
    /\ draft[r].revoke = DOMAIN tokens
    /\ draft[r].reason = "reuse_detected" /\ draft[r].at \in Nat
    /\ draft[r].insert = None

RequestInOrder(r) ==
    /\ pc[r] \in {"idle", "login", "refresh", "logout"} => lock[r] = "none"
    /\ pc[r] \in {"rotate", "revoke"} => lock[r] = "update"
    /\ pc[r] # "commit" => draft[r] = NoChange
    /\ pc[r] \in {"refresh", "logout", "rotate", "revoke"} => shown[r] \in DOMAIN tokens
    /\ pc[r] = "commit" => \/ LoginDraft(r) \/ RotationDraft(r)
                           \/ LogoutDraft(r) \/ ReuseDraft(r)

\* Whoever holds the users row for an update holds it alone; two logins open
\* two sessions.
Apart(r, q) ==
    /\ lock[r] = "update" => lock[q] = "none"
    /\ draft[r].insert # None /\ draft[q].insert # None
         => draft[r].insert.session # draft[q].insert.session

\* A session that was ended has no live row, and had one.
EndedAreOver ==
    /\ ended \subseteq Opened
    /\ \A i \in DOMAIN tokens : tokens[i].session \in ended => tokens[i].reason # None

AuthInv ==
    /\ RowsAreRows /\ RequestTypes /\ EndedAreOver
    /\ \A r \in Requests : RequestInOrder(r)
    /\ \A r, q \in Requests : r # q => Apart(r, q)

-----------------------------------------------------------------------------
(* Rows *)

LEMMA NothingIsWritten ==
    /\ NoChange.revoke = {} /\ NoChange.reason = None /\ NoChange.insert = None
BY DEF NoChange

\* The rows after a commit: those there were, revoked or not, and the one inserted.
LEMMA RowsAfterCommit ==
    ASSUME NEW change, tokens \in Seq(Token),
           change.reason \in {None} \cup Reasons, change.revoke # {} => change.at \in Nat,
           change.insert = None \/ change.insert \in Token
    PROVE  LET after == Applied(change) IN
           /\ after \in Seq(Token)
           /\ \A i \in DOMAIN tokens : i \in DOMAIN after /\
                after[i] = IF i \in change.revoke THEN Revoked(tokens[i], change) ELSE tokens[i]
           /\ change.insert = None => DOMAIN after = DOMAIN tokens
           /\ change.insert # None =>
                \E n \in Nat : /\ DOMAIN after = DOMAIN tokens \cup {n} /\ n \notin DOMAIN tokens
                               /\ after[n] = change.insert
<1> DEFINE updated == [i \in DOMAIN tokens |->
                         IF i \in change.revoke THEN Revoked(tokens[i], change) ELSE tokens[i]]
           n == Len(tokens)
<1>1. n \in Nat /\ DOMAIN tokens = 1..n /\ \A i \in 1..n : tokens[i] \in Token
      OBVIOUS
<1>2. \A i \in 1..n : updated[i] \in Token
  <2> SUFFICES ASSUME NEW i \in 1..n PROVE updated[i] \in Token
      OBVIOUS
  <2>1. CASE i \in change.revoke
        BY <1>1, <2>1 DEF Revoked, Token
  <2>2. CASE i \notin change.revoke
        BY <1>1, <2>2
  <2> QED BY <2>1, <2>2
<1>3. updated \in [1..n -> Token]
      BY <1>1, <1>2
<1>4. updated \in Seq(Token) /\ Len(updated) = n
      BY <1>1, <1>3
<1> HIDE DEF updated, n
<1>5. CASE change.insert = None
  <2>1. Applied(change) = updated
        BY <1>5 DEF Applied, updated
  <2> QED BY <1>1, <1>4, <1>5, <2>1 DEF updated
<1>6. CASE change.insert # None
  <2>1. Applied(change) = Append(updated, change.insert)
        BY <1>6 DEF Applied, updated
  <2>2. /\ Applied(change) \in Seq(Token) /\ DOMAIN Applied(change) = 1..(n + 1)
        /\ Applied(change)[n + 1] = change.insert
        /\ \A i \in 1..n : Applied(change)[i] = updated[i]
        BY <1>1, <1>4, <1>6, <2>1
  <2>3. 1..(n + 1) = 1..n \cup {n + 1} /\ n + 1 \notin 1..n /\ n + 1 \in Nat
        BY <1>1
  <2>4. \A i \in DOMAIN tokens : i \in DOMAIN Applied(change) /\
           Applied(change)[i] = IF i \in change.revoke THEN Revoked(tokens[i], change) ELSE tokens[i]
        BY <1>1, <2>2, <2>3 DEF updated
  <2> QED BY <1>1, <1>6, <2>2, <2>3, <2>4
<1> QED BY <1>5, <1>6

LEMMA RowTypes ==
    ASSUME tokens \in Seq(Token), NEW i \in DOMAIN tokens
    PROVE  /\ tokens[i] \in Token /\ tokens[i].session \in Sessions
           /\ tokens[i].expires \in Nat
<1>1. tokens[i] \in Token
      OBVIOUS
<1> QED BY <1>1 DEF Token

\* A row keeps its session and its expiry, and once revoked it stays as it is.
LEMMA RowsKeepTheirSession ==
    ASSUME NEW row \in Token, NEW change, change.reason \in Reasons
    PROVE  /\ Revoked(row, change).session = row.session
           /\ Revoked(row, change).expires = row.expires
           /\ Revoked(row, change).reason # None
BY NoneIsNothing DEF Revoked, Token

-----------------------------------------------------------------------------
(* The steps that change no row *)

\* A request of its own accord touches nothing of the others'.
LEMMA OneRequestMoves ==
    ASSUME AuthInv, NEW r \in Requests, UNCHANGED <<tokens, now, ended>>, RequestTypes',
           RequestInOrder(r)',
           \A q \in Requests \ {r} : /\ pc'[q] = pc[q] /\ shown'[q] = shown[q]
                                     /\ lock'[q] = lock[q] /\ draft'[q] = draft[q]
                                     /\ Apart(r, q)' /\ Apart(q, r)'
    PROVE  AuthInv'
<1>1. RowsAreRows' /\ EndedAreOver'
      BY DEF AuthInv, RowsAreRows, EndedAreOver, Opened
<1>2. ASSUME NEW q \in Requests, q # r PROVE RequestInOrder(q)'
  <2>1. RequestInOrder(q)
        BY DEF AuthInv
  <2> QED BY <1>2, <2>1 DEF RequestInOrder, LoginDraft, RotationDraft, LogoutDraft, ReuseDraft,
             NewRow, Row, RowsOf, Opened
<1>3. ASSUME NEW p \in Requests, NEW q \in Requests, p # q PROVE Apart(p, q)'
  <2>1. Apart(p, q)
        BY <1>3 DEF AuthInv
  <2>2. CASE p # r /\ q # r
        BY <1>3, <2>1, <2>2 DEF Apart
  <2> QED BY <1>3, <2>2
<1> QED BY <1>1, <1>2, <1>3 DEF AuthInv

\* A request that holds no lock and has written nothing stands in nobody's way.
LEMMA OutOfTheWay ==
    ASSUME AuthInv, NEW r \in Requests, lock'[r] = "none", draft'[r] = NoChange,
           NEW q \in Requests \ {r}, lock'[q] = lock[q], draft'[q] = draft[q]
    PROVE  Apart(r, q)' /\ Apart(q, r)'
BY NothingIsWritten DEF Apart

LEMMA LoginKeepsInv == ASSUME AuthInv, NEW r \in Requests, Login(r) PROVE AuthInv'
<1>1. /\ pc[r] = "idle" /\ pc'[r] = "login" /\ RequestTypes'
      /\ UNCHANGED <<tokens, now, shown, lock, draft, ended>>
      /\ \A q \in Requests \ {r} : pc'[q] = pc[q]
      BY DEF Login, Goto, AuthInv, RequestTypes, Labels
<1>2. lock[r] = "none" /\ draft[r] = NoChange
      BY <1>1 DEF AuthInv, RequestInOrder
<1>3. RequestInOrder(r)'
      BY <1>1, <1>2 DEF RequestInOrder
<1> QED BY <1>1, <1>2, <1>3, OutOfTheWay, OneRequestMoves

LEMMA PresentKeepsInv ==
    ASSUME AuthInv, NEW r \in Requests, NEW i \in Presentable, Present(r, i) PROVE AuthInv'
<1>1. /\ pc[r] = "idle" /\ pc'[r] \in {"refresh", "logout"} /\ shown'[r] = i /\ RequestTypes'
      /\ UNCHANGED <<tokens, now, lock, draft, ended>>
      /\ \A q \in Requests \ {r} : pc'[q] = pc[q] /\ shown'[q] = shown[q]
  <2>1. i \in DOMAIN tokens /\ i \in Nat
        BY DEF Presentable, AuthInv, RowsAreRows
  <2> QED BY <2>1 DEF Present, Goto, AuthInv, RequestTypes, Labels
<1>2. lock[r] = "none" /\ draft[r] = NoChange
      BY <1>1 DEF AuthInv, RequestInOrder
<1>3. RequestInOrder(r)'
      BY <1>1, <1>2 DEF RequestInOrder, Presentable
<1> QED BY <1>1, <1>2, <1>3, OutOfTheWay, OneRequestMoves

LEMMA LockKeepsInv == ASSUME AuthInv, NEW r \in Requests, LockUser(r) PROVE AuthInv'
<1>1. /\ pc[r] \in {"refresh", "logout"} /\ pc'[r] \in {"rotate", "revoke"} /\ lock'[r] = "update"
      /\ UNCHANGED <<tokens, now, shown, draft, ended>> /\ RequestTypes'
      /\ \A q \in Requests \ {r} : pc'[q] = pc[q] /\ lock'[q] = lock[q] /\ lock[q] = "none"
      BY DEF LockUser, Goto, AuthInv, RequestTypes, Labels
<1>2. draft[r] = NoChange /\ shown[r] \in DOMAIN tokens
      BY <1>1 DEF AuthInv, RequestInOrder
<1>3. RequestInOrder(r)'
      BY <1>1, <1>2 DEF RequestInOrder
<1>4. \A q \in Requests \ {r} : Apart(r, q)' /\ Apart(q, r)'
      BY <1>1, <1>2, NothingIsWritten DEF Apart
<1> QED BY <1>1, <1>3, <1>4, OneRequestMoves

\* The row a token issued now gets.
LEMMA FreshRow ==
    ASSUME AuthInv, NEW s \in Sessions
    PROVE  /\ NewRow(Fresh(s)) /\ Fresh(s).session = s /\ Fresh(s) # None
           /\ Fresh(s).expires = now + Lifetime
<1>1. now + Lifetime \in Nat
      BY TimesAreTimes DEF AuthInv, RowsAreRows
<1>2. Fresh(s) = [session |-> s, expires |-> now + Lifetime, reason |-> None, revokedAt |-> 0]
      BY DEF Fresh, Expiry
<1>3. Fresh(s) \in Token
      BY <1>1, <1>2 DEF Token
<1> QED BY <1>1, <1>2, <1>3, NoneIsNothing DEF NewRow

LEMMA InsertKeepsInv == ASSUME AuthInv, NEW r \in Requests, InsertLogin(r) PROVE AuthInv'
<1>1. /\ pc[r] = "login" /\ pc'[r] = "commit" /\ lock'[r] = "share"
      /\ UNCHANGED <<tokens, now, shown, ended>>
      /\ \A q \in Requests \ {r} : /\ pc'[q] = pc[q] /\ lock'[q] = lock[q] /\ draft'[q] = draft[q]
                                   /\ lock[q] # "update"
      BY DEF InsertLogin, Goto, AuthInv, RequestTypes
<1>2. RequestTypes'
      BY DEF InsertLogin, Goto, AuthInv, RequestTypes, Labels
<1>3. PICK s \in Sessions \ Used :
         draft' = [draft EXCEPT ![r] = [NoChange EXCEPT !.insert = Fresh(s)]]
      BY DEF InsertLogin
<1>4. /\ draft'[r].revoke = {} /\ draft'[r].reason = None /\ draft'[r].insert = Fresh(s)
      BY <1>3 DEF NoChange, AuthInv, RequestTypes
<1>5. NewRow(Fresh(s)) /\ Fresh(s).session = s
      BY FreshRow
<1>6. NewRow(draft[r].insert)' /\ draft'[r].insert.session \notin Opened'
      BY <1>1, <1>3, <1>4, <1>5 DEF NewRow, Used, Opened
<1>7. RequestInOrder(r)'
      BY <1>1, <1>4, <1>6 DEF RequestInOrder, LoginDraft, NewRow
<1>8. \A q \in Requests \ {r} : Apart(r, q)' /\ Apart(q, r)'
  <2> SUFFICES ASSUME NEW q \in Requests \ {r} PROVE Apart(r, q)' /\ Apart(q, r)'
      OBVIOUS
  <2>1. draft[q].insert # None => draft[q].insert.session # s
        BY <1>3 DEF Used
  <2> QED BY <1>1, <1>4, <1>5, <2>1 DEF Apart
<1> QED BY <1>1, <1>2, <1>7, <1>8, OneRequestMoves

\* Only who holds the users row for itself writes under it.
LEMMA UnderTheLock ==
    ASSUME AuthInv, NEW r \in Requests, pc[r] \in {"rotate", "revoke"},
           lock'[r] \in {"update", "none"},
           \A q \in Requests \ {r} : lock'[q] = lock[q] /\ draft'[q] = draft[q]
    PROVE  \A q \in Requests \ {r} : Apart(r, q)' /\ Apart(q, r)'
<1> SUFFICES ASSUME NEW q \in Requests \ {r} PROVE Apart(r, q)' /\ Apart(q, r)'
    OBVIOUS
<1>1. lock[r] = "update"
      BY DEF AuthInv, RequestInOrder
<1>2. lock[q] = "none"
      BY <1>1 DEF AuthInv, Apart
<1>3. draft[q] = NoChange
  <2>1. pc[q] # "commit"
        BY <1>2 DEF AuthInv, RequestInOrder, LoginDraft, RotationDraft, LogoutDraft, ReuseDraft
  <2> QED BY <2>1 DEF AuthInv, RequestInOrder
<1> QED BY <1>2, <1>3, NothingIsWritten DEF Apart

LEMMA RefreshKeepsInv == ASSUME AuthInv, NEW r \in Requests, Refresh(r) PROVE AuthInv'
<1>1. /\ pc[r] = "rotate" /\ lock[r] = "update" /\ draft[r] = NoChange
      /\ shown[r] \in DOMAIN tokens /\ UNCHANGED <<tokens, now, ended>>
      /\ now \in Nat
      BY DEF Refresh, AuthInv, RequestInOrder, RowsAreRows
<1>2. CASE /\ Row(r).reason = None
           /\ draft' = [draft EXCEPT ![r] = Rotation(shown[r])]
           /\ pc' = [pc EXCEPT ![r] = "commit"] /\ UNCHANGED <<shown, lock>>
  <2>1. /\ Row(r) \in Token /\ Row(r).session \in Sessions /\ Row(r).expires <= now + Lifetime
        BY <1>1, RowTypes DEF Row, AuthInv, RowsAreRows
  <2>2. /\ draft'[r] = Rotation(shown[r])
        /\ draft'[r].revoke = {shown[r]} /\ draft'[r].reason = "rotated" /\ draft'[r].at = now
        /\ draft'[r].insert = Fresh(Row(r).session)
        BY <1>2 DEF Rotation, Row, AuthInv, RequestTypes
  <2>3. /\ NewRow(Fresh(Row(r).session)) /\ Fresh(Row(r).session).session = Row(r).session
        /\ Fresh(Row(r).session).expires = now + Lifetime
        BY <2>1, FreshRow
  <2>4. NewRow(draft[r].insert)'
        BY <1>1, <2>2, <2>3 DEF NewRow
  <2>5. Row(r)' = Row(r)
        BY <1>1, <1>2 DEF Row
  <2>6. RotationDraft(r)'
        BY <1>1, <1>2, <2>1, <2>2, <2>3, <2>4, <2>5 DEF RotationDraft
  <2>7. RequestInOrder(r)' /\ RequestTypes'
        BY <1>2, <2>6 DEF RequestInOrder, AuthInv, RequestTypes, Labels
  <2>8. \A q \in Requests \ {r} : /\ pc'[q] = pc[q] /\ shown'[q] = shown[q]
                                  /\ lock'[q] = lock[q] /\ draft'[q] = draft[q]
        BY <1>2 DEF AuthInv, RequestTypes
  <2> QED BY <1>1, <1>2, <2>7, <2>8, UnderTheLock, OneRequestMoves
<1>3. CASE /\ draft' = [draft EXCEPT ![r] = [revoke |-> DOMAIN tokens, reason |-> "reuse_detected",
                                             at |-> now, insert |-> None]]
           /\ pc' = [pc EXCEPT ![r] = "commit"] /\ UNCHANGED <<shown, lock>>
  <2>1. /\ draft'[r].revoke = DOMAIN tokens /\ draft'[r].reason = "reuse_detected"
        /\ draft'[r].at = now /\ draft'[r].insert = None
        BY <1>3 DEF AuthInv, RequestTypes
  <2>2. ReuseDraft(r)'
        BY <1>1, <1>3, <2>1 DEF ReuseDraft
  <2>3. RequestInOrder(r)' /\ RequestTypes'
        BY <1>3, <2>2 DEF RequestInOrder, AuthInv, RequestTypes, Labels
  <2>4. \A q \in Requests \ {r} : /\ pc'[q] = pc[q] /\ shown'[q] = shown[q]
                                  /\ lock'[q] = lock[q] /\ draft'[q] = draft[q]
        BY <1>3 DEF AuthInv, RequestTypes
  <2> QED BY <1>1, <1>3, <2>3, <2>4, UnderTheLock, OneRequestMoves
<1>4. CASE Done(r) /\ lock' = [lock EXCEPT ![r] = "none"] /\ UNCHANGED draft
  <2>1. /\ pc'[r] = "idle" /\ lock'[r] = "none" /\ draft'[r] = NoChange /\ RequestTypes'
        /\ \A q \in Requests \ {r} : /\ pc'[q] = pc[q] /\ shown'[q] = shown[q]
                                     /\ lock'[q] = lock[q] /\ draft'[q] = draft[q]
        BY <1>1, <1>4 DEF Done, Goto, AuthInv, RequestTypes, Labels
  <2>2. RequestInOrder(r)'
        BY <2>1 DEF RequestInOrder
  <2> QED BY <1>1, <2>1, <2>2, OutOfTheWay, OneRequestMoves
<1> QED BY <1>2, <1>3, <1>4 DEF Refresh, Goto

LEMMA LogoutKeepsInv == ASSUME AuthInv, NEW r \in Requests, Logout(r) PROVE AuthInv'
<1>1. /\ pc[r] = "revoke" /\ lock[r] = "update" /\ shown[r] \in DOMAIN tokens /\ now \in Nat
      /\ UNCHANGED <<tokens, now, shown, lock, ended>> /\ pc' = [pc EXCEPT ![r] = "commit"]
      BY DEF Logout, Goto, AuthInv, RequestInOrder, RowsAreRows
<1>2. /\ draft'[r].revoke = RowsOf(Row(r).session) /\ draft'[r].reason = "logout"
      /\ draft'[r].at = now /\ draft'[r].insert = None
      BY DEF Logout, AuthInv, RequestTypes
<1>3. LogoutDraft(r)'
      BY <1>1, <1>2 DEF LogoutDraft, RowsOf, Row
<1>4. RequestInOrder(r)' /\ RequestTypes'
      BY <1>1, <1>3 DEF RequestInOrder, Logout, AuthInv, RequestTypes, Labels
<1>5. \A q \in Requests \ {r} : /\ pc'[q] = pc[q] /\ shown'[q] = shown[q]
                                /\ lock'[q] = lock[q] /\ draft'[q] = draft[q]
      BY <1>1 DEF Logout, AuthInv, RequestTypes
<1> QED BY <1>1, <1>4, <1>5, UnderTheLock, OneRequestMoves

LEMMA AbortKeepsInv == ASSUME AuthInv, NEW r \in Requests, Abort(r) PROVE AuthInv'
<1>1. /\ pc'[r] = "idle" /\ lock'[r] = "none" /\ draft'[r] = NoChange /\ RequestTypes'
      /\ UNCHANGED <<tokens, now, ended>>
      /\ \A q \in Requests \ {r} : /\ pc'[q] = pc[q] /\ shown'[q] = shown[q]
                                   /\ lock'[q] = lock[q] /\ draft'[q] = draft[q]
      BY DEF Abort, Unlock, Done, Goto, AuthInv, RequestTypes, Labels
<1>2. RequestInOrder(r)'
      BY <1>1 DEF RequestInOrder
<1> QED BY <1>1, <1>2, OutOfTheWay, OneRequestMoves

LEMMA TickKeepsInv == ASSUME AuthInv, Tick PROVE AuthInv'
<1>1. /\ UNCHANGED <<tokens, pc, shown, lock, draft, ended>> /\ now \in Nat /\ now' = now + 1
      BY DEF Tick, AuthInv, RowsAreRows
<1>2. RowsAreRows'
  <2>1. \A i \in DOMAIN tokens : tokens[i].expires \in Nat
        BY RowTypes DEF AuthInv, RowsAreRows
  <2> QED BY <1>1, <2>1, TimesAreTimes DEF AuthInv, RowsAreRows
<1>3. ASSUME NEW r \in Requests, NewRow(draft[r].insert) PROVE NewRow(draft[r].insert)'
  <2>1. draft[r].insert.expires \in Nat
        BY <1>3 DEF NewRow, Token
  <2> QED BY <1>1, <1>3, <2>1, TimesAreTimes DEF NewRow
<1>4. ASSUME NEW r \in Requests PROVE RequestInOrder(r)'
  <2>1. RequestInOrder(r)
        BY DEF AuthInv
  <2>2. NewRow(draft[r].insert) => NewRow(draft[r].insert)'
        BY <1>3
  <2> QED BY <1>1, <2>1, <2>2 DEF RequestInOrder, LoginDraft, RotationDraft, LogoutDraft,
             ReuseDraft, Row, RowsOf, Opened
<1>5. EndedAreOver' /\ RequestTypes' /\ \A r, q \in Requests : r # q => Apart(r, q)'
      BY <1>1 DEF AuthInv, EndedAreOver, RequestTypes, Opened, Apart
<1> QED BY <1>2, <1>4, <1>5 DEF AuthInv

-----------------------------------------------------------------------------
(* The step that changes the rows *)

LEMMA DraftIsOne ==
    ASSUME AuthInv, NEW r \in Requests, pc[r] = "commit"
    PROVE  LoginDraft(r) \/ RotationDraft(r) \/ LogoutDraft(r) \/ ReuseDraft(r)
BY DEF AuthInv, RequestInOrder

\* What a commit does to the rows there were, and the one row it may add.
LEMMA CommittedRows ==
    ASSUME AuthInv, NEW r \in Requests, Commit(r)
    PROVE  /\ tokens' \in Seq(Token)
           /\ \A i \in DOMAIN tokens :
                /\ i \in DOMAIN tokens'
                /\ tokens'[i].session = tokens[i].session
                /\ tokens'[i].expires = tokens[i].expires
                /\ tokens'[i].reason = None <=> tokens[i].reason = None /\ i \notin draft[r].revoke
           /\ draft[r].insert = None => DOMAIN tokens' = DOMAIN tokens
           /\ draft[r].insert # None =>
                \E n \in Nat : /\ DOMAIN tokens' = DOMAIN tokens \cup {n} /\ n \notin DOMAIN tokens
                               /\ tokens'[n] = draft[r].insert
<1>1. tokens \in Seq(Token) /\ tokens' = Applied(draft[r]) /\ pc[r] = "commit"
      BY DEF Commit, AuthInv, RowsAreRows
<1>2. /\ draft[r].reason \in {None} \cup Reasons
      /\ draft[r].revoke # {} => draft[r].at \in Nat /\ draft[r].reason \in Reasons
      /\ draft[r].insert = None \/ draft[r].insert \in Token
      BY <1>1, DraftIsOne DEF LoginDraft, RotationDraft, LogoutDraft, ReuseDraft, NewRow, Reasons
<1> DEFINE change == draft[r]
<1> HIDE DEF change
<1>3. /\ tokens' \in Seq(Token)
      /\ \A i \in DOMAIN tokens : i \in DOMAIN tokens' /\
           tokens'[i] = IF i \in change.revoke THEN Revoked(tokens[i], change) ELSE tokens[i]
      /\ change.insert = None => DOMAIN tokens' = DOMAIN tokens
      /\ change.insert # None =>
           \E n \in Nat : /\ DOMAIN tokens' = DOMAIN tokens \cup {n} /\ n \notin DOMAIN tokens
                          /\ tokens'[n] = change.insert
      BY <1>1, <1>2, RowsAfterCommit DEF change
<1>4. ASSUME NEW i \in DOMAIN tokens
      PROVE  /\ i \in DOMAIN tokens'
             /\ tokens'[i].session = tokens[i].session
             /\ tokens'[i].expires = tokens[i].expires
             /\ tokens'[i].reason = None <=> tokens[i].reason = None /\ i \notin change.revoke
  <2>1. CASE i \in change.revoke
    <3>1. change.reason \in Reasons
          BY <1>2, <2>1 DEF change
    <3>2. tokens'[i] = Revoked(tokens[i], change)
          BY <1>3, <2>1
    <3>3. tokens[i] \in Token
          BY <1>1, RowTypes
    <3> QED BY <1>3, <2>1, <3>1, <3>2, <3>3, RowsKeepTheirSession
  <2>2. CASE i \notin change.revoke
        BY <1>3, <2>2
  <2> QED BY <2>1, <2>2
<1> QED BY <1>3, <1>4 DEF change

\* Until it commits, nobody but other logins stands beside it.
LEMMA BesideACommit ==
    ASSUME AuthInv, NEW r \in Requests, pc[r] = "commit", NEW q \in Requests \ {r}
    PROVE  /\ pc[q] \notin {"rotate", "revoke"}
           /\ pc[q] = "commit" => LoginDraft(q) /\ LoginDraft(r)
<1>1. lock[r] \in {"share", "update"} /\ (lock[r] = "share" => LoginDraft(r))
      BY DraftIsOne DEF LoginDraft, RotationDraft, LogoutDraft, ReuseDraft
<1>2. lock[q] # "update" /\ (lock[r] = "update" => lock[q] = "none")
  <2>1. Apart(r, q) /\ Apart(q, r)
        BY DEF AuthInv
  <2> QED BY <1>1, <2>1 DEF Apart
<1>3. pc[q] \notin {"rotate", "revoke"}
      BY <1>2 DEF AuthInv, RequestInOrder
<1>4. ASSUME pc[q] = "commit" PROVE LoginDraft(q) /\ LoginDraft(r)
  <2>1. LoginDraft(q)
        BY <1>2, <1>4, DraftIsOne DEF RotationDraft, LogoutDraft, ReuseDraft
  <2> QED BY <1>1, <1>2, <2>1 DEF LoginDraft
<1> QED BY <1>3, <1>4

LEMMA SessionsAfterCommit ==
    ASSUME AuthInv, NEW r \in Requests, Commit(r)
    PROVE  /\ draft[r].insert = None => Opened' = Opened
           /\ draft[r].insert # None => Opened' = Opened \cup {draft[r].insert.session}
<1>1. \A i \in DOMAIN tokens : i \in DOMAIN tokens' /\ tokens'[i].session = tokens[i].session
      BY CommittedRows
<1>2. CASE draft[r].insert = None
  <2>1. DOMAIN tokens' = DOMAIN tokens
        BY <1>2, CommittedRows
  <2> QED BY <1>1, <1>2, <2>1 DEF Opened
<1>3. CASE draft[r].insert # None
  <2>1. PICK n \in Nat : /\ DOMAIN tokens' = DOMAIN tokens \cup {n} /\ tokens'[n] = draft[r].insert
        BY <1>3, CommittedRows
  <2>2. Opened' = {tokens'[i].session : i \in DOMAIN tokens} \cup {tokens'[n].session}
        BY <2>1 DEF Opened
  <2>3. {tokens'[i].session : i \in DOMAIN tokens} = Opened
        BY <1>1 DEF Opened
  <2> QED BY <1>3, <2>1, <2>2, <2>3
<1> QED BY <1>2, <1>3

\* The sessions that a commit ends.
LEMMA WhoIsEnded ==
    ASSUME AuthInv, NEW r \in Requests, pc[r] = "commit"
    PROVE  /\ LoginDraft(r) \/ RotationDraft(r) => EndedBy(r) = {}
           /\ LogoutDraft(r) => EndedBy(r) = {Row(r).session}
           /\ ReuseDraft(r) => EndedBy(r) = Opened
BY NoneIsNothing DEF EndedBy, LoginDraft, RotationDraft, LogoutDraft, ReuseDraft, Reasons, Opened, Row

\* A commit that ends no session opens none that has ended.
LEMMA EndedStayOver ==
    ASSUME AuthInv, NEW r \in Requests, Commit(r), ended' = ended,
           draft[r].insert.session \notin ended
    PROVE  EndedAreOver'
<1>1. /\ ended \subseteq Opened
      /\ \A i \in DOMAIN tokens : tokens[i].session \in ended => tokens[i].reason # None
      BY DEF AuthInv, EndedAreOver
<1>2. ended \subseteq Opened'
      BY <1>1, SessionsAfterCommit
<1>3. ASSUME NEW i \in DOMAIN tokens', tokens'[i].session \in ended PROVE tokens'[i].reason # None
  <2>1. i \in DOMAIN tokens
        BY <1>3, CommittedRows
  <2> QED BY <1>1, <1>3, <2>1, CommittedRows
<1> QED BY <1>2, <1>3 DEF EndedAreOver

LEMMA CommitKeepsEnded == ASSUME AuthInv, NEW r \in Requests, Commit(r) PROVE EndedAreOver'
<1>1. /\ pc[r] = "commit" /\ ended' = ended \cup EndedBy(r)
      /\ ended \subseteq Opened /\ Opened \subseteq Opened'
      /\ \A i \in DOMAIN tokens : tokens[i].session \in ended => tokens[i].reason # None
      BY SessionsAfterCommit DEF Commit, AuthInv, EndedAreOver
<1>2. CASE LoginDraft(r)
  <2>1. ended' = ended /\ draft[r].insert.session \notin ended
        BY <1>1, <1>2, WhoIsEnded DEF LoginDraft
  <2> QED BY <1>1, <2>1, EndedStayOver
<1>3. CASE RotationDraft(r)
  <2>1. ended' = ended /\ draft[r].insert.session \notin ended
        BY <1>1, <1>3, WhoIsEnded DEF RotationDraft, Row
  <2> QED BY <1>1, <2>1, EndedStayOver
<1>4. CASE LogoutDraft(r)
  <2>1. /\ ended' = ended \cup {Row(r).session} /\ Row(r).session \in Opened
        /\ draft[r].insert = None /\ draft[r].revoke = RowsOf(Row(r).session)
        BY <1>1, <1>4, WhoIsEnded DEF LogoutDraft, Opened, Row
  <2>2. ASSUME NEW i \in DOMAIN tokens', tokens'[i].session \in ended'
        PROVE  tokens'[i].reason # None
    <3>1. i \in DOMAIN tokens /\ tokens[i].session \in ended'
          BY <2>1, <2>2, CommittedRows
    <3>2. CASE tokens[i].session \in ended
          BY <1>1, <3>1, <3>2, CommittedRows
    <3>3. CASE tokens[i].session = Row(r).session
          BY <2>1, <3>1, <3>3, CommittedRows DEF RowsOf
    <3> QED BY <2>1, <3>1, <3>2, <3>3
  <2> QED BY <1>1, <2>1, <2>2 DEF EndedAreOver
<1>5. CASE ReuseDraft(r)
  <2>1. ended' = ended \cup Opened /\ draft[r].insert = None /\ draft[r].revoke = DOMAIN tokens
        BY <1>1, <1>5, WhoIsEnded DEF ReuseDraft
  <2>2. \A i \in DOMAIN tokens' : tokens'[i].reason # None
        BY <2>1, CommittedRows
  <2> QED BY <1>1, <2>1, <2>2 DEF EndedAreOver
<1> QED BY <1>1, <1>2, <1>3, <1>4, <1>5, DraftIsOne

LEMMA CommitKeepsInv == ASSUME AuthInv, NEW r \in Requests, Commit(r) PROVE AuthInv'
<1>1. /\ pc[r] = "commit" /\ now' = now
      /\ pc'[r] = "idle" /\ lock'[r] = "none" /\ draft'[r] = NoChange /\ RequestTypes'
      /\ \A q \in Requests \ {r} : /\ pc'[q] = pc[q] /\ shown'[q] = shown[q]
                                   /\ lock'[q] = lock[q] /\ draft'[q] = draft[q]
      BY DEF Commit, Unlock, Done, Goto, AuthInv, RequestTypes, Labels
<1>2. RowsAreRows'
  <2>1. draft[r].insert # None => draft[r].insert.expires <= now + Lifetime
        BY <1>1, DraftIsOne DEF LoginDraft, RotationDraft, LogoutDraft, ReuseDraft, NewRow
  <2>2. now \in Nat /\ \A i \in DOMAIN tokens : tokens[i].expires <= now + Lifetime
        BY DEF AuthInv, RowsAreRows
  <2>3. \A i \in DOMAIN tokens' : tokens'[i].expires <= now + Lifetime
        BY <2>1, <2>2, CommittedRows
  <2> QED BY <1>1, <2>2, <2>3, CommittedRows DEF RowsAreRows
<1>3. EndedAreOver'
      BY CommitKeepsEnded
<1>4. RequestInOrder(r)'
      BY <1>1 DEF RequestInOrder
<1>5. ASSUME NEW q \in Requests \ {r} PROVE RequestInOrder(q)'
  <2>1. DOMAIN tokens \subseteq DOMAIN tokens'
        BY CommittedRows
  <2>2. RequestInOrder(q)
        BY DEF AuthInv
  <2>3. CASE pc[q] # "commit"
    <3>1. pc[q] \notin {"rotate", "revoke"}
          BY <1>1, BesideACommit
    <3> QED BY <1>1, <2>1, <2>2, <2>3, <3>1 DEF RequestInOrder
  <2>4. CASE pc[q] = "commit"
    <3>1. LoginDraft(q) /\ LoginDraft(r)
          BY <1>1, <2>4, BesideACommit
    <3>2. draft[q].insert # None /\ draft[r].insert # None
          BY <3>1, NoneIsNothing DEF LoginDraft, NewRow
    <3>3. draft[q].insert.session # draft[r].insert.session
      <4>1. Apart(q, r)
            BY DEF AuthInv
      <4> QED BY <3>2, <4>1 DEF Apart
    <3>4. draft[q].insert.session \notin Opened'
          BY <3>1, <3>2, <3>3, SessionsAfterCommit DEF LoginDraft
    <3>5. LoginDraft(q)'
          BY <1>1, <3>1, <3>4 DEF LoginDraft, NewRow
    <3> QED BY <1>1, <2>4, <3>5 DEF RequestInOrder
  <2> QED BY <2>3, <2>4
<1>6. ASSUME NEW p \in Requests, NEW q \in Requests, p # q PROVE Apart(p, q)'
  <2>1. CASE p = r \/ q = r
        BY <1>1, <1>6, <2>1, OutOfTheWay
  <2>2. CASE p # r /\ q # r
    <3>1. Apart(p, q)
          BY <1>6 DEF AuthInv
    <3> QED BY <1>1, <2>2, <3>1 DEF Apart
  <2> QED BY <2>1, <2>2
<1>7. \A q \in Requests : RequestInOrder(q)'
      BY <1>4, <1>5
<1> QED BY <1>1, <1>2, <1>3, <1>6, <1>7 DEF AuthInv

LEMMA StepKeepsAuthInv == AuthInv /\ [Next]_vars => AuthInv'
<1> SUFFICES ASSUME AuthInv, [Next]_vars PROVE AuthInv'
    OBVIOUS
<1>1. ASSUME NEW r \in Requests, Login(r) PROVE AuthInv'
      BY <1>1, LoginKeepsInv
<1>2. ASSUME NEW r \in Requests, NEW i \in Presentable, Present(r, i) PROVE AuthInv'
      BY <1>2, PresentKeepsInv
<1>3. ASSUME NEW r \in Requests, LockUser(r) PROVE AuthInv'
      BY <1>3, LockKeepsInv
<1>4. ASSUME NEW r \in Requests, InsertLogin(r) PROVE AuthInv'
      BY <1>4, InsertKeepsInv
<1>5. ASSUME NEW r \in Requests, Refresh(r) PROVE AuthInv'
      BY <1>5, RefreshKeepsInv
<1>6. ASSUME NEW r \in Requests, Logout(r) PROVE AuthInv'
      BY <1>6, LogoutKeepsInv
<1>7. ASSUME NEW r \in Requests, Commit(r) PROVE AuthInv'
      BY <1>7, CommitKeepsInv
<1>8. ASSUME NEW r \in Requests, Abort(r) PROVE AuthInv'
      BY <1>8, AbortKeepsInv
<1>9. CASE Tick
      BY <1>9, TickKeepsInv
<1>10. CASE UNCHANGED vars
  <2>1. RowsAreRows' /\ RequestTypes' /\ EndedAreOver'
        BY <1>10 DEF vars, AuthInv, RowsAreRows, RequestTypes, EndedAreOver, Opened
  <2>2. ASSUME NEW r \in Requests PROVE RequestInOrder(r)'
    <3>1. RequestInOrder(r)
          BY DEF AuthInv
    <3> QED BY <1>10, <3>1 DEF vars, RequestInOrder, LoginDraft, RotationDraft, LogoutDraft,
               ReuseDraft, NewRow, Row, RowsOf, Opened
  <2>3. \A r, q \in Requests : r # q => Apart(r, q)'
        BY <1>10 DEF vars, AuthInv, Apart
  <2> QED BY <2>1, <2>2, <2>3 DEF AuthInv
<1> QED BY <1>1, <1>2, <1>3, <1>4, <1>5, <1>6, <1>7, <1>8, <1>9, <1>10 DEF Next, Wait, Serve, Quiet

LEMMA NobodyHasCalled == Init => AuthInv
<1> SUFFICES ASSUME Init PROVE AuthInv
    OBVIOUS
<1>1. tokens = <<>> /\ now = 0 /\ ended = {} /\ DOMAIN tokens = {}
      BY DEF Init
<1>2. /\ DOMAIN draft = Requests
      /\ \A r \in Requests : pc[r] = "idle" /\ lock[r] = "none" /\ draft[r] = NoChange
      BY DEF Init
<1>3. RowsAreRows /\ EndedAreOver
      BY <1>1 DEF RowsAreRows, EndedAreOver
<1>4. RequestTypes
      BY DEF Init, RequestTypes, Labels
<1>5. \A r \in Requests : RequestInOrder(r)
      BY <1>2 DEF RequestInOrder
<1>6. \A r, q \in Requests : Apart(r, q)
      BY <1>2, NothingIsWritten DEF Apart
<1> QED BY <1>3, <1>4, <1>5, <1>6 DEF AuthInv

\* Whoever changes rows holds the users row, and what it has read of them is
\* still so when it commits.
THEOREM AuthInvariant == Spec => []AuthInv
BY NobodyHasCalled, StepKeepsAuthInv, PTL DEF Spec

-----------------------------------------------------------------------------
(* What a learner is promised *)

\* No access token of a session that a logout or a reuse detection has ended is
\* accepted again, however the requests of the session overlapped.
THEOREM EndedForGood == Spec => []AccessEndsWithSession
<1>1. AuthInv => AccessEndsWithSession
  <2> SUFFICES ASSUME AuthInv, NEW i \in DOMAIN tokens, tokens[i].session \in ended
               PROVE  ~SessionIsActive(tokens[i].session)
      BY DEF AccessEndsWithSession, Accepted
  <2>1. Live(tokens[i].session) = {}
        BY DEF AuthInv, EndedAreOver, Live, RowsOf
  <2> QED BY <2>1 DEF SessionIsActive
<1> QED BY <1>1, AuthInvariant, PTL

\* Only a commit changes the rows or ends a session.
LEMMA OnlyCommitsWrite ==
    ASSUME [Next]_vars, \A r \in Requests : ~Commit(r)
    PROVE  UNCHANGED <<tokens, ended>>
BY DEF Next, vars, Wait, Serve, Quiet, Login, Present, LockUser, InsertLogin, Refresh, Logout,
       Abort, Tick

\* The live rows of a session after a commit: those it did not revoke, and the
\* one it may have inserted.
LEMMA LiveAfterCommit ==
    ASSUME AuthInv, NEW r \in Requests, Commit(r), NEW s
    PROVE  /\ \A i \in Live(s) \ draft[r].revoke :
                i \in Live(s)' /\ tokens'[i].expires = tokens[i].expires
           /\ \A i \in Live(s)' : \/ i \in Live(s) \ draft[r].revoke
                                  \/ /\ draft[r].insert # None
                                     /\ draft[r].insert.session = s
           /\ draft[r].insert # None /\ draft[r].insert.session = s =>
                \E n \in Live(s)' : tokens'[n].expires = draft[r].insert.expires
<1>1. \A i \in Live(s) \ draft[r].revoke : i \in Live(s)' /\ tokens'[i].expires = tokens[i].expires
      BY CommittedRows DEF Live, RowsOf
<1>2. draft[r].insert # None => draft[r].insert.reason = None
      BY DraftIsOne DEF Commit, LoginDraft, RotationDraft, LogoutDraft, ReuseDraft, NewRow
<1>3. ASSUME draft[r].insert # None, draft[r].insert.session = s
      PROVE  \E n \in Live(s)' : tokens'[n].expires = draft[r].insert.expires
  <2>1. PICK n \in Nat : /\ DOMAIN tokens' = DOMAIN tokens \cup {n}
                         /\ tokens'[n] = draft[r].insert
        BY <1>3, CommittedRows
  <2>2. n \in Live(s)'
        BY <1>2, <1>3, <2>1 DEF Live, RowsOf
  <2> QED BY <2>1, <2>2
<1>4. ASSUME NEW i \in Live(s)', i \notin Live(s) \ draft[r].revoke
      PROVE  draft[r].insert # None /\ draft[r].insert.session = s
  <2>1. i \in DOMAIN tokens' /\ tokens'[i].session = s /\ tokens'[i].reason = None
        BY <1>4 DEF Live, RowsOf
  <2>2. i \notin DOMAIN tokens
        BY <1>4, <2>1, CommittedRows DEF Live, RowsOf
  <2>3. draft[r].insert # None
        BY <2>1, <2>2, CommittedRows
  <2>4. PICK n \in Nat : /\ DOMAIN tokens' = DOMAIN tokens \cup {n}
                         /\ tokens'[n] = draft[r].insert
        BY <2>3, CommittedRows
  <2> QED BY <2>1, <2>2, <2>3, <2>4
<1> QED BY <1>1, <1>3, <1>4

\* A session that is active stays so unless time passes or a logout or a reuse
\* detection ends it: the commit that revokes a refresh token brings the next one.
THEOREM RotationLeavesNoGap == Spec => RotationIsSeamless
<1>1. ASSUME AuthInv, [Next]_vars, NEW s \in Sessions, SessionIsActive(s), now' = now
      PROVE  SessionIsActive(s)' \/ s \in ended'
  <2>1. CASE \A r \in Requests : ~Commit(r)
        BY <1>1, <2>1, OnlyCommitsWrite DEF SessionIsActive, Live, RowsOf
  <2>2. ASSUME NEW r \in Requests, Commit(r) PROVE SessionIsActive(s)' \/ s \in ended'
    <3>1. PICK i \in Live(s) : tokens[i].expires > now
          BY <1>1 DEF SessionIsActive
    <3>2. pc[r] = "commit" /\ ended' = ended \cup EndedBy(r) /\ s \in Opened
          BY <2>2 DEF Commit, Opened, Live, RowsOf
    <3>3. CASE i \notin draft[r].revoke
          BY <1>1, <2>2, <3>1, <3>3, LiveAfterCommit DEF SessionIsActive
    <3>4. CASE i \in draft[r].revoke /\ RotationDraft(r)
      <4>1. i = shown[r] /\ Row(r) = tokens[i] /\ tokens[i].session = s
            BY <3>4 DEF RotationDraft, Row, Live, RowsOf
      <4>2. /\ draft[r].insert # None /\ draft[r].insert.session = s
            /\ draft[r].insert.expires >= tokens[i].expires /\ draft[r].insert.expires \in Nat
            BY <3>4, <4>1, NoneIsNothing DEF RotationDraft, NewRow, Token
      <4>3. PICK n \in Live(s)' : tokens'[n].expires = draft[r].insert.expires
            BY <1>1, <2>2, <4>2, LiveAfterCommit
      <4>4. tokens[i].expires \in Nat /\ now \in Nat
            BY <1>1, RowTypes DEF Live, RowsOf, AuthInv, RowsAreRows
      <4>5. tokens'[n].expires > now'
            BY <1>1, <3>1, <4>2, <4>3, <4>4
      <4> QED BY <4>5 DEF SessionIsActive
    <3>5. CASE i \in draft[r].revoke /\ LogoutDraft(r)
          BY <1>1, <3>2, <3>5, WhoIsEnded DEF LogoutDraft, Live, RowsOf
    <3>6. CASE ReuseDraft(r)
          BY <1>1, <3>2, <3>6, WhoIsEnded
    <3>7. ~(i \in draft[r].revoke /\ LoginDraft(r))
          BY DEF LoginDraft
    <3> QED BY <1>1, <3>2, <3>3, <3>4, <3>5, <3>6, <3>7, DraftIsOne
  <2> QED BY <2>1, <2>2
<1>2. AuthInv /\ [Next]_vars => [StaysActive]_vars
      BY <1>1 DEF StaysActive
<1> QED BY <1>2, AuthInvariant, PTL DEF Spec, RotationIsSeamless

-----------------------------------------------------------------------------
(* The refinement *)

\* A login commits a session's start, a logout its end, a reuse detection the end
\* of all of them, and a rotation nothing a session could tell.
LEMMA CommitIsAStep ==
    ASSUME AuthInv, NEW r \in Requests, Commit(r)
    PROVE  Abstract!Next \/ Status' = Status
<1>1. pc[r] = "commit"
      BY DEF Commit
<1>2. CASE LoginDraft(r)
  <2>0. PICK x : x = draft[r].insert.session
        OBVIOUS
  <2>1. /\ draft[r].insert # None /\ draft[r].revoke = {} /\ x \in Sessions /\ x \notin Opened
        BY <2>0, <1>2, NoneIsNothing DEF LoginDraft, NewRow, Token
  <2>2. Opened' = Opened \cup {x}
        BY <2>0, <2>1, SessionsAfterCommit
  <2>3. Live(x)' # {}
        BY <2>0, <2>1, LiveAfterCommit
  <2>4. \A s \in Sessions \ {x} : Live(s)' # {} <=> Live(s) # {}
        BY <2>0, <2>1, LiveAfterCommit
  <2>5. Status' = [Status EXCEPT ![x] = "live"] /\ Status[x] = "unused"
        BY <2>1, <2>2, <2>3, <2>4 DEF Status
  <2> QED BY <2>1, <2>5 DEF Abstract!Next, Abstract!Start
<1>3. CASE RotationDraft(r)
  <2>0. PICK x : x = Row(r).session
        OBVIOUS
  <2>1. /\ draft[r].insert # None /\ draft[r].insert.session = x
        /\ x \in Opened /\ shown[r] \in Live(x) /\ draft[r].revoke = {shown[r]}
        BY <2>0, <1>3, NoneIsNothing DEF RotationDraft, NewRow, Row, Live, RowsOf, Opened
  <2>2. Opened' = Opened
        BY <2>0, <2>1, SessionsAfterCommit
  <2>3. ASSUME NEW s, s # x PROVE shown[r] \notin Live(s)
        BY <2>1, <2>3 DEF Live, RowsOf
  <2>4. Live(x)' # {}
        BY <2>0, <2>1, LiveAfterCommit
  <2>5. \A s \in Sessions \ {x} : Live(s)' # {} <=> Live(s) # {}
        BY <2>1, <2>3, LiveAfterCommit
  <2>6. \A s \in Sessions : Live(s)' # {} <=> Live(s) # {}
        BY <2>1, <2>4, <2>5
  <2> QED BY <2>2, <2>6 DEF Status
<1>4. CASE LogoutDraft(r)
  <2>0. PICK x : x = Row(r).session
        OBVIOUS
  <2>1. draft[r].insert = None /\ x \in Opened /\ x \in Sessions /\ draft[r].revoke = RowsOf(x)
        BY <2>0, <1>4, RowTypes DEF LogoutDraft, Row, Opened, AuthInv, RowsAreRows
  <2>2. Opened' = Opened
        BY <2>0, <2>1, SessionsAfterCommit
  <2>3. Live(x)' = {}
        BY <2>0, <2>1, LiveAfterCommit DEF Live
  <2>4. ASSUME NEW s, s # x PROVE Live(s) \ draft[r].revoke = Live(s)
        BY <2>1, <2>4 DEF Live, RowsOf
  <2>5. \A s \in Sessions \ {x} : Live(s)' # {} <=> Live(s) # {}
        BY <2>1, <2>4, LiveAfterCommit
  <2>6. CASE Live(x) = {}
        BY <2>1, <2>2, <2>3, <2>5, <2>6 DEF Status
  <2>7. CASE Live(x) # {}
    <3>1. Status' = [Status EXCEPT ![x] = "ended"] /\ Status[x] = "live"
          BY <2>1, <2>2, <2>3, <2>5, <2>7 DEF Status
    <3> QED BY <2>1, <3>1 DEF Abstract!Next, Abstract!End
  <2> QED BY <2>6, <2>7
<1>5. CASE ReuseDraft(r)
  <2>1. draft[r].insert = None /\ draft[r].revoke = DOMAIN tokens
        BY <1>5 DEF ReuseDraft
  <2>2. Opened' = Opened
        BY <2>1, SessionsAfterCommit
  <2>3. \A s : Live(s) \ DOMAIN tokens = {}
        BY DEF Live, RowsOf
  <2>4. \A s : Live(s)' = {}
        BY <2>1, <2>3, LiveAfterCommit
  <2>5. Status' = [s \in Sessions |-> IF Status[s] = "live" THEN "ended" ELSE Status[s]]
        BY <2>2, <2>4 DEF Status
  <2> QED BY <2>5 DEF Abstract!Next, Abstract!EndAll
<1> QED BY <1>1, <1>2, <1>3, <1>4, <1>5, DraftIsOne

\* The rows, their locks and the requests that overlap on them are sessions that
\* start, end and stay ended.
THEOREM LoginsAreSessions == Spec => ImplementsLoginSession
<1>1. Init => Abstract!Init
      BY DEF Init, Abstract!Init, Status, Opened
<1>2. AuthInv /\ [Next]_vars => [Abstract!Next]_Status
  <2> SUFFICES ASSUME AuthInv, [Next]_vars PROVE Abstract!Next \/ Status' = Status
      OBVIOUS
  <2>1. CASE \A r \in Requests : ~Commit(r)
        BY <2>1, OnlyCommitsWrite DEF Status, Opened, Live, RowsOf
  <2> QED BY <2>1, CommitIsAStep
<1> QED BY <1>1, <1>2, AuthInvariant, PTL DEF Spec, ImplementsLoginSession, Abstract!Spec
=============================================================================
