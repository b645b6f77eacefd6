----------------------------- MODULE AuthSessions -----------------------------
(***************************************************************************)
(* The refresh tokens of one learner: login, refresh and logout requests of *)
(* app/auth/routes.py that overlap, over the refresh_tokens rows of         *)
(* app/db/auth.py, while time passes and requests die before their commit.  *)
(*                                                                         *)
(* refresh and logout take the users row FOR UPDATE before they read what   *)
(* they will change; the row a login inserts takes it FOR KEY SHARE through *)
(* its foreign key.  Everything a transaction writes is seen at its commit. *)
(***************************************************************************)
EXTENDS Integers, Sequences, FiniteSets

CONSTANTS
    Requests,   \* slots for requests in flight at once
    Sessions,   \* the login sessions (sid) that may be opened
    None,
    Lifetime,   \* refresh_token_expire_days, in ticks
    AccessLife, \* access_token_expire_minutes
    Leeway,     \* jwt_leeway_seconds
    Grace,      \* refresh_reuse_grace_seconds
    MaxTokens,  \* bound: the tokens ever issued
    MaxTime     \* bound: the ticks of the clock

ASSUME TimesAreTimes ==
    /\ Lifetime \in Nat \ {0} /\ AccessLife \in Nat \ {0}
    /\ Leeway \in Nat /\ Grace \in Nat
    /\ MaxTokens \in Nat /\ MaxTime \in Nat

VARIABLES
    tokens,   \* the refresh_tokens rows, in the order they were committed
    now,      \* the clock
    pc,       \* where each request is
    shown,    \* the token each request presented
    lock,     \* how each request holds the users row
    draft,    \* what each request has written and not committed
    ended     \* sessions a committed logout or reuse detection has ended

vars == <<tokens, now, pc, shown, lock, draft, ended>>

Reasons == {"rotated", "logout", "reuse_detected"}

\* A row: reason None and revokedAt 0 while it is not revoked.
Token == [session : Sessions, expires : Nat, reason : {None} \cup Reasons,
          revokedAt : Nat]

ASSUME NoneIsNothing == None \notin Reasons /\ None \notin Token

\* The rows a transaction revokes unless they are revoked, and why and when; the
\* row it inserts.
Change == [revoke : SUBSET (1 .. MaxTokens), reason : {None} \cup Reasons,
           at : Nat, insert : {None} \cup Token]

NoChange == [revoke |-> {}, reason |-> None, at |-> 0, insert |-> None]

\* The expiry a refresh token is issued with.
Expiry == now + Lifetime

Fresh(s) == [session |-> s, expires |-> Expiry, reason |-> None, revokedAt |-> 0]

Init ==
    /\ tokens = <<>>
    /\ now = 0
    /\ pc = [r \in Requests |-> "idle"]
    /\ shown = [r \in Requests |-> 0]
    /\ lock = [r \in Requests |-> "none"]
    /\ draft = [r \in Requests |-> NoChange]
    /\ ended = {}

RowsOf(s) == {i \in DOMAIN tokens : tokens[i].session = s}

Live(s) == {i \in RowsOf(s) : tokens[i].reason = None}

\* session_is_active, asked on every authenticated request.
SessionIsActive(s) == \E i \in Live(s) : tokens[i].expires > now

\* The access token issued together with refresh token i lives for AccessLife
\* from the same moment.
AccessExpires(i) == tokens[i].expires - Lifetime + AccessLife

\* decode_token allows for a skew of the clocks.
Decodes(expires) == expires + Leeway > now

\* Mutant: a token that decodes is taken for a session that lives.
AcceptedByItself(i) == Decodes(AccessExpires(i))

\* get_current_user: the access token decodes and its session is active.
Accepted(i) == Decodes(AccessExpires(i)) /\ SessionIsActive(tokens[i].session)

Goto(r, label) == pc' = [pc EXCEPT ![r] = label]

\* The request is answered and forgets the token it was shown.
Done(r) ==
    /\ Goto(r, "idle")
    /\ shown' = [shown EXCEPT ![r] = 0]

-----------------------------------------------------------------------------
(* Requests *)

InFlight == {r \in Requests : pc[r] # "idle"}

Opened == {tokens[i].session : i \in DOMAIN tokens}

Used == Opened
        \cup {draft[r].insert.session : r \in {q \in Requests : draft[q].insert # None}}

\* The bounds on the tokens and the sessions ever issued.
RoomForAToken == Len(tokens) + Cardinality(InFlight) < MaxTokens
RoomForASession ==
    Cardinality({r \in Requests : pc[r] = "login"}) < Cardinality(Sessions \ Used)

\* login, up to the check of the password.
Login(r) ==
    /\ pc[r] = "idle"
    /\ RoomForAToken
    /\ RoomForASession
    /\ Goto(r, "login")
    /\ UNCHANGED <<tokens, now, shown, lock, draft, ended>>

\* The token of a request, from its body or the browser's cookie, may be any that
\* was ever issued: a body names what it likes and a cookie may be an old one.
Presentable == DOMAIN tokens

\* refresh and logout with a token that was issued.  refresh decodes it first,
\* and an expired one goes no further.
Present(r, i) ==
    /\ pc[r] = "idle"
    /\ RoomForAToken
    /\ shown' = [shown EXCEPT ![r] = i]
    /\ \/ Decodes(tokens[i].expires) /\ Goto(r, "refresh")
       \/ Goto(r, "logout")
    /\ UNCHANGED <<tokens, now, lock, draft, ended>>

\* Mutant: logout revokes the rows it sees without waiting for the lock.
LockUserUnlessLogout(r) ==
    /\ pc[r] \in {"refresh", "logout"}
    /\ pc[r] = "refresh" => \A q \in Requests \ {r} : lock[q] = "none"
    /\ lock' = [lock EXCEPT ![r] = "update"]
    /\ Goto(r, IF pc[r] = "refresh" THEN "rotate" ELSE "revoke")
    /\ UNCHANGED <<tokens, now, shown, draft, ended>>

\* lock_user
LockUser(r) ==
    /\ pc[r] \in {"refresh", "logout"}
    /\ \A q \in Requests \ {r} : lock[q] = "none"
    /\ lock' = [lock EXCEPT ![r] = "update"]
    /\ Goto(r, IF pc[r] = "refresh" THEN "rotate" ELSE "revoke")
    /\ UNCHANGED <<tokens, now, shown, draft, ended>>

\* The row of a new session, whose foreign key waits for a locked user.
InsertLogin(r) ==
    /\ pc[r] = "login"
    /\ \A q \in Requests \ {r} : lock[q] # "update"
    /\ lock' = [lock EXCEPT ![r] = "share"]
    /\ \E s \in Sessions \ Used :
         draft' = [draft EXCEPT ![r] = [NoChange EXCEPT !.insert = Fresh(s)]]
    /\ Goto(r, "commit")
    /\ UNCHANGED <<tokens, now, shown, ended>>

\* A rotated token shown again so soon is a retry or a second tab.
WithinGrace(row) == row.revokedAt > now - Grace

\* Mutant: rotation commits before the next token's row is written.
RotationInHalves(i) ==
    [revoke |-> {i}, reason |-> "rotated", at |-> now, insert |-> None]

\* The presented token is revoked and its session gets the next one.
Rotation(i) ==
    [revoke |-> {i}, reason |-> "rotated", at |-> now,
     insert |-> Fresh(tokens[i].session)]

\* A rotated token shown again after the grace period ends every session.
ReuseDetected(row) == row.reason = "rotated" /\ ~WithinGrace(row)

\* The row of the token shown, in whatever state it is by now.
Row(r) == tokens[shown[r]]

\* refresh, under the lock: the three ways it goes on, and the refusals (a
\* duplicate within the grace period, a token revoked otherwise, one expired
\* since it was decoded), which change nothing.
Refresh(r) ==
    LET row == Row(r) IN
    /\ pc[r] = "rotate"
    /\ IF row.reason = None /\ row.expires > now
       THEN /\ draft' = [draft EXCEPT ![r] = Rotation(shown[r])]
            /\ Goto(r, "commit")
            /\ UNCHANGED <<shown, lock>>
       ELSE IF ReuseDetected(row)
       THEN /\ draft' = [draft EXCEPT ![r] =
                           [revoke |-> DOMAIN tokens, reason |-> "reuse_detected",
                            at |-> now, insert |-> None]]
            /\ Goto(r, "commit")
            /\ UNCHANGED <<shown, lock>>
       ELSE /\ Done(r)
            /\ lock' = [lock EXCEPT ![r] = "none"]
            /\ UNCHANGED draft
    /\ UNCHANGED <<tokens, now, ended>>

\* logout, under the lock: revoke_session.
Logout(r) ==
    /\ pc[r] = "revoke"
    /\ draft' = [draft EXCEPT ![r] =
                   [revoke |-> RowsOf(Row(r).session),
                    reason |-> "logout", at |-> now, insert |-> None]]
    /\ Goto(r, "commit")
    /\ UNCHANGED <<tokens, now, shown, lock, ended>>

\* UPDATE ... WHERE revoked IS false: a revoked row keeps its reason and time.
Revoked(row, change) ==
    IF row.reason # None THEN row
    ELSE [row EXCEPT !.reason = change.reason, !.revokedAt = change.at]

\* The rows after a commit.
Applied(change) ==
    LET updated == [i \in DOMAIN tokens |->
                      IF i \in change.revoke THEN Revoked(tokens[i], change)
                                             ELSE tokens[i]]
    IN  IF change.insert = None THEN updated ELSE Append(updated, change.insert)

Unlock(r) == lock' = [lock EXCEPT ![r] = "none"]

\* The sessions the request ends once it has committed.
EndedBy(r) ==
    {s \in Opened : \/ draft[r].reason = "logout" /\ s = Row(r).session
                    \/ draft[r].reason = "reuse_detected"}

Commit(r) ==
    /\ pc[r] = "commit"
    /\ tokens' = Applied(draft[r])
    /\ ended' = ended \cup EndedBy(r)
    /\ draft' = [draft EXCEPT ![r] = NoChange]
    /\ Unlock(r)
    /\ Done(r)
    /\ UNCHANGED now

\* The request dies before its commit and is rolled back.
Abort(r) ==
    /\ pc[r] # "idle"
    /\ draft' = [draft EXCEPT ![r] = NoChange]
    /\ Unlock(r)
    /\ Done(r)
    /\ UNCHANGED <<tokens, now, ended>>

Tick ==
    /\ now < MaxTime
    /\ now' = now + 1
    /\ UNCHANGED <<tokens, pc, shown, lock, draft, ended>>

\* No request is in flight: the learner may come back or not.
Quiet == InFlight = {} /\ UNCHANGED vars

Wait(r) == LockUser(r) \/ InsertLogin(r)
Serve(r) == Refresh(r) \/ Logout(r) \/ Commit(r)

Next ==
    \/ \E r \in Requests : \/ Login(r)
                           \/ \E i \in Presentable : Present(r, i)
                           \/ Wait(r)
                           \/ Serve(r)
                           \/ Abort(r)
    \/ Tick
    \/ Quiet

\* The database grants a row lock in the order it was asked for, so a waiting
\* request is not overtaken for ever; nothing else a request does waits.
Fairness == \A r \in Requests : SF_vars(Wait(r)) /\ WF_vars(Serve(r))

Spec == Init /\ [][Next]_vars /\ Fairness

-----------------------------------------------------------------------------
(* Properties *)

Labels == {"idle", "login", "refresh", "logout", "rotate", "revoke", "commit"}

TypeOK ==
    /\ tokens \in Seq(Token)
    /\ Len(tokens) <= MaxTokens
    /\ \A i \in DOMAIN tokens : tokens[i].reason = None => tokens[i].revokedAt = 0
    /\ now \in Nat
    /\ pc \in [Requests -> Labels]
    /\ shown \in [Requests -> 0 .. MaxTokens]
    /\ lock \in [Requests -> {"none", "share", "update"}]
    /\ draft \in [Requests -> Change]
    /\ ended \subseteq Sessions

\* However requests overlap, a logout or a reuse detection ends a session for
\* good: no access token of it, however fresh, is accepted from its commit on, and
\* no rotation that raced it lets one in again.
AccessEndsWithSession ==
    \A i \in DOMAIN tokens : tokens[i].session \in ended => ~Accepted(i)

\* A page that calls the API while another tab refreshes is never told that its
\* session is revoked: only time, a logout or a reuse detection makes an active
\* session inactive.
StaysActive ==
    \A s \in Sessions :
       SessionIsActive(s) /\ now' = now => SessionIsActive(s)' \/ s \in ended'

RotationIsSeamless == [][StaysActive]_vars

Status == [s \in Sessions |->
             IF s \notin Opened THEN "unused"
             ELSE IF Live(s) # {} THEN "live" ELSE "ended"]

Abstract == INSTANCE LoginSession WITH status <- Status

\* The rows and their locks implement sessions that start, end and stay ended.
ImplementsLoginSession == Abstract!Spec
=============================================================================
