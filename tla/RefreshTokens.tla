--------------------------- MODULE RefreshTokens ---------------------------
(***************************************************************************)
(* The refresh tokens of one user (application/auth.py): a login stores    *)
(* one, a refresh revokes the one it was called with and stores another, a *)
(* logout revokes, and the clean-up at the end of an auto-resume run       *)
(* deletes what is stale.  Every call has a session of its own.            *)
(***************************************************************************)
EXTENDS ReadCommitted, Naturals

CONSTANTS
  Calls,      \* the calls that will be made; a token is named after the call that signs it
  Ttl,        \* REFRESH_TOKEN_TTL, in days
  Retention,  \* REVOKED_TOKEN_RETENTION, in days
  LastDay     \* bound: the days that pass

ASSUME CallsAssumption == Free \notin Calls /\ "auto_resume" \notin Calls
ASSUME DaysAssumption == Ttl \in Nat /\ Retention \in Nat /\ LastDay \in Nat

VARIABLES
  tokens,  \* the table refresh_tokens by the signing call, NoToken where there is no row
  call,    \* call[c]: where a call is, and what it was called with
  sent,    \* the tokens that answers have carried
  today

tokenVars == <<tokens, call, sent, today>>

NoToken == [exists |-> FALSE, revoked |-> FALSE, created |-> 0, expires |-> 0]
NewToken == [exists |-> TRUE, revoked |-> FALSE, created |-> today, expires |-> today + Ttl]

TokensInit ==
  /\ tokens = Committed([t \in Calls |-> NoToken])
  /\ call = [c \in Calls |-> [pc |-> "new", op |-> "login", with |-> {}]]
  /\ sent = {}
  /\ today = 0

CallAt(c, pc) == call[c].pc = pc
CallGoto(c, pc) == call' = [call EXCEPT ![c].pc = pc]

\* A login, of a user who is known or has just been inserted.
LoginCalled(c) ==
  /\ CallAt(c, "new")
  /\ call' = [call EXCEPT ![c].pc = "issue"]
  /\ UNCHANGED <<tokens, sent, today>>

\* refresh and logout come with a token the client once got.
RefreshCalled(c, t) ==
  /\ CallAt(c, "new") /\ t \in sent
  /\ call' = [call EXCEPT ![c] = [@ EXCEPT !.pc = "load", !.op = "refresh", !.with = {t}]]
  /\ UNCHANGED <<tokens, sent, today>>

LogoutCalled(c, t) ==
  /\ CallAt(c, "new") /\ t \in sent
  /\ call' = [call EXCEPT ![c] = [@ EXCEPT !.pc = "revoke", !.op = "logout", !.with = {t}]]
  /\ UNCHANGED <<tokens, sent, today>>

\* The three checks of refresh; the signature expires with the row.
Load(c, t) ==
  /\ CallAt(c, "load") /\ t \in call[c].with
  /\ LET row == View(tokens, c, t)
         accepted == row.exists /\ ~row.revoked /\ row.expires >= today
     IN CallGoto(c, IF accepted THEN "revoke" ELSE "refused")
  /\ UNCHANGED <<tokens, sent, today>>

Revoke_committed(c, t) ==  \* mutant: revoke has a transaction of its own
  /\ CallAt(c, "revoke") /\ t \in call[c].with
  /\ ~Locked(tokens, c, t)
  /\ tokens' = Publish(Put(tokens, c, t, [tokens.live[t] EXCEPT !.revoked = TRUE]), c)
  /\ CallGoto(c, IF call[c].op = "refresh" THEN "issue" ELSE "commit")
  /\ UNCHANGED <<sent, today>>

\* An UPDATE by token: a row that has been deleted meanwhile, or is not committed
\* yet, is no error.
Revoke(c, t) ==
  /\ CallAt(c, "revoke") /\ t \in call[c].with
  /\ tokens.live[t].exists => ~Locked(tokens, c, t)
  /\ tokens' = IF tokens.live[t].exists
               THEN Put(tokens, c, t, [tokens.live[t] EXCEPT !.revoked = TRUE])
               ELSE tokens
  /\ CallGoto(c, IF call[c].op = "refresh" THEN "issue" ELSE "commit")
  /\ UNCHANGED <<sent, today>>

\* The jti makes the signed token a new one.
Issue(c) ==
  /\ CallAt(c, "issue")
  /\ tokens' = Put(tokens, c, c, NewToken)
  /\ CallGoto(c, "answer")
  /\ UNCHANGED <<sent, today>>

\* The answer is on its way before get_services commits.
Answer(c) ==
  /\ CallAt(c, "answer")
  /\ sent' = sent \cup {c}
  /\ CallGoto(c, "commit")
  /\ UNCHANGED <<tokens, today>>

CommitCall(c) ==
  /\ CallAt(c, "commit")
  /\ tokens' = Publish(tokens, c)
  /\ CallGoto(c, "done")
  /\ UNCHANGED <<sent, today>>

\* The API process dies, or the database ends the transaction.
CallDies(c) ==
  /\ call[c].pc \notin {"new", "done", "refused", "failed"}
  /\ tokens' = Discard(tokens, {c})
  /\ CallGoto(c, "failed")
  /\ UNCHANGED <<sent, today>>

Stale(row) ==
  row.exists /\ ((row.revoked /\ row.created + Retention < today) \/ row.expires < today)

\* delete_stale is one DELETE and the last statement before the run's commit; it
\* waits for the rows that calls hold.
delete_stale ==
  LET stale == {t \in Calls : Stale(tokens.live[t])} IN
  /\ stale # {} /\ \A t \in stale : tokens.lock[t] = Free
  /\ tokens' = Publish(PutAll(tokens, "auto_resume", stale, NoToken), "auto_resume")
  /\ UNCHANGED <<call, sent, today>>

DayPasses ==
  /\ today < LastDay /\ today' = today + 1
  /\ UNCHANGED <<tokens, call, sent>>

CallStep(c) ==
  \/ Issue(c) \/ Answer(c) \/ CommitCall(c)
  \/ \E t \in Calls : Load(c, t) \/ Revoke(c, t)

CallArrives(c) ==
  \/ LoginCalled(c)
  \/ \E t \in Calls : RefreshCalled(c, t) \/ LogoutCalled(c, t)

TokensNext ==
  \/ delete_stale \/ DayPasses
  \/ \E c \in Calls : CallArrives(c) \/ CallStep(c) \/ CallDies(c)

TokensSpec == TokensInit /\ [][TokensNext]_tokenVars
-----------------------------------------------------------------------------
Valid == {t \in Calls : tokens.live[t].exists /\ ~tokens.live[t].revoked
                           /\ tokens.live[t].expires >= today}

\* A user who can refresh can go on doing so: overlapping refreshes, crashes and
\* the clean-up never take the last valid token away.  Only a logout does, or
\* the days the token has.
SessionSurvives ==
  [][(Valid # {} /\ Valid' = {} /\ today' = today) =>
        \E c \in Calls : /\ call[c].op = "logout"
                         /\ call[c].pc = "commit" /\ call'[c].pc = "done"]_tokenVars
=============================================================================
