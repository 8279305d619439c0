--------------------------------- MODULE Accounts ---------------------------------
(***************************************************************************)
(* How one user signs in and out (routes/auth.ts, and the suspension in    *)
(* routes/adminPlatform.ts): logins by password and by provider, the       *)
(* rotation of refresh tokens, logout, the ways to end sessions, linked    *)
(* identities.  A browser keeps one refresh cookie and may run several     *)
(* tabs; each await of the server is a step of its own and nothing is      *)
(* locked.  A session row is named by its refresh token, which is unique.  *)
(* An access token outlives what made it by minutes, so whoever signed in  *)
(* once may call the authenticated routes.                                 *)
(***************************************************************************)
EXTENDS Integers, FiniteSets

CONSTANTS
    Calls,        \* requests in flight at once
    Workloads,    \* the initial rows, the operations that occur, and the bounds on
                  \* operations and faults
    Browsers,
    Tokens,       \* refresh tokens ever made: 1..n
    Providers     \* identity providers

ASSUME TokensType == IsFiniteSet(Tokens) /\ Tokens = 1..Cardinality(Tokens)

\* The browsers that are signed in at first hold the first tokens.
ASSUME WorkloadsType == \A w \in Workloads :
    /\ w.losses \in Nat /\ w.cookie \in [Browsers -> Tokens \union {0}]
    /\ \E k \in Tokens \union {0} : {w.cookie[b] : b \in Browsers} \ {0} = 1..k

VARIABLES
    load,         \* the workload of this behaviour
    call,         \* the local state of each request in flight
    faults,       \* calls and answers that may still be lost
    left,         \* operations left that somebody may start
    status,       \* User.status
    password,     \* how often User.passwordHash was changed
    identities,   \* the providers with an Account row
    session,      \* the Session row of each token
    cookie,       \* the refresh cookie of each browser, or 0
    access,       \* the browsers that were given an access token
    raced,        \* history: families two requests were about at once
    ended         \* history: families ended by a logout or for a token used twice

callVars == <<load, call, faults, left>>
userVars == <<status, password, identities>>
browserVars == <<cookie, access>>
historyVars == <<raced, ended>>
vars == <<callVars, userVars, session, browserVars, historyVars>>

Idle == [pc |-> "idle", op |-> "none", by |-> "none", token |-> 0, with |-> "none",
         pw |-> 0, seen |-> "none", rows |-> {}, met |-> {}]
NoRow == [state |-> "none", family |-> 0, from |-> 0, pw |-> 0, old |-> FALSE,
          met |-> {}]
At(c, p) == call[c].pc = p
Alive == {t \in Tokens : session[t].state \in {"live", "used"}}
Continue(c, p) == call' = [call EXCEPT ![c].pc = p]
Done(c) == call' = [call EXCEPT ![c] = Idle]
Pass(c, holds, next) == IF holds THEN Continue(c, next) ELSE Done(c)
Carried == UNCHANGED <<load, faults, left>>
SessionsOnly == Carried /\ UNCHANGED <<userVars, browserVars>>
Unseen == Carried /\ UNCHANGED <<userVars, session, browserVars, historyVars>>

FirstStep == [login |-> "credentials", oauth |-> "identity", refresh |-> "find",
              logout |-> "find", revoke |-> "find", others |-> "list",
              password |-> "verify", unlink |-> "identity", link |-> "identity",
              suspend |-> "status", restore |-> "status"]
Watched == {"password", "suspend"}
OfFamily(op) == op \in {"refresh", "logout"}

\* A request starts; what it overlaps with is remembered.
Start(c, op, b, t, p) ==
    LET others == {d \in Calls \ {c} : call[d].op # "none"}
        rivals == {d \in others : /\ OfFamily(op) /\ OfFamily(call[d].op)
                                  /\ session[call[d].token].family = session[t].family}
    IN /\ At(c, "idle") /\ op \in load.ops /\ left > 0 /\ left' = left - 1
       /\ call' = [d \in Calls |->
            IF d = c THEN [Idle EXCEPT !.pc = FirstStep[op], !.op = op, !.by = b, !.token = t,
                               !.with = p, !.pw = password,
                               !.met = {call[e].op : e \in others} \intersect Watched]
            ELSE IF d \in others THEN [call[d] EXCEPT !.met = @ \union ({op} \intersect Watched)]
            ELSE call[d]]
       /\ raced' = IF rivals = {} THEN raced ELSE raced \union {session[t].family}
       /\ UNCHANGED <<load, faults, userVars, session, browserVars, ended>>

Starts(c) ==
    \/ \E b \in Browsers :
        \/ cookie[b] = 0 /\ Start(c, "login", b, 0, "none")
        \/ \E p \in Providers : cookie[b] = 0 /\ Start(c, "oauth", b, 0, p)
        \/ \E op \in {"refresh", "logout"} : cookie[b] # 0 /\ Start(c, op, b, cookie[b], "none")
        \/ b \in access /\ \E op \in {"others", "password"} : Start(c, op, b, cookie[b], "none")
        \/ b \in access /\ \E t \in Alive : Start(c, "revoke", b, t, "none")
        \/ b \in access /\ \E op \in {"link", "unlink"}, p \in Providers : Start(c, op, b, 0, p)
    \/ \E op \in {"suspend", "restore"} : Start(c, op, "none", 0, "none")
-----------------------------------------------------------------------------
(* Signing in *)

\* The row is read once: the password is compared, the status checked.
CheckCredentials(c) ==
    /\ At(c, "credentials")
    /\ Pass(c, call[c].pw = password /\ status = "ACTIVE", "create")
    /\ Unseen

FindIdentity(c) ==
    LET linked == call[c].with \in identities IN
    /\ At(c, "identity")
    /\ CASE call[c].op = "unlink" -> Pass(c, linked, "count")
         [] call[c].op = "link" -> Pass(c, ~linked, "link")
         [] OTHER -> Continue(c, IF linked THEN "owner" ELSE "match")
    /\ Unseen

\* Mutant: a user who returns is not looked at.
WelcomeBack(c) ==
    \/ At(c, "owner") /\ Continue(c, "create") /\ Unseen
    \/ /\ At(c, "match") /\ Unseen
       /\ call' = [call EXCEPT ![c].pc = "link", ![c].seen = status, ![c].pw = password]

\* The user the identity belongs to, or whose verified address it names.
ReadUser(c) ==
    /\ \/ /\ At(c, "owner")
          /\ call' = [call EXCEPT ![c] = IF status # "ACTIVE" THEN Idle
                                         ELSE [@ EXCEPT !.pc = "create", !.pw = password]]
       \/ /\ At(c, "match")
          /\ call' = [call EXCEPT ![c].pc = "link", ![c].seen = status, ![c].pw = password]
    /\ Unseen

\* A provider's identity belongs to one user: the second insert of it fails.
LinkIdentity(c) ==
    /\ At(c, "link")
    /\ identities' = identities \union {call[c].with}
    /\ Pass(c, call[c].with \notin identities /\ call[c].op = "oauth"
               /\ call[c].seen = "ACTIVE", "create")
    /\ Carried /\ UNCHANGED <<status, password, session, browserVars, historyVars>>

NextToken == 1 + Cardinality({t \in Tokens : session[t].state # "none"})

FirstRow(c) == [NoRow EXCEPT !.state = "live", !.family = NextToken, !.pw = call[c].pw,
                             !.met = call[c].met \intersect {"password"}]

\* The row a login makes, with a family of its own, or a rotation, in the family of the
\* token that was presented.
NewRow(c) ==
    IF call[c].op # "refresh" THEN FirstRow(c)
    ELSE [session[call[c].token] EXCEPT !.state = "live", !.from = call[c].token, !.old = FALSE,
                                        !.met = @ \union (call[c].met \intersect {"password"})]

CreateSession(c) ==
    /\ At(c, "create") /\ NextToken \in Tokens
    /\ session' = [session EXCEPT ![NextToken] = NewRow(c)]
    /\ call' = [call EXCEPT ![c].pc = "set", ![c].token = NextToken]
    /\ SessionsOnly /\ UNCHANGED historyVars
-----------------------------------------------------------------------------
(* Rotation, logout and the ends of sessions *)

FindSession(c) ==
    LET row == session[call[c].token] IN
    /\ At(c, "find")
    /\ CASE call[c].token \notin Alive -> IF call[c].op = "logout" THEN Continue(c, "clear")
                                          ELSE Done(c)
         [] call[c].op # "refresh" -> Continue(c, "discard")
         [] row.state = "used" -> Continue(c, "list")
         [] OTHER -> Continue(c, IF row.old THEN "discard" ELSE "account")
    /\ Unseen

\* The database is asked for the account's status at every rotation.
CheckAccount(c) ==
    /\ At(c, "account") /\ Continue(c, IF status = "ACTIVE" THEN "mark" ELSE "discard")
    /\ Unseen

\* Mutant: the token stays good.
MarkNothing(c) == At(c, "mark") /\ Continue(c, "create") /\ Unseen

\* The row is marked by its id, whatever became of it since.
MarkUsed(c) ==
    /\ At(c, "mark") /\ Continue(c, "create")
    /\ session' = [session EXCEPT ![call[c].token].state = IF @ = "live" THEN "used" ELSE @]
    /\ SessionsOnly /\ UNCHANGED historyVars

Deleted(t) == session' = [session EXCEPT ![t].state = "gone"]

\* One row is deleted; a refresh and a logout take the cookie away.
Discard(c) ==
    LET t == call[c].token IN
    /\ At(c, "discard") /\ Deleted(t)
    /\ IF call[c].op = "revoke" THEN Done(c) ELSE Continue(c, "clear")
    /\ ended' = IF call[c].op = "logout" /\ session[t].state = "live"
                THEN ended \union {session[t].family} ELSE ended
    /\ SessionsOnly /\ UNCHANGED raced

\* Mutant: only the rows that were used.
UsedTargets(c) == {t \in Alive \ {call[c].token} : session[t].state = "used"}

\* The rows a request is going to delete: the family of a token used twice, every other
\* session that has not expired, every other session.
Targets(c) ==
    CASE call[c].op = "refresh" ->
            {t \in Alive : session[t].family = session[call[c].token].family}
      [] call[c].op = "others" -> {t \in Alive \ {call[c].token} : ~session[t].old}
      [] OTHER -> Alive \ {call[c].token}

List(c) ==
    /\ At(c, "list")
    /\ IF Targets(c) # {}
       THEN call' = [call EXCEPT ![c].pc = "delete", ![c].rows = Targets(c)]
       ELSE IF call[c].op = "refresh" THEN Continue(c, "clear") ELSE Done(c)
    /\ ended' = IF Targets(c) = {} /\ call[c].op = "refresh"
                THEN ended \union {session[call[c].token].family} ELSE ended
    /\ SessionsOnly /\ UNCHANGED <<session, raced>>

\* Row by row; a family is read again until nothing is left of it.
Delete(c) ==
    /\ At(c, "delete")
    /\ \E t \in call[c].rows :
        /\ Deleted(t)
        /\ call' = [call EXCEPT ![c] =
             IF call[c].rows # {t} THEN [@ EXCEPT !.rows = call[c].rows \ {t}]
             ELSE IF call[c].op = "refresh" THEN [@ EXCEPT !.pc = "list", !.rows = {}]
             ELSE Idle]
    /\ SessionsOnly /\ UNCHANGED historyVars

VerifyPassword(c) ==
    /\ At(c, "verify") /\ Pass(c, call[c].pw = password, "write")
    /\ Unseen

\* The session of the caller counts as one of the new password.
WritePassword(c) ==
    LET t == call[c].token IN
    /\ At(c, "write") /\ Continue(c, "list")
    /\ password' = password + 1
    /\ session' = [u \in Tokens |-> IF u = t THEN [session[u] EXCEPT !.pw = password + 1]
                                    ELSE session[u]]
    /\ Carried /\ UNCHANGED <<status, identities, browserVars, historyVars>>
-----------------------------------------------------------------------------
(* Identities, suspension, and what the network and the clock do *)

\* Mutant: the identities are not counted.
CountNothing(c) == At(c, "count") /\ Continue(c, "unlink") /\ Unseen

CountIdentities(c) ==
    /\ At(c, "count") /\ Pass(c, Cardinality(identities) > 1, "unlink")
    /\ Unseen

UnlinkIdentity(c) ==
    /\ At(c, "unlink") /\ Done(c)
    /\ identities' = identities \ {call[c].with}
    /\ Carried /\ UNCHANGED <<status, password, session, browserVars, historyVars>>

ReadStatus(c) ==
    /\ At(c, "status")
    /\ IF call[c].op = "restore" /\ status = "ACTIVE" THEN Done(c)
       ELSE call' = [call EXCEPT ![c].pc = "compare", ![c].seen = status]
    /\ Unseen

\* The status is compared and set in one statement.
SetStatus(c) ==
    /\ At(c, "compare")
    /\ IF status # call[c].seen THEN Done(c) /\ UNCHANGED status
       ELSE IF call[c].op = "suspend" THEN status' = "SUSPENDED" /\ Continue(c, "one")
       ELSE status' = "ACTIVE" /\ Done(c)
    /\ Carried /\ UNCHANGED <<password, identities, session, browserVars, historyVars>>

\* delete() removes one row, whichever it finds first (auth.ts:333).
DeleteOne(c) ==
    /\ At(c, "one") /\ Done(c)
    /\ IF Alive = {} THEN UNCHANGED session ELSE \E t \in Alive : Deleted(t)
    /\ SessionsOnly /\ UNCHANGED historyVars

\* The answer arrives with its cookie.
Receive(c) ==
    /\ call[c].pc \in {"set", "clear"} /\ Done(c)
    /\ cookie' = [cookie EXCEPT ![call[c].by] = IF At(c, "set") THEN call[c].token ELSE 0]
    /\ access' = IF At(c, "set") THEN access \union {call[c].by} ELSE access
    /\ Carried /\ UNCHANGED <<userVars, session, historyVars>>

\* A request dies with its process, or its answer is lost.
Lose(c) ==
    /\ call[c].pc # "idle" /\ faults > 0 /\ faults' = faults - 1
    /\ Done(c)
    /\ UNCHANGED <<load, left, userVars, session, browserVars, historyVars>>

Expire(t) ==
    /\ "expire" \in load.ops /\ t \in Alive /\ ~session[t].old
    /\ session' = [session EXCEPT ![t].old = TRUE]
    /\ UNCHANGED <<callVars, userVars, browserVars, historyVars>>

Step(c) ==
    \/ CheckCredentials(c) \/ FindIdentity(c) \/ ReadUser(c) \/ LinkIdentity(c)
    \/ CreateSession(c) \/ FindSession(c) \/ CheckAccount(c) \/ MarkUsed(c) \/ Discard(c)
    \/ List(c) \/ Delete(c) \/ VerifyPassword(c) \/ WritePassword(c) \/ CountIdentities(c)
    \/ UnlinkIdentity(c) \/ ReadStatus(c) \/ SetStatus(c) \/ DeleteOne(c) \/ Receive(c)

Next == (\E c \in Calls : Starts(c) \/ Step(c) \/ Lose(c)) \/ (\E t \in Tokens : Expire(t))

Init ==
    /\ load \in Workloads
    /\ call = [c \in Calls |-> Idle] /\ faults = load.losses /\ left = load.left
    /\ status = "ACTIVE" /\ password = 0 /\ identities = load.identities
    /\ cookie = load.cookie /\ access = {b \in Browsers : cookie[b] # 0}
    /\ session = [t \in Tokens |-> IF \E b \in Browsers : cookie[b] = t
                                   THEN [NoRow EXCEPT !.state = "live", !.family = t] ELSE NoRow]
    /\ raced = {} /\ ended = {}

Spec == Init /\ [][Next]_vars
-----------------------------------------------------------------------------
(* Properties *)

\* A refresh token is exchanged for one other, unless two requests had it at once
\* (auth.ts:315-410).
OneSuccessor ==
    \A t, u \in Tokens : session[t].from # 0 /\ session[t].from = session[u].from
        => t = u \/ session[t].family \in raced

\* When the password was changed, the sessions of the old one are over but for the
\* caller's and those of requests that met the change (auth.ts:583-626).
PasswordEndsSessions ==
    faults = load.losses /\ (\A c \in Calls : call[c].op # "password") =>
        \A t \in Alive : session[t].pw = password \/ "password" \in session[t].met

\* A family that a logout or a token used twice put an end to has no good token, unless
\* another rotation or logout of it was running (auth.ts:325-357, 433-446).
EndedStaysEnded ==
    \A t \in Tokens : session[t].state = "live" /\ session[t].family \in ended
        => session[t].family \in raced

\* A suspended user gets no session, unless the request met the suspension
\* (auth.ts:267-272, 366-383, 1110-1124).
SuspendedGetsNothing ==
    [][\A t \in Tokens : session[t].state = "none" /\ session'[t].state # "none" =>
          \/ status = "ACTIVE"
          \/ \E c \in Calls : At(c, "create") /\ "suspend" \in call[c].met]_vars
=============================================================================
