----------------------------- MODULE AccountsProofs -----------------------------
(***************************************************************************)
(* What holds of one user's sessions however many requests interleave.     *)
(***************************************************************************)
EXTENDS Accounts, FiniteSetTheorems, TLAPS

(* What holds between the steps *)

Places == {"idle", "credentials", "identity", "owner", "match", "link", "create", "set", "find",
           "account", "mark", "discard", "clear", "list", "delete", "verify", "write", "count",
           "unlink", "status", "compare", "one"}
Ops == {"login", "oauth", "refresh", "logout", "revoke", "others", "password", "unlink", "link",
        "suspend", "restore"}
UserStatus == {"ACTIVE", "SUSPENDED"}
CallType == [pc : Places, op : Ops \union {"none"}, by : Browsers \union {"none"},
             token : Tokens \union {0}, with : Providers \union {"none"}, pw : Nat,
             seen : UserStatus \union {"none"}, rows : SUBSET Tokens, met : SUBSET Watched]
RowType == [state : {"none", "live", "used", "gone"}, family : Tokens \union {0},
            from : Tokens \union {0}, pw : Nat, old : BOOLEAN, met : SUBSET Watched]
Typed ==
    /\ load \in Workloads /\ call \in [Calls -> CallType]
    /\ faults \in Nat /\ faults <= load.losses
    /\ status \in UserStatus /\ password \in Nat
    /\ session \in [Tokens -> RowType]
    /\ cookie \in [Browsers -> Tokens \union {0}]

\* The tokens are numbered in the order they were made; the others have no row.
Made == {t \in Tokens : session[t].state # "none"}
Numbered == \E k \in Tokens \union {0} : Made = 1..k

InFlight(c) == call[c].op # "none"
Family(t) == session[t].family
FamilyOf(c) == Family(call[c].token)
Live(t) == session[t].state = "live"
Succeeded(t) == \E u \in Tokens : session[u].from = t

\* The place of a request, and the token it is about.
Fits(p, c) ==
    /\ p \in {"find", "discard", "set"} => call[c].token # 0
    /\ p \notin {"idle", "status", "compare", "one"} => call[c].by \in Browsers
    /\ p = "credentials" => call[c].op = "login"
    /\ p = "identity" => call[c].op \in {"oauth", "link", "unlink"}
    /\ p \in {"owner", "match"} => call[c].op = "oauth"
    /\ p \in {"account", "mark"} => call[c].op = "refresh"
    /\ p = "create" => call[c].op \in {"login", "oauth", "refresh"}
    /\ p \in {"verify", "write"} => call[c].op = "password"
PlaceKnown(c) ==
    /\ call[c].pc = "idle" <=> call[c].op = "none"
    /\ call[c].token # 0 => call[c].token \in Made
    /\ call[c].rows \subseteq Made
    /\ OfFamily(call[c].op) => call[c].token # 0
    /\ Fits(call[c].pc, c)

\* Requests that overlap know of each other.
Meet(c, d) ==
    InFlight(c) /\ InFlight(d) =>
        /\ call[d].op \in Watched => call[d].op \in call[c].met
        /\ OfFamily(call[c].op) /\ OfFamily(call[d].op) /\ FamilyOf(c) = FamilyOf(d)
            => FamilyOf(c) \in raced

\* Past the check of the account.
Cleared(c) == \/ call[c].pc \in {"mark", "create"}
              \/ call[c].pc = "link" /\ call[c].op = "oauth" /\ call[c].seen = "ACTIVE"
StatusKnown(c) == Cleared(c) => status = "ACTIVE" \/ "suspend" \in call[c].met

\* Nothing was lost, and the password a row or a request rests on is the current one
\* or the change was met.
Whole == faults = load.losses
Current(pw, met) == pw = password \/ "password" \in met
PasswordKnown(c) == call[c].op \notin {"none", "password"} => Current(call[c].pw, call[c].met)

\* A rotation that was let through.
Rotating(c) == call[c].op = "refresh" /\ call[c].pc \in {"account", "mark", "create"}
RotationKnown(c) ==
    LET t == call[c].token IN
    Rotating(c) =>
        /\ \/ Family(t) \in raced
           \/ /\ ~Succeeded(t) /\ Family(t) \notin ended
              /\ \A u \in Tokens : Live(u) /\ Family(u) = Family(t) => u = t
        /\ call[c].pc = "create" => ~Live(t)
        /\ Whole => Current(session[t].pw, session[t].met \union call[c].met)
CallKnown(c) == PlaceKnown(c) /\ StatusKnown(c) /\ PasswordKnown(c) /\ RotationKnown(c)

\* A row, its family and the row it succeeds.
RowKnown(t) ==
    /\ t \notin Made => session[t].from = 0
    /\ t \in Made => Family(t) \in Made
    /\ session[t].from # 0 => /\ session[t].from \in Made /\ ~Live(session[t].from)
                              /\ Family(session[t].from) = Family(t)

\* The rows a change of the password is still to delete.
Doomed(t) == \E p \in Calls :
    /\ call[p].op = "password"
    /\ \/ call[p].pc = "list" /\ call[p].token # t
       \/ call[p].pc = "delete" /\ t \in call[p].rows
RowCurrent(t) == t \in Alive /\ Whole => Current(session[t].pw, session[t].met) \/ Doomed(t)

OneLive == \A t, u \in Tokens :
    Live(t) /\ Live(u) /\ Family(t) = Family(u) => t = u \/ Family(t) \in raced

Inv ==
    /\ Typed /\ Numbered /\ ended \subseteq Made
    /\ \A b \in Browsers : cookie[b] # 0 => cookie[b] \in Made
    /\ \A c \in Calls : CallKnown(c)
    /\ \A c, d \in Calls : c # d => Meet(c, d)
    /\ \A t \in Tokens : RowKnown(t) /\ RowCurrent(t)
    /\ OneLive /\ OneSuccessor /\ EndedStaysEnded

-----------------------------------------------------------------------------
(* Calls and rows *)

\* There are finitely many tokens, and 0 is none of them.
LEMMA TokensCounted ==
    /\ Cardinality(Tokens) \in Nat /\ Tokens = 1..Cardinality(Tokens)
    /\ 0 \notin Tokens
<1>1. Cardinality(Tokens) \in Nat /\ Tokens = 1..Cardinality(Tokens)
  BY TokensType, FS_CardinalityType
<1> QED BY <1>1

\* A request that was not made has the type of a call.
LEMMA IdleType == Idle \in CallType /\ Idle.pc = "idle" /\ Idle.op = "none"
BY DEF Idle, CallType, Places

\* What each way of changing a call makes of it.
OnlyThis(c) == \A d \in Calls \ {c} : call'[d] = call[d]
\* A request that goes on only changes its place.
LEMMA ContinueCall ==
    ASSUME Typed, NEW c \in Calls, NEW p \in Places, Continue(c, p)
    PROVE  /\ call' \in [Calls -> CallType] /\ OnlyThis(c) /\ call'[c].pc = p
           /\ call'[c].op = call[c].op /\ call'[c].by = call[c].by
           /\ call'[c].token = call[c].token /\ call'[c].with = call[c].with
           /\ call'[c].pw = call[c].pw /\ call'[c].seen = call[c].seen
           /\ call'[c].rows = call[c].rows /\ call'[c].met = call[c].met
BY DEF Typed, CallType, Continue, OnlyThis

\* A request that is over leaves nothing behind.
LEMMA DoneCall ==
    ASSUME Typed, NEW c \in Calls, Done(c)
    PROVE  /\ call' \in [Calls -> CallType] /\ OnlyThis(c) /\ call'[c] = Idle
           /\ call'[c].pc = "idle" /\ call'[c].op = "none"
BY IdleType DEF Typed, Done, OnlyThis

\* A request that is over has nothing to know.
LEMMA IdleKnown ==
    ASSUME NEW c \in Calls, call'[c] = Idle
    PROVE  CallKnown(c)'
BY DEF Idle, CallKnown, PlaceKnown, Fits, StatusKnown, Cleared, PasswordKnown, RotationKnown,
   Rotating, OfFamily

\* The rows only fade: none is made, none comes back.
Fades ==
    \A t \in Tokens :
        /\ session'[t].family = session[t].family /\ session'[t].from = session[t].from
        /\ session'[t].met = session[t].met /\ session'[t].pw = session[t].pw
        /\ t \in Made' <=> t \in Made
        /\ Live(t)' => Live(t)
        /\ t \in Alive' => t \in Alive

\* What the rows say of families and successors survives when rows only fade.
LEMMA RowsFade ==
    ASSUME Inv, Typed', Fades, raced' = raced
    PROVE  Numbered' /\ (\A t \in Tokens : RowKnown(t)') /\ OneLive' /\ OneSuccessor' /\ Made' = Made
<1>1. Made' = Made
  BY DEF Fades, Made
<1>2. Numbered'
  BY <1>1 DEF Inv, Numbered
<1>3. ASSUME NEW t \in Tokens PROVE RowKnown(t)'
  <2>1. RowKnown(t) /\ session[t].from \in Tokens \union {0}
    BY DEF Inv, Typed, RowType
  <2> QED BY <1>1, <2>1 DEF Fades, RowKnown, Family, Made
<1>4. OneLive'
  BY DEF Inv, OneLive, Fades, Family
<1>5. OneSuccessor'
  BY DEF Inv, OneSuccessor, Fades
<1> QED BY <1>1, <1>2, <1>3, <1>4, <1>5

\* What a step of request c may do to the families it ends.
EndsOwn(c) ==
    \A f \in ended' :
        \/ f \in ended
        \/ /\ call[c].token \in Made /\ OfFamily(call[c].op) /\ f = FamilyOf(c)
           /\ f \in raced \/ \A t \in Tokens : Live(t)' => Family(t) # f

\* What other requests know stays true.
LEMMA OthersKnow ==
    ASSUME Inv, Typed', NEW c \in Calls, NEW d \in Calls \ {c}, Fades,
           UNCHANGED <<load, faults, password, raced>>, call'[d] = call[d],
           status' = status \/ status' = "ACTIVE" \/ call[c].op = "suspend", EndsOwn(c)
    PROVE  CallKnown(d)'
<1>0. CallKnown(d) /\ Meet(d, c) /\ Made' = Made
  BY RowsFade DEF Inv
<1>1. PlaceKnown(d)'
  BY <1>0 DEF CallKnown, PlaceKnown, Fits
<1>2. StatusKnown(d)'
  BY <1>0 DEF CallKnown, StatusKnown, Cleared, Meet, Watched, PlaceKnown, InFlight
<1>3. PasswordKnown(d)'
  BY <1>0 DEF CallKnown, PasswordKnown, Current
<1>4. RotationKnown(d)'
  <2>1. CASE ~Rotating(d)
    BY <2>1 DEF RotationKnown, Rotating
  <2>2. CASE Rotating(d)
    <3>1. PICK t \in Made : t = call[d].token
      BY <1>0, <2>2 DEF CallKnown, PlaceKnown, Rotating, OfFamily
    <3>2. t \in Tokens /\ Family(t)' = Family(t)
      BY <3>1 DEF Made, Family, Fades
    <3>3. Family(t) \in ended' => Family(t) \in ended \/ Family(t) \in raced
      BY <1>0, <2>2, <3>1 DEF EndsOwn, Meet, InFlight, Rotating, OfFamily, FamilyOf
    <3>4. Family(t) \in raced
          \/ /\ ~Succeeded(t) /\ Family(t) \notin ended
             /\ \A u \in Tokens : Live(u) /\ Family(u) = Family(t) => u = t
      BY <1>0, <2>2, <3>1 DEF CallKnown, RotationKnown
    <3>5. ~Succeeded(t) => ~Succeeded(t)'
      BY DEF Succeeded, Fades
    <3>6. \A u \in Tokens : Family(u)' = Family(u) /\ (Live(u)' => Live(u))
      BY DEF Fades, Family
    <3>7. Family(t)' \in raced'
          \/ /\ ~Succeeded(t)' /\ Family(t)' \notin ended'
             /\ \A u \in Tokens : Live(u)' /\ Family(u)' = Family(t)' => u = t
      BY <3>2, <3>3, <3>4, <3>5, <3>6
    <3>8. call[d].pc = "create" => ~Live(t)'
      BY <1>0, <2>2, <3>1, <3>2, <3>6 DEF CallKnown, RotationKnown
    <3>9. Whole' => Current(session[t].pw, session[t].met \union call[d].met)'
      BY <1>0, <2>2, <3>1, <3>2 DEF CallKnown, RotationKnown, Whole, Current, Fades
    <3> QED BY <3>1, <3>7, <3>8, <3>9 DEF RotationKnown
  <2> QED BY <2>1, <2>2
<1> QED BY <1>1, <1>2, <1>3, <1>4 DEF CallKnown

\* A step of one request that makes no row and changes no password.
LEMMA StepKept ==
    ASSUME Inv, Typed', NEW c \in Calls, OnlyThis(c), Fades,
           UNCHANGED <<load, faults, password, raced>>,
           status' = status \/ status' = "ACTIVE" \/ call[c].op = "suspend",
           \A b \in Browsers : cookie'[b] # 0 => cookie'[b] \in Made,
           CallKnown(c)',
           \/ call'[c].op = "none"
           \/ /\ call'[c].op = call[c].op /\ call'[c].met = call[c].met
              /\ call'[c].token = call[c].token,
           EndsOwn(c),
           \A t \in Tokens : Doomed(t) /\ t \in Alive' => Doomed(t)'
    PROVE  Inv'
<1>1. /\ Numbered' /\ (\A t \in Tokens : RowKnown(t)') /\ OneLive' /\ OneSuccessor'
      /\ Made' = Made
  BY RowsFade
<1>2. \A d \in Calls : CallKnown(d)'
  BY OthersKnow DEF OnlyThis
<1>3. ASSUME NEW d \in Calls, NEW e \in Calls, d # e PROVE Meet(d, e)'
  <2>1. ASSUME NEW x \in Calls, InFlight(x)'
        PROVE  /\ InFlight(x) /\ call'[x].op = call[x].op /\ call'[x].met = call[x].met
               /\ call'[x].token = call[x].token
               /\ OfFamily(call[x].op) => FamilyOf(x)' = FamilyOf(x)
    <3>1. /\ InFlight(x) /\ call'[x].op = call[x].op /\ call'[x].met = call[x].met
          /\ call'[x].token = call[x].token
      BY <2>1 DEF InFlight, OnlyThis
    <3>2. OfFamily(call[x].op) => call[x].token \in Tokens
      BY DEF Inv, CallKnown, PlaceKnown, Made
    <3> QED BY <3>1, <3>2 DEF FamilyOf, Family, Fades
  <2>2. Meet(d, e)
    BY <1>3 DEF Inv
  <2> QED BY <2>1, <2>2 DEF Meet
<1>4. ended' \subseteq Made'
  <2>1. ASSUME NEW t \in Made PROVE Family(t) \in Made
    BY <2>1 DEF Inv, RowKnown, Made
  <2> QED BY <1>1, <2>1 DEF Inv, EndsOwn, FamilyOf
<1>5. EndedStaysEnded'
  <2> SUFFICES ASSUME NEW t \in Tokens, Live(t)', Family(t)' \in ended'
               PROVE  Family(t)' \in raced'
    BY DEF EndedStaysEnded, Live, Family
  <2>1. Live(t) /\ Family(t)' = Family(t)
    BY DEF Fades, Family
  <2> QED BY <2>1 DEF Inv, EndedStaysEnded, EndsOwn, Live, Family
<1>6. ASSUME NEW t \in Tokens PROVE RowCurrent(t)'
  <2>1. RowCurrent(t)
    BY DEF Inv
  <2> QED BY <2>1 DEF RowCurrent, Fades, Whole, Current
<1> QED BY <1>1, <1>2, <1>3, <1>4, <1>5, <1>6 DEF Inv

\* Rows that stay as they are fade in no other way.
LEMMA NoneFades == ASSUME UNCHANGED session PROVE Fades
BY DEF Fades, Made, Live, Alive

\* A step that ends no family ends none of its own.
LEMMA EndsNone == ASSUME UNCHANGED ended, NEW c \in Calls PROVE EndsOwn(c)
BY DEF EndsOwn

\* Rows are doomed as before by a step of a request that deletes none for a password.
LEMMA DoomStays ==
    ASSUME NEW c \in Calls, OnlyThis(c),
           call[c].op # "password" \/ call[c].pc \notin {"list", "delete"}
    PROVE  \A t \in Tokens : Doomed(t) => Doomed(t)'
BY DEF Doomed, OnlyThis

\* A request that only reads and goes on, knowing what it read.
LEMMA QuietStep ==
    ASSUME Inv, NEW c \in Calls, call' \in [Calls -> CallType], OnlyThis(c),
           UNCHANGED <<load, faults, password, status, session, cookie, raced, ended>>,
           CallKnown(c)',
           \/ call'[c].op = "none"
           \/ /\ call'[c].op = call[c].op /\ call'[c].met = call[c].met
              /\ call'[c].token = call[c].token,
           call[c].op # "password" \/ call[c].pc \notin {"list", "delete"}
    PROVE  Inv'
<1>1. Typed'
  BY DEF Inv, Typed
<1>2. \A b \in Browsers : cookie'[b] # 0 => cookie'[b] \in Made
  BY DEF Inv
<1> QED BY <1>1, <1>2, StepKept, NoneFades, EndsNone, DoomStays

\* A request is over without having written anything.
LEMMA QuietDone ==
    ASSUME Inv, NEW c \in Calls, Done(c),
           UNCHANGED <<load, faults, password, status, session, cookie, raced, ended>>,
           call[c].op # "password" \/ call[c].pc \notin {"list", "delete"}
    PROVE  Inv'
<1>1. Typed
  BY DEF Inv
<1> QED BY <1>1, DoneCall, IdleKnown, QuietStep

\* A request that goes on to p knowing no more than before.
LEMMA QuietGoOn ==
    ASSUME Inv, NEW c \in Calls, NEW p \in Places, Continue(c, p),
           UNCHANGED <<load, faults, password, status, session, cookie, raced, ended>>,
           call[c].pc \notin {"idle", "list", "delete"}, Fits(p, c),
           p \notin {"idle", "account", "mark", "create", "link"}
    PROVE  Inv'
<1>1. Typed /\ CallKnown(c)
  BY DEF Inv
<1>2. /\ call' \in [Calls -> CallType] /\ OnlyThis(c) /\ call'[c].pc = p
      /\ call'[c].op = call[c].op /\ call'[c].by = call[c].by
      /\ call'[c].token = call[c].token /\ call'[c].with = call[c].with
      /\ call'[c].pw = call[c].pw /\ call'[c].seen = call[c].seen
      /\ call'[c].rows = call[c].rows /\ call'[c].met = call[c].met
  BY <1>1, ContinueCall
<1>3. CallKnown(c)'
  <2>1. PlaceKnown(c)'
    <3>1. Made' = Made
      BY DEF Made
    <3> QED BY <1>1, <1>2, <3>1 DEF CallKnown, PlaceKnown, Fits, OfFamily
  <2>2. StatusKnown(c)' /\ PasswordKnown(c)' /\ RotationKnown(c)'
    BY <1>1, <1>2 DEF CallKnown, StatusKnown, Cleared, PasswordKnown, Current, RotationKnown,
       Rotating
  <2> QED BY <2>1, <2>2 DEF CallKnown
<1> QED BY <1>2, <1>3, QuietStep
-----------------------------------------------------------------------------
(* The steps of requests that make no row *)

\* What a request that went on knows: its place, the status, the password, its rotation.
Same(c) ==
    /\ call'[c].op = call[c].op /\ call'[c].by = call[c].by /\ call'[c].token = call[c].token
    /\ call'[c].rows = call[c].rows /\ call'[c].met = call[c].met

\* A request signs in: the user was active, or is suspended meanwhile.
LEMMA ReadyToCreate ==
    ASSUME Inv, NEW c \in Calls, call[c].op \in {"login", "oauth"}, UNCHANGED <<session, password, status>>,
           call[c].pc \notin {"idle", "status", "compare", "one"},
           Same(c), call'[c].pc = "create", call'[c].pw \in {call[c].pw, password},
           status = "ACTIVE" \/ "suspend" \in call[c].met
    PROVE  CallKnown(c)'
<1>0. CallKnown(c) /\ Made' = Made
  BY DEF Inv, Made
<1>1. PlaceKnown(c)'
  BY <1>0 DEF CallKnown, PlaceKnown, Fits, Same, OfFamily
<1>2. StatusKnown(c)' /\ PasswordKnown(c)' /\ RotationKnown(c)'
  BY <1>0 DEF CallKnown, StatusKnown, PasswordKnown, Current, RotationKnown, Rotating, Same
<1> QED BY <1>1, <1>2 DEF CallKnown

\* A login reads the user once.
LEMMA CheckCredentialsKept ==
    ASSUME Inv, NEW c \in Calls, CheckCredentials(c)
    PROVE  Inv'
<1>0. Typed /\ CallKnown(c) /\ call[c].pc = "credentials"
      /\ call[c].op = "login"
      /\ UNCHANGED <<load, faults, password, status, session, cookie, raced, ended>>
  BY DEF Inv, CheckCredentials, At, Unseen, Carried, userVars, browserVars, historyVars,
     CallKnown, PlaceKnown, Fits
<1>1. CASE Done(c)
  BY <1>0, <1>1, QuietDone
<1>2. CASE Continue(c, "create") /\ call[c].pw = password /\ status = "ACTIVE"
  <2>1. /\ call' \in [Calls -> CallType] /\ OnlyThis(c) /\ call'[c].pc = "create"
        /\ Same(c) /\ call'[c].pw = call[c].pw
    BY <1>0, <1>2, ContinueCall DEF Places, Same
  <2>2. CallKnown(c)'
    BY <1>0, <1>2, <2>1, ReadyToCreate
  <2> QED BY <1>0, <2>1, <2>2, QuietStep DEF Same
<1> QED BY <1>1, <1>2 DEF CheckCredentials, Pass

\* A provider's identity is looked for; nothing is known of the user yet.
LEMMA FindIdentityKept ==
    ASSUME Inv, NEW c \in Calls, FindIdentity(c)
    PROVE  Inv'
<1>0. Typed /\ CallKnown(c) /\ call[c].pc = "identity"
      /\ UNCHANGED <<load, faults, password, status, session, cookie, raced, ended>>
  BY DEF Inv, FindIdentity, At, Unseen, Carried, userVars, browserVars, historyVars
<1>1. CASE Done(c)
  BY <1>0, <1>1, QuietDone
<1>2. CASE Continue(c, "count")
  BY <1>0, <1>2, QuietGoOn DEF Places, Fits, CallKnown, PlaceKnown
<1>3. CASE /\ call[c].op \in {"oauth", "link"} /\ \E p \in {"link", "owner", "match"} :
              Continue(c, p) /\ (p = "link" <=> call[c].op = "link")
  <2>1. PICK p \in {"link", "owner", "match"} :
            Continue(c, p) /\ (p = "link" <=> call[c].op = "link")
    BY <1>3
  <2>2. /\ call' \in [Calls -> CallType] /\ OnlyThis(c) /\ call'[c].pc = p
        /\ Same(c) /\ call'[c].pw = call[c].pw
    BY <1>0, <2>1, ContinueCall DEF Places, Same
  <2>3. CallKnown(c)'
    <3>1. Made' = Made
      BY <1>0 DEF Made
    <3>2. PlaceKnown(c)'
      BY <1>0, <1>3, <2>1, <2>2, <3>1 DEF CallKnown, PlaceKnown, Fits, Same, OfFamily
    <3>3. StatusKnown(c)' /\ PasswordKnown(c)' /\ RotationKnown(c)'
      BY <1>0, <1>3, <2>1, <2>2 DEF CallKnown, StatusKnown, Cleared, PasswordKnown, Current,
         RotationKnown, Rotating, Same
    <3> QED BY <3>2, <3>3 DEF CallKnown
  <2> QED BY <1>0, <2>2, <2>3, QuietStep DEF Same
<1>4. call[c].op \in {"oauth", "link", "unlink"}
  BY <1>0 DEF CallKnown, PlaceKnown, Fits
<1>5. \/ call[c].op = "unlink" /\ (Done(c) \/ Continue(c, "count"))
      \/ call[c].op = "link" /\ (Done(c) \/ Continue(c, "link"))
      \/ call[c].op = "oauth" /\ (Continue(c, "owner") \/ Continue(c, "match"))
  BY <1>4, Zenon DEF FindIdentity, Pass
<1> QED BY <1>1, <1>2, <1>3, <1>5

\* A user who signs in with a provider must be active.
LEMMA ReadUserKept ==
    ASSUME Inv, NEW c \in Calls, ReadUser(c)
    PROVE  Inv'
<1>0. /\ Typed /\ CallKnown(c) /\ call[c].pc \in {"owner", "match"} /\ call[c].op = "oauth"
      /\ UNCHANGED <<load, faults, password, status, session, cookie, raced, ended>>
  BY DEF Inv, ReadUser, At, Unseen, Carried, userVars, browserVars, historyVars, CallKnown,
     PlaceKnown, Fits
<1>1. CASE Done(c)
  BY <1>0, <1>1, QuietDone
<1>2. CASE /\ status = "ACTIVE"
           /\ call' = [call EXCEPT ![c] = [call[c] EXCEPT !.pc = "create", !.pw = password]]
  <2>1. /\ call' \in [Calls -> CallType] /\ OnlyThis(c) /\ call'[c].pc = "create"
        /\ Same(c) /\ call'[c].pw = password
    <3> DEFINE new == [call[c] EXCEPT !.pc = "create", !.pw = password]
    <3>1. call[c] \in CallType /\ password \in Nat /\ status \in UserStatus
      BY <1>0 DEF Typed
    <3>2. /\ new \in CallType /\ new.pc = "create" /\ new.pw = password
          /\ new.op = call[c].op /\ new.by = call[c].by /\ new.token = call[c].token
          /\ new.rows = call[c].rows /\ new.met = call[c].met
      BY <3>1 DEF CallType, Places
    <3>3. call' = [call EXCEPT ![c] = new]
      BY <1>2
    <3> HIDE DEF new
    <3> QED BY <1>0, <3>2, <3>3 DEF Typed, OnlyThis, Same
  <2>2. CallKnown(c)'
    BY <1>0, <1>2, <2>1, ReadyToCreate
  <2> QED BY <1>0, <2>1, <2>2, QuietStep DEF Same
<1>3. CASE call' = [call EXCEPT ![c].pc = "link", ![c].seen = status, ![c].pw = password]
  <2>1. /\ call' \in [Calls -> CallType] /\ OnlyThis(c) /\ call'[c].pc = "link"
        /\ Same(c) /\ call'[c].pw = password /\ call'[c].seen = status
    <3> DEFINE new == [call[c] EXCEPT !.pc = "link", !.seen = status, !.pw = password]
    <3>1. call[c] \in CallType /\ password \in Nat /\ status \in UserStatus
      BY <1>0 DEF Typed
    <3>2. /\ new \in CallType /\ new.pc = "link" /\ new.pw = password /\ new.seen = status
          /\ new.op = call[c].op /\ new.by = call[c].by /\ new.token = call[c].token
          /\ new.rows = call[c].rows /\ new.met = call[c].met
      BY <3>1 DEF CallType, Places
    <3>3. call' = [call EXCEPT ![c] = new]
      BY <1>3
    <3> HIDE DEF new
    <3> QED BY <1>0, <3>2, <3>3 DEF Typed, OnlyThis, Same
  <2>2. CallKnown(c)'
    <3>1. Made' = Made
      BY <1>0 DEF Made
    <3>2. PlaceKnown(c)'
      BY <1>0, <2>1, <3>1 DEF CallKnown, PlaceKnown, Fits, Same, OfFamily
    <3>3. StatusKnown(c)' /\ PasswordKnown(c)' /\ RotationKnown(c)'
      BY <1>0, <2>1 DEF CallKnown, StatusKnown, Cleared, PasswordKnown, Current, RotationKnown,
         Rotating, Same
    <3> QED BY <3>2, <3>3 DEF CallKnown
  <2> QED BY <1>0, <2>1, <2>2, QuietStep DEF Same
<1>4. CASE At(c, "owner") /\ call' = [call EXCEPT ![c] = IF status # "ACTIVE" THEN Idle
                                  ELSE [call[c] EXCEPT !.pc = "create", !.pw = password]]
  BY <1>1, <1>2, <1>4 DEF Done
<1> QED BY <1>3, <1>4 DEF ReadUser

\* The second insert of an identity fails, and an inactive user goes no further.
LEMMA LinkIdentityKept ==
    ASSUME Inv, NEW c \in Calls, LinkIdentity(c)
    PROVE  Inv'
<1>0. Typed /\ CallKnown(c) /\ call[c].pc = "link"
      /\ UNCHANGED <<load, faults, password, status, session, cookie, raced, ended>>
  BY DEF Inv, LinkIdentity, At, Carried, browserVars, historyVars
<1>1. CASE Done(c)
  BY <1>0, <1>1, QuietDone
<1>2. CASE Continue(c, "create") /\ call[c].op = "oauth" /\ call[c].seen = "ACTIVE"
  <2>1. /\ call' \in [Calls -> CallType] /\ OnlyThis(c) /\ call'[c].pc = "create"
        /\ Same(c) /\ call'[c].pw = call[c].pw
    BY <1>0, <1>2, ContinueCall DEF Places, Same
  <2>2. CallKnown(c)'
    BY <1>0, <1>2, <2>1, ReadyToCreate DEF CallKnown, StatusKnown, Cleared
  <2> QED BY <1>0, <2>1, <2>2, QuietStep DEF Same
<1> QED BY <1>1, <1>2 DEF LinkIdentity, Pass

\* The row of a token is looked for: the token of a rotation that goes on is the one live
\* token of its family, unless two requests are about the family.
LEMMA FindSessionKept ==
    ASSUME Inv, NEW c \in Calls, FindSession(c)
    PROVE  Inv'
<1> DEFINE t == call[c].token
<1>0. Typed /\ CallKnown(c) /\ call[c].pc = "find" /\ t \in Made /\ t \in Tokens
      /\ UNCHANGED <<load, faults, password, status, session, cookie, raced, ended>>
  BY DEF Inv, FindSession, At, Unseen, Carried, userVars, browserVars, historyVars, CallKnown,
     PlaceKnown, Fits, Made
<1>1. CASE Done(c)
  BY <1>0, <1>1, QuietDone
<1>2. CASE \E p \in {"clear", "discard", "list"} : Continue(c, p)
  <2>1. \A p \in {"clear", "discard", "list"} : Fits(p, c)
    BY <1>0 DEF CallKnown, PlaceKnown, Fits
  <2> QED BY <1>0, <1>2, <2>1, QuietGoOn DEF Places
<1>3. CASE Continue(c, "account") /\ call[c].op = "refresh" /\ Live(t)
  <2>1. /\ call' \in [Calls -> CallType] /\ OnlyThis(c) /\ call'[c].pc = "account"
        /\ Same(c) /\ call'[c].pw = call[c].pw
    BY <1>0, <1>3, ContinueCall DEF Places, Same
  <2>2. Made' = Made
    BY <1>0 DEF Made
  <2>3. PlaceKnown(c)'
    BY <1>0, <1>3, <2>1, <2>2 DEF CallKnown, PlaceKnown, Fits, Same, OfFamily
  <2>4. StatusKnown(c)' /\ PasswordKnown(c)'
    BY <1>0, <2>1 DEF CallKnown, StatusKnown, Cleared, PasswordKnown, Current, Same
  <2>5. Family(t) \in raced
        \/ /\ ~Succeeded(t) /\ Family(t) \notin ended
           /\ \A u \in Tokens : Live(u) /\ Family(u) = Family(t) => u = t
    <3>1. t # 0 /\ ~Succeeded(t)
      BY <1>0, <1>3, TokensCounted DEF Inv, RowKnown, Succeeded
    <3>2. Family(t) \in ended => Family(t) \in raced
      BY <1>0, <1>3 DEF Inv, EndedStaysEnded, Live, Family
    <3>3. \A u \in Tokens : Live(u) /\ Family(u) = Family(t) => u = t \/ Family(t) \in raced
      BY <1>0, <1>3 DEF Inv, OneLive
    <3> QED BY <3>1, <3>2, <3>3
  <2>6. Whole => Current(session[t].pw, session[t].met \union call[c].met)
    <3>1. t \in Alive /\ RowCurrent(t)
      BY <1>0, <1>3 DEF Inv, Alive, Live
    <3>2. Doomed(t) => "password" \in call[c].met
      BY <1>0, <1>3 DEF Inv, Doomed, Meet, InFlight, Watched, CallKnown, PlaceKnown
    <3> QED BY <3>1, <3>2 DEF RowCurrent, Current
  <2>7. RotationKnown(c)'
    BY <1>0, <2>1, <2>5, <2>6 DEF RotationKnown, Same, Family, Live, Succeeded, Whole, Current
  <2>8. CallKnown(c)'
    BY <2>3, <2>4, <2>7 DEF CallKnown
  <2> QED BY <1>0, <2>1, <2>8, QuietStep DEF Same
<1>4. \/ Done(c) \/ (\E p \in {"clear", "discard", "list"} : Continue(c, p))
      \/ Continue(c, "account") /\ call[c].op = "refresh" /\ t \in Alive
         /\ session[t].state # "used"
  BY Zenon DEF FindSession
<1>5. t \in Alive /\ session[t].state # "used" => Live(t)
  BY DEF Alive, Live
<1> QED BY <1>1, <1>2, <1>3, <1>4, <1>5

\* A rotation goes on for an active user only.
LEMMA CheckAccountKept ==
    ASSUME Inv, NEW c \in Calls, CheckAccount(c)
    PROVE  Inv'
<1>0. Typed /\ CallKnown(c) /\ call[c].pc = "account" /\ call[c].op = "refresh"
      /\ UNCHANGED <<load, faults, password, status, session, cookie, raced, ended>>
  BY DEF Inv, CheckAccount, At, Unseen, Carried, userVars, browserVars, historyVars, CallKnown,
     PlaceKnown, Fits
<1>1. CASE Continue(c, "discard")
  <2>1. Fits("discard", c)
    BY <1>0 DEF CallKnown, PlaceKnown, Fits, OfFamily
  <2> QED BY <1>0, <1>1, <2>1, QuietGoOn DEF Places
<1>2. CASE Continue(c, "mark") /\ status = "ACTIVE"
  <2>1. /\ call' \in [Calls -> CallType] /\ OnlyThis(c) /\ call'[c].pc = "mark"
        /\ Same(c) /\ call'[c].pw = call[c].pw
    BY <1>0, <1>2, ContinueCall DEF Places, Same
  <2>2. Made' = Made
    BY <1>0 DEF Made
  <2>3. PlaceKnown(c)'
    BY <1>0, <2>1, <2>2 DEF CallKnown, PlaceKnown, Fits, Same, OfFamily
  <2>4. StatusKnown(c)' /\ PasswordKnown(c)'
    BY <1>0, <1>2, <2>1 DEF CallKnown, StatusKnown, PasswordKnown, Current, Same
  <2>5. RotationKnown(c)'
    BY <1>0, <2>1 DEF CallKnown, RotationKnown, Rotating, Same, Family, Live, Succeeded, Whole, Current
  <2>6. CallKnown(c)'
    BY <2>3, <2>4, <2>5 DEF CallKnown
  <2> QED BY <1>0, <2>1, <2>6, QuietStep DEF Same
<1> QED BY <1>1, <1>2 DEF CheckAccount

\* The token is used up, whatever was deleted meanwhile.
LEMMA MarkUsedKept ==
    ASSUME Inv, NEW c \in Calls, MarkUsed(c)
    PROVE  Inv'
<1>0. /\ Typed /\ CallKnown(c) /\ call[c].pc = "mark" /\ call[c].op = "refresh"
      /\ UNCHANGED <<load, faults, password, status, cookie, raced, ended>>
      /\ Continue(c, "create")
  BY DEF Inv, MarkUsed, At, SessionsOnly, Carried, userVars, browserVars, historyVars, CallKnown,
     PlaceKnown, Fits
<1>1. PICK t \in Made : t = call[c].token /\ t \in Tokens
  BY <1>0 DEF CallKnown, PlaceKnown, OfFamily, Made
<1>2. /\ call' \in [Calls -> CallType] /\ OnlyThis(c) /\ call'[c].pc = "create"
      /\ Same(c) /\ call'[c].pw = call[c].pw
  BY <1>0, ContinueCall DEF Places, Same
<1>3. session' \in [Tokens -> RowType] /\ Fades /\ ~Live(t)'
  <2> DEFINE row == [session[t] EXCEPT !.state = IF session[t].state = "live" THEN "used"
                                                 ELSE session[t].state]
  <2>1. session[t] \in RowType
    BY <1>0, <1>1 DEF Typed
  <2>2. /\ row \in RowType /\ row.family = session[t].family /\ row.from = session[t].from
        /\ row.met = session[t].met /\ row.pw = session[t].pw
        /\ row.state = IF session[t].state = "live" THEN "used" ELSE session[t].state
    BY <2>1 DEF RowType
  <2>3. session' = [session EXCEPT ![t] = row]
    BY <1>1 DEF MarkUsed
  <2> HIDE DEF row
  <2> QED BY <1>0, <1>1, <2>2, <2>3 DEF Typed, Fades, Made, Live, Alive
<1>4. Typed'
  BY <1>0, <1>2, <1>3 DEF Typed
<1>5. Made' = Made
  BY <1>3 DEF Fades, Made
<1>6. PlaceKnown(c)'
  BY <1>0, <1>2, <1>5 DEF CallKnown, PlaceKnown, Fits, Same, OfFamily
<1>7. StatusKnown(c)' /\ PasswordKnown(c)'
  BY <1>0, <1>2 DEF CallKnown, StatusKnown, Cleared, PasswordKnown, Current, Same
<1>8. RotationKnown(c)'
  <2>1. /\ \/ Family(t) \in raced
           \/ /\ ~Succeeded(t) /\ Family(t) \notin ended
              /\ \A u \in Tokens : Live(u) /\ Family(u) = Family(t) => u = t
        /\ Whole => Current(session[t].pw, session[t].met \union call[c].met)
    BY <1>0, <1>1 DEF CallKnown, RotationKnown, Rotating
  <2>2. /\ Family(t)' = Family(t) /\ (~Succeeded(t) => ~Succeeded(t)')
        /\ \A u \in Tokens : Family(u)' = Family(u) /\ (Live(u)' => Live(u))
    BY <1>1, <1>3 DEF Fades, Family, Succeeded
  <2>3. Family(t)' \in raced'
        \/ /\ ~Succeeded(t)' /\ Family(t)' \notin ended'
           /\ \A u \in Tokens : Live(u)' /\ Family(u)' = Family(t)' => u = t
    BY <1>0, <2>1, <2>2
  <2>4. Whole' => Current(session[t].pw, session[t].met \union call[c].met)'
    BY <1>0, <1>1, <1>2, <1>3, <2>1 DEF Whole, Current, Fades, Same
  <2>5. call'[c].token = t
    BY <1>1, <1>2 DEF Same
  <2> QED BY <1>3, <2>3, <2>4, <2>5 DEF RotationKnown
<1>9. CallKnown(c)'
  BY <1>6, <1>7, <1>8 DEF CallKnown
<1>10. \A b \in Browsers : cookie'[b] # 0 => cookie'[b] \in Made
  BY <1>0 DEF Inv
<1> QED BY <1>0, <1>2, <1>3, <1>4, <1>9, <1>10, StepKept, EndsNone, DoomStays DEF Same

\* A row is deleted.
LEMMA DeletedFades ==
    ASSUME Typed, NEW t \in Made, Deleted(t)
    PROVE  session' \in [Tokens -> RowType] /\ Fades /\ t \notin Alive' /\ ~Live(t)'
<1> DEFINE row == [session[t] EXCEPT !.state = "gone"]
<1>1. t \in Tokens /\ session[t] \in RowType
  BY DEF Typed, Made
<1>2. /\ row \in RowType /\ row.family = session[t].family /\ row.from = session[t].from
      /\ row.met = session[t].met /\ row.pw = session[t].pw /\ row.state = "gone"
  BY <1>1 DEF RowType
<1>3. session' = [session EXCEPT ![t] = row]
  BY DEF Deleted
<1> HIDE DEF row
<1> QED BY <1>1, <1>2, <1>3 DEF Typed, Fades, Made, Live, Alive

\* A request that goes on to p, or is over, after a step that made no row.
LEMMA GoOnKnown ==
    ASSUME Inv, NEW c \in Calls, NEW p \in Places, Continue(c, p), Made' = Made,
           UNCHANGED <<load, faults, password>>, call[c].pc # "idle", Fits(p, c),
           p \notin {"idle", "account", "mark", "create", "link"}
    PROVE  CallKnown(c)' /\ OnlyThis(c) /\ Same(c) /\ call'[c].pc = p /\ call' \in [Calls -> CallType]
<1>1. Typed /\ CallKnown(c)
  BY DEF Inv
<1>2. /\ call' \in [Calls -> CallType] /\ OnlyThis(c) /\ call'[c].pc = p
      /\ Same(c) /\ call'[c].pw = call[c].pw
  BY <1>1, ContinueCall DEF Same
<1>3. PlaceKnown(c)'
  BY <1>1, <1>2 DEF CallKnown, PlaceKnown, Fits, OfFamily, Same
<1>4. StatusKnown(c)' /\ PasswordKnown(c)' /\ RotationKnown(c)'
  BY <1>1, <1>2 DEF CallKnown, StatusKnown, Cleared, PasswordKnown, Current, RotationKnown,
     Rotating, Same
<1> QED BY <1>2, <1>3, <1>4 DEF CallKnown

\* A logout leaves no good token of its family, unless another request raced it.
LEMMA DiscardKept ==
    ASSUME Inv, NEW c \in Calls, Discard(c)
    PROVE  Inv'
<1>0. /\ Typed /\ CallKnown(c) /\ call[c].pc = "discard"
      /\ UNCHANGED <<load, faults, password, status, cookie, raced>>
  BY DEF Inv, Discard, At, SessionsOnly, Carried, userVars, browserVars
<1>1. PICK t \in Made : t = call[c].token /\ t \in Tokens
  BY <1>0 DEF CallKnown, PlaceKnown, Fits, Made
<1>2. session' \in [Tokens -> RowType] /\ Fades /\ ~Live(t)'
  BY <1>0, <1>1, DeletedFades DEF Discard
<1>3. Made' = Made
  BY <1>2 DEF Fades, Made
<1>4. /\ call' \in [Calls -> CallType] /\ OnlyThis(c) /\ CallKnown(c)'
      /\ call'[c].op = "none" \/ Same(c)
  <2>1. CASE Done(c)
    BY <1>0, <2>1, DoneCall, IdleKnown
  <2>2. CASE Continue(c, "clear")
    <3>1. Fits("clear", c)
      BY <1>0 DEF CallKnown, PlaceKnown, Fits
    <3> QED BY <1>0, <1>3, <2>2, <3>1, GoOnKnown DEF Places
  <2> QED BY <2>1, <2>2 DEF Discard
<1>5. Typed'
  BY <1>0, <1>2, <1>4 DEF Typed
<1>6. EndsOwn(c)
  <2>1. CASE UNCHANGED ended
    BY <2>1, EndsNone
  <2>2. CASE call[c].op = "logout" /\ Live(t) /\ ended' = ended \union {Family(t)}
    <3>1. Family(t) \in raced \/ \A u \in Tokens : Live(u)' => Family(u) # Family(t)
      BY <1>1, <1>2, <2>2 DEF Inv, OneLive, Fades
    <3> QED BY <1>1, <2>2, <3>1 DEF EndsOwn, OfFamily, FamilyOf
  <2> QED BY <1>1, <2>1, <2>2 DEF Discard, Live, Family
<1>7. \A b \in Browsers : cookie'[b] # 0 => cookie'[b] \in Made
  BY <1>0 DEF Inv
<1> QED BY <1>0, <1>2, <1>4, <1>5, <1>6, <1>7, StepKept, DoomStays DEF Same

\* All that others know of a request.
SameCall(c) ==
    call'[c].op = call[c].op /\ call'[c].token = call[c].token /\ call'[c].met = call[c].met

\* What a request is going to delete is read; nobody else's doomed row is spared.
LEMMA ListKept ==
    ASSUME Inv, NEW c \in Calls, List(c)
    PROVE  Inv'
<1>0. /\ Typed /\ CallKnown(c) /\ call[c].pc = "list"
      /\ UNCHANGED <<load, faults, password, status, session, cookie, raced>>
  BY DEF Inv, List, At, SessionsOnly, Carried, userVars, browserVars
<1>1. Targets(c) \subseteq Alive
  BY Zenon DEF Targets
<1>2. PICK rows \in SUBSET Made : rows = Targets(c) /\ rows \in SUBSET Tokens
  BY <1>1 DEF Alive, Made
<1>3. Fades /\ Made' = Made
  BY <1>0, NoneFades DEF Made
<1>4. /\ call' \in [Calls -> CallType] /\ OnlyThis(c) /\ CallKnown(c)'
      /\ call'[c].op = "none" \/ SameCall(c)
      /\ rows # {} => SameCall(c) /\ call'[c].pc = "delete" /\ call'[c].rows = rows
  <2>1. CASE rows # {}
    <3> DEFINE new == [call[c] EXCEPT !.pc = "delete", !.rows = rows]
    <3>1. call[c] \in CallType
      BY <1>0 DEF Typed
    <3>2. /\ new \in CallType /\ new.pc = "delete" /\ new.rows = rows
          /\ new.op = call[c].op /\ new.by = call[c].by /\ new.token = call[c].token
          /\ new.pw = call[c].pw /\ new.met = call[c].met
      BY <1>2, <3>1 DEF CallType, Places
    <3>3. call' = [call EXCEPT ![c] = new]
      BY <1>2, <2>1 DEF List
    <3> HIDE DEF new
    <3>4. /\ call' \in [Calls -> CallType] /\ OnlyThis(c) /\ call'[c].pc = "delete"
          /\ call'[c].rows = rows /\ call'[c].op = call[c].op /\ call'[c].by = call[c].by
          /\ call'[c].token = call[c].token /\ call'[c].pw = call[c].pw
          /\ call'[c].met = call[c].met
      BY <1>0, <3>2, <3>3 DEF Typed, OnlyThis
    <3>5. PlaceKnown(c)'
      BY <1>0, <1>2, <1>3, <3>4 DEF CallKnown, PlaceKnown, Fits, OfFamily
    <3>6. StatusKnown(c)' /\ PasswordKnown(c)' /\ RotationKnown(c)'
      BY <1>0, <3>4 DEF CallKnown, StatusKnown, Cleared, PasswordKnown, Current, RotationKnown,
         Rotating
    <3> QED BY <3>4, <3>5, <3>6 DEF CallKnown, SameCall
  <2>2. CASE rows = {} /\ Continue(c, "clear")
    <3>1. Fits("clear", c)
      BY <1>0 DEF CallKnown, PlaceKnown, Fits
    <3> QED BY <1>0, <1>3, <2>2, <3>1, GoOnKnown DEF Places, Same, SameCall
  <2>3. CASE rows = {} /\ Done(c)
    BY <1>0, <2>3, DoneCall, IdleKnown
  <2> QED BY <1>2, <2>1, <2>2, <2>3 DEF List
<1>5. Typed'
  BY <1>0, <1>4 DEF Typed
<1>6. EndsOwn(c)
  <2>1. CASE UNCHANGED ended
    BY <2>1, EndsNone
  <2>2. CASE rows = {} /\ call[c].op = "refresh" /\ ended' = ended \union {FamilyOf(c)}
    <3>1. call[c].token \in Made /\ OfFamily(call[c].op)
      BY <1>0, <2>2 DEF CallKnown, PlaceKnown, OfFamily
    <3>2. Targets(c) = {t \in Alive : Family(t) = FamilyOf(c)}
      BY <2>2 DEF Targets, Family, FamilyOf
    <3>3. \A t \in Tokens : Live(t)' => Family(t) # FamilyOf(c)
      BY <1>0, <1>2, <2>2, <3>2 DEF Live, Alive
    <3> QED BY <2>2, <3>1, <3>3 DEF EndsOwn
  <2> QED BY <1>2, <2>1, <2>2 DEF List, FamilyOf, Family
<1>7. ASSUME NEW t \in Tokens, Doomed(t), t \in Alive' PROVE Doomed(t)'
  <2>1. PICK p \in Calls : /\ call[p].op = "password"
                           /\ \/ call[p].pc = "list" /\ call[p].token # t
                              \/ call[p].pc = "delete" /\ t \in call[p].rows
    BY <1>7 DEF Doomed
  <2>2. CASE p # c
    BY <1>4, <2>1, <2>2 DEF Doomed, OnlyThis
  <2>3. CASE p = c
    <3>1. t \in Alive /\ call[c].token # t /\ call[c].op = "password"
      BY <1>0, <1>7, <2>1, <2>3 DEF Alive
    <3>2. Targets(c) = Alive \ {call[c].token}
      BY <3>1, Zenon DEF Targets
    <3>3. t \in rows
      BY <1>2, <3>1, <3>2
    <3> QED BY <1>4, <3>1, <3>3 DEF Doomed, SameCall
  <2> QED BY <2>2, <2>3
<1>8. \A b \in Browsers : cookie'[b] # 0 => cookie'[b] \in Made
  BY <1>0 DEF Inv
<1> QED BY <1>0, <1>3, <1>4, <1>5, <1>6, <1>7, <1>8, StepKept DEF SameCall

\* One row after the other; the row that goes is the only one no longer doomed.
LEMMA DeleteKept ==
    ASSUME Inv, NEW c \in Calls, Delete(c)
    PROVE  Inv'
<1>0. /\ Typed /\ CallKnown(c) /\ call[c].pc = "delete" /\ call[c].rows \subseteq Made
      /\ UNCHANGED <<load, faults, password, status, cookie, raced, ended>>
  BY DEF Inv, Delete, At, SessionsOnly, Carried, userVars, browserVars, historyVars, CallKnown,
     PlaceKnown
<1>1. PICK t \in call[c].rows :
        /\ Deleted(t)
        /\ call' = [call EXCEPT ![c] =
             IF call[c].rows # {t} THEN [@ EXCEPT !.rows = call[c].rows \ {t}]
             ELSE IF call[c].op = "refresh" THEN [@ EXCEPT !.pc = "list", !.rows = {}]
             ELSE Idle]
  BY Zenon DEF Delete
<1>2. /\ session' \in [Tokens -> RowType] /\ Fades /\ t \notin Alive' /\ Made' = Made
      /\ t \in Tokens
  BY <1>0, <1>1, DeletedFades DEF Fades, Made
<1>3. /\ call' \in [Calls -> CallType] /\ OnlyThis(c) /\ CallKnown(c)'
      /\ call'[c].op = "none" \/ SameCall(c)
      /\ call[c].rows # {t} => /\ SameCall(c) /\ call'[c].pc = "delete"
                               /\ call'[c].rows = call[c].rows \ {t}
  <2>1. CASE call[c].rows = {t} /\ call[c].op # "refresh"
    <3>1. Done(c)
      BY <1>1, <2>1 DEF Done
    <3> QED BY <1>0, <2>1, <3>1, DoneCall, IdleKnown
  <2>2. CASE call[c].rows # {t} \/ call[c].op = "refresh"
    <3>1. PICK p \in {"delete", "list"}, rows \in SUBSET call[c].rows :
            /\ call' = [call EXCEPT ![c] = [call[c] EXCEPT !.pc = p, !.rows = rows]]
            /\ call[c].rows # {t} => p = "delete" /\ rows = call[c].rows \ {t}
      <4>1. CASE call[c].rows # {t}
        <5>1. [call[c] EXCEPT !.rows = call[c].rows \ {t}]
              = [call[c] EXCEPT !.pc = "delete", !.rows = call[c].rows \ {t}]
          BY <1>0 DEF Typed, CallType
        <5>2. WITNESS "delete" \in {"delete", "list"},
                      call[c].rows \ {t} \in SUBSET call[c].rows
        <5>3. call' = [call EXCEPT ![c] = [call[c] EXCEPT !.rows = call[c].rows \ {t}]]
          BY <1>1, <4>1
        <5> QED BY <5>1, <5>3
      <4>2. CASE call[c].rows = {t}
        <5>1. call' = [call EXCEPT ![c] = [call[c] EXCEPT !.pc = "list", !.rows = {}]]
          BY <1>1, <2>2, <4>2
        <5>2. WITNESS "list" \in {"delete", "list"}, {} \in SUBSET call[c].rows
        <5> QED BY <4>2, <5>1
      <4> QED BY <4>1, <4>2
    <3> DEFINE new == [call[c] EXCEPT !.pc = p, !.rows = rows]
    <3>2. call[c] \in CallType
      BY <1>0 DEF Typed
    <3>3. /\ new \in CallType /\ new.pc = p /\ new.rows = rows
          /\ new.op = call[c].op /\ new.by = call[c].by /\ new.token = call[c].token
          /\ new.pw = call[c].pw /\ new.met = call[c].met
      BY <3>2 DEF CallType, Places
    <3>4. call' = [call EXCEPT ![c] = new]
      BY <3>1
    <3> HIDE DEF new
    <3>5. /\ call' \in [Calls -> CallType] /\ OnlyThis(c) /\ call'[c].pc = p
          /\ call'[c].rows = rows /\ call'[c].op = call[c].op /\ call'[c].by = call[c].by
          /\ call'[c].token = call[c].token /\ call'[c].pw = call[c].pw
          /\ call'[c].met = call[c].met
      BY <1>0, <3>3, <3>4 DEF Typed, OnlyThis
    <3>6. PlaceKnown(c)'
      BY <1>0, <1>2, <3>1, <3>5 DEF CallKnown, PlaceKnown, Fits, OfFamily
    <3>7. StatusKnown(c)' /\ PasswordKnown(c)' /\ RotationKnown(c)'
      BY <1>0, <3>1, <3>5 DEF CallKnown, StatusKnown, Cleared, PasswordKnown, Current,
         RotationKnown, Rotating
    <3> QED BY <3>1, <3>5, <3>6, <3>7 DEF CallKnown, SameCall
  <2> QED BY <2>1, <2>2
<1>4. Typed'
  BY <1>0, <1>2, <1>3 DEF Typed
<1>5. ASSUME NEW u \in Tokens, Doomed(u), u \in Alive' PROVE Doomed(u)'
  <2>1. PICK p \in Calls : /\ call[p].op = "password"
                           /\ \/ call[p].pc = "list" /\ call[p].token # u
                              \/ call[p].pc = "delete" /\ u \in call[p].rows
    BY <1>5 DEF Doomed
  <2>2. CASE p # c
    BY <1>3, <2>1, <2>2 DEF Doomed, OnlyThis
  <2>3. CASE p = c
    <3>1. u # t /\ u \in call[c].rows
      BY <1>0, <1>2, <1>5, <2>1, <2>3
    <3> QED BY <1>3, <2>1, <2>3, <3>1 DEF Doomed, SameCall
  <2> QED BY <2>2, <2>3
<1>6. \A b \in Browsers : cookie'[b] # 0 => cookie'[b] \in Made
  BY <1>0 DEF Inv
<1> QED BY <1>0, <1>2, <1>3, <1>4, <1>5, <1>6, StepKept, EndsNone DEF SameCall

\* The old password is compared.
LEMMA VerifyPasswordKept ==
    ASSUME Inv, NEW c \in Calls, VerifyPassword(c)
    PROVE  Inv'
<1>0. /\ Typed /\ CallKnown(c) /\ call[c].pc = "verify"
      /\ UNCHANGED <<load, faults, password, status, session, cookie, raced, ended>>
  BY DEF Inv, VerifyPassword, At, Unseen, Carried, userVars, browserVars, historyVars
<1>1. CASE Done(c)
  BY <1>0, <1>1, QuietDone
<1>2. CASE Continue(c, "write")
  <2>1. Fits("write", c)
    BY <1>0 DEF CallKnown, PlaceKnown, Fits
  <2> QED BY <1>0, <1>2, <2>1, QuietGoOn DEF Places
<1> QED BY <1>1, <1>2 DEF VerifyPassword, Pass

\* The password changes: every other session is doomed, and every request has met the
\* change.
LEMMA WritePasswordKept ==
    ASSUME Inv, NEW c \in Calls, WritePassword(c)
    PROVE  Inv'
<1>0. /\ Typed /\ CallKnown(c) /\ call[c].pc = "write" /\ call[c].op = "password"
      /\ UNCHANGED <<load, faults, status, cookie, raced, ended>>
      /\ Continue(c, "list") /\ password' = password + 1
  BY DEF Inv, WritePassword, At, Carried, browserVars, historyVars, CallKnown, PlaceKnown, Fits
<1>1. /\ call' \in [Calls -> CallType] /\ OnlyThis(c) /\ call'[c].pc = "list"
      /\ Same(c) /\ call'[c].pw = call[c].pw
  BY <1>0, ContinueCall DEF Places, Same
<1>2. /\ session' \in [Tokens -> RowType]
      /\ \A u \in Tokens :
            /\ session'[u].state = session[u].state /\ session'[u].family = session[u].family
            /\ session'[u].from = session[u].from /\ session'[u].met = session[u].met
            /\ u = call[c].token => session'[u].pw = password'
  <2> DEFINE new(u) == [session[u] EXCEPT !.pw = password + 1]
  <2>1. password + 1 \in Nat
    BY <1>0 DEF Typed
  <2>2. ASSUME NEW u \in Tokens
        PROVE  /\ new(u) \in RowType /\ new(u).state = session[u].state
               /\ new(u).family = session[u].family /\ new(u).from = session[u].from
               /\ new(u).met = session[u].met /\ new(u).pw = password + 1
    <3>1. session[u] \in RowType
      BY <1>0 DEF Typed
    <3> QED BY <2>1, <3>1 DEF RowType
  <2>3. session' = [u \in Tokens |-> IF u = call[c].token THEN new(u) ELSE session[u]]
    BY DEF WritePassword
  <2> HIDE DEF new
  <2> QED BY <1>0, <2>2, <2>3 DEF Typed
<1>3. Typed' /\ Made' = Made
  BY <1>0, <1>1, <1>2 DEF Typed, Made
<1>4. Numbered' /\ ended' \subseteq Made' /\ \A b \in Browsers : cookie'[b] # 0 => cookie'[b] \in Made'
  BY <1>0, <1>3 DEF Inv, Numbered
<1>5. \A u \in Tokens : Family(u)' = Family(u) /\ (Live(u)' <=> Live(u)) /\ (u \in Alive' <=> u \in Alive)
  BY <1>2 DEF Family, Live, Alive
<1>6. OneLive' /\ OneSuccessor' /\ EndedStaysEnded'
  <2>1. OneLive'
    BY <1>0, <1>5 DEF Inv, OneLive
  <2>2. OneSuccessor'
    BY <1>0, <1>2 DEF Inv, OneSuccessor
  <2>3. EndedStaysEnded'
    BY <1>0, <1>2 DEF Inv, EndedStaysEnded
  <2> QED BY <2>1, <2>2, <2>3
<1>7. ASSUME NEW t \in Tokens PROVE RowKnown(t)' /\ RowCurrent(t)'
  <2>1. RowKnown(t) /\ session[t].from \in Tokens \union {0}
    BY <1>0 DEF Inv, Typed, RowType
  <2>2. RowKnown(t)'
    BY <1>2, <1>3, <1>5, <2>1 DEF RowKnown, Made
  <2>3. RowCurrent(t)'
    BY <1>0, <1>1, <1>2 DEF RowCurrent, Current, Doomed, Same
  <2> QED BY <2>2, <2>3
<1>8. ASSUME NEW d \in Calls, NEW e \in Calls, d # e PROVE Meet(d, e)'
  <2>1. \A x \in Calls : /\ call'[x].op = call[x].op /\ call'[x].met = call[x].met
                         /\ call'[x].token = call[x].token
    BY <1>1 DEF OnlyThis, Same
  <2>2. \A x \in Calls : OfFamily(call[x].op) => FamilyOf(x)' = FamilyOf(x)
    BY <1>5, <2>1 DEF Inv, CallKnown, PlaceKnown, Made, FamilyOf
  <2>3. Meet(d, e)
    BY <1>8 DEF Inv
  <2> QED BY <1>0, <2>1, <2>2, <2>3 DEF Meet, InFlight
<1>9. ASSUME NEW d \in Calls PROVE CallKnown(d)'
  <2>0. CallKnown(d)
    BY DEF Inv
  <2>1. CASE d = c
    BY <1>0, <1>1, <1>3, <2>1 DEF CallKnown, PlaceKnown, Fits, OfFamily, StatusKnown, Cleared,
       PasswordKnown, RotationKnown, Rotating, Same
  <2>2. CASE d # c
    <3>1. call'[d] = call[d] /\ (call[d].op # "none" => "password" \in call[d].met)
      BY <1>0, <1>1, <2>2 DEF Inv, OnlyThis, Meet, InFlight, Watched
    <3>2. PlaceKnown(d)' /\ StatusKnown(d)' /\ PasswordKnown(d)'
      BY <1>0, <1>3, <2>0, <3>1 DEF CallKnown, PlaceKnown, Fits, StatusKnown, Cleared,
         PasswordKnown, Current
    <3>3. RotationKnown(d)'
      <4>1. CASE ~Rotating(d)
        BY <3>1, <4>1 DEF RotationKnown, Rotating
      <4>2. CASE Rotating(d)
        <5>1. PICK t \in Made : t = call[d].token /\ t \in Tokens
          BY <2>0, <4>2 DEF CallKnown, PlaceKnown, Rotating, OfFamily, Made
        <5>2. /\ \/ Family(t) \in raced
                 \/ /\ ~Succeeded(t) /\ Family(t) \notin ended
                    /\ \A u \in Tokens : Live(u) /\ Family(u) = Family(t) => u = t
              /\ call[d].pc = "create" => ~Live(t)
          BY <2>0, <4>2, <5>1 DEF CallKnown, RotationKnown
        <5>3. Succeeded(t)' <=> Succeeded(t)
          BY <1>2 DEF Succeeded
        <5>4. Current(session[t].pw, session[t].met \union call[d].met)'
          BY <3>1, <4>2 DEF Current, Rotating
        <5> QED BY <1>0, <1>5, <3>1, <5>1, <5>2, <5>3, <5>4 DEF RotationKnown
      <4> QED BY <4>1, <4>2
    <3> QED BY <3>2, <3>3 DEF CallKnown
  <2> QED BY <2>1, <2>2
<1> QED BY <1>3, <1>4, <1>6, <1>7, <1>8, <1>9 DEF Inv

\* The last identity is kept.
LEMMA CountIdentitiesKept ==
    ASSUME Inv, NEW c \in Calls, CountIdentities(c)
    PROVE  Inv'
<1>0. /\ Typed /\ CallKnown(c) /\ call[c].pc = "count"
      /\ UNCHANGED <<load, faults, password, status, session, cookie, raced, ended>>
  BY DEF Inv, CountIdentities, At, Unseen, Carried, userVars, browserVars, historyVars
<1>1. CASE Done(c)
  BY <1>0, <1>1, QuietDone
<1>2. CASE Continue(c, "unlink")
  <2>1. Fits("unlink", c)
    BY <1>0 DEF CallKnown, PlaceKnown, Fits
  <2> QED BY <1>0, <1>2, <2>1, QuietGoOn DEF Places
<1> QED BY <1>1, <1>2 DEF CountIdentities, Pass

\* An identity is removed.
LEMMA UnlinkIdentityKept ==
    ASSUME Inv, NEW c \in Calls, UnlinkIdentity(c)
    PROVE  Inv'
<1>1. /\ call[c].pc = "unlink" /\ Done(c)
      /\ UNCHANGED <<load, faults, password, status, session, cookie, raced, ended>>
  BY DEF UnlinkIdentity, At, Carried, browserVars, historyVars
<1> QED BY <1>1, QuietDone

\* An administrator's request reads the status it will compare.
LEMMA ReadStatusKept ==
    ASSUME Inv, NEW c \in Calls, ReadStatus(c)
    PROVE  Inv'
<1>0. /\ Typed /\ CallKnown(c) /\ call[c].pc = "status" /\ status \in UserStatus
      /\ UNCHANGED <<load, faults, password, status, session, cookie, raced, ended>>
  BY DEF Inv, Typed, ReadStatus, At, Unseen, Carried, userVars, browserVars, historyVars
<1>1. CASE Done(c)
  BY <1>0, <1>1, QuietDone
<1>2. CASE call' = [call EXCEPT ![c].pc = "compare", ![c].seen = status]
  <2>1. /\ call' \in [Calls -> CallType] /\ OnlyThis(c) /\ call'[c].pc = "compare"
        /\ Same(c) /\ call'[c].pw = call[c].pw
    <3> DEFINE new == [call[c] EXCEPT !.pc = "compare", !.seen = status]
    <3>1. call[c] \in CallType
      BY <1>0 DEF Typed
    <3>2. /\ new \in CallType /\ new.pc = "compare" /\ new.pw = call[c].pw
          /\ new.op = call[c].op /\ new.by = call[c].by /\ new.token = call[c].token
          /\ new.rows = call[c].rows /\ new.met = call[c].met
      BY <1>0, <3>1 DEF CallType, Places
    <3>3. call' = [call EXCEPT ![c] = new]
      BY <1>2
    <3> HIDE DEF new
    <3> QED BY <1>0, <3>2, <3>3 DEF Typed, OnlyThis, Same
  <2>2. CallKnown(c)'
    <3>1. Made' = Made
      BY <1>0 DEF Made
    <3>2. PlaceKnown(c)'
      BY <1>0, <2>1, <3>1 DEF CallKnown, PlaceKnown, Fits, Same, OfFamily
    <3>3. StatusKnown(c)' /\ PasswordKnown(c)' /\ RotationKnown(c)'
      BY <1>0, <2>1 DEF CallKnown, StatusKnown, Cleared, PasswordKnown, Current, RotationKnown,
         Rotating, Same
    <3> QED BY <3>2, <3>3 DEF CallKnown
  <2> QED BY <1>0, <2>1, <2>2, QuietStep DEF Same
<1> QED BY <1>1, <1>2 DEF ReadStatus

\* A suspension is met by every request that still believes the user active.
LEMMA SetStatusKept ==
    ASSUME Inv, NEW c \in Calls, SetStatus(c)
    PROVE  Inv'
<1>0. /\ Typed /\ CallKnown(c) /\ call[c].pc = "compare"
      /\ UNCHANGED <<load, faults, password, session, cookie, raced, ended>>
  BY DEF Inv, SetStatus, At, Carried, browserVars, historyVars
<1>1. /\ \/ status' = status
         \/ status' = "ACTIVE"
         \/ status' = "SUSPENDED" /\ call[c].op = "suspend"
      /\ Done(c) \/ Continue(c, "one")
  BY DEF SetStatus
<1>2. Made' = Made /\ Fits("one", c)
  BY <1>0 DEF Made, CallKnown, PlaceKnown, Fits
<1>3. /\ call' \in [Calls -> CallType] /\ OnlyThis(c) /\ CallKnown(c)'
      /\ call'[c].op = "none" \/ Same(c)
  <2>1. CASE Done(c)
    BY <1>0, <2>1, DoneCall, IdleKnown
  <2>2. CASE Continue(c, "one")
    BY <1>0, <1>2, <2>2, GoOnKnown DEF Places
  <2> QED BY <1>1, <2>1, <2>2
<1>4. Typed'
  BY <1>0, <1>1, <1>3 DEF Typed, UserStatus
<1>5. \A b \in Browsers : cookie'[b] # 0 => cookie'[b] \in Made
  BY <1>0 DEF Inv
<1> QED BY <1>0, <1>1, <1>3, <1>4, <1>5, StepKept, NoneFades, EndsNone, DoomStays DEF Same

\* A suspension deletes one row at most.
LEMMA DeleteOneKept ==
    ASSUME Inv, NEW c \in Calls, DeleteOne(c)
    PROVE  Inv'
<1>0. /\ Typed /\ call[c].pc = "one" /\ Done(c)
      /\ UNCHANGED <<load, faults, password, status, cookie, raced, ended>>
  BY DEF Inv, DeleteOne, At, SessionsOnly, Carried, userVars, browserVars, historyVars
<1>1. Alive \subseteq Made
  BY DEF Alive, Made
<1>2. session' \in [Tokens -> RowType] /\ Fades
  <2>1. CASE UNCHANGED session
    BY <1>0, <2>1, NoneFades DEF Typed
  <2>2. CASE \E t \in Alive : Deleted(t)
    BY <1>0, <1>1, <2>2, DeletedFades
  <2> QED BY <2>1, <2>2 DEF DeleteOne
<1>3. call' \in [Calls -> CallType] /\ OnlyThis(c) /\ CallKnown(c)' /\ call'[c].op = "none"
  BY <1>0, DoneCall, IdleKnown
<1>4. Typed'
  BY <1>0, <1>2, <1>3 DEF Typed
<1>5. \A b \in Browsers : cookie'[b] # 0 => cookie'[b] \in Made
  BY <1>0 DEF Inv
<1> QED BY <1>0, <1>2, <1>3, <1>4, <1>5, StepKept, EndsNone, DoomStays

\* The browser stores the token of a row that was made.
LEMMA ReceiveKept ==
    ASSUME Inv, NEW c \in Calls, Receive(c)
    PROVE  Inv'
<1>0. /\ Typed /\ CallKnown(c) /\ call[c].pc \in {"set", "clear"} /\ Done(c)
      /\ UNCHANGED <<load, faults, password, status, session, raced, ended>>
  BY DEF Inv, Receive, Carried, userVars, historyVars
<1>1. PICK t \in Made \union {0} : cookie' = [cookie EXCEPT ![call[c].by] = t]
  BY <1>0 DEF Receive, At, CallKnown, PlaceKnown, Fits
<1>2. cookie' \in [Browsers -> Tokens \union {0}]
  BY <1>0, <1>1 DEF Typed, Made
<1>3. call' \in [Calls -> CallType] /\ OnlyThis(c) /\ CallKnown(c)' /\ call'[c].op = "none"
  BY <1>0, DoneCall, IdleKnown
<1>4. Typed'
  BY <1>0, <1>2, <1>3 DEF Typed
<1>5. \A b \in Browsers : cookie'[b] # 0 => cookie'[b] \in Made
  BY <1>0, <1>1 DEF Inv, Typed
<1> QED BY <1>0, <1>3, <1>4, <1>5, StepKept, NoneFades, EndsNone, DoomStays
-----------------------------------------------------------------------------
(* What the network and the clock do *)

\* Requests get lost, which counts as a fault; rows expire.
LEMMA NobodyActs ==
    ASSUME Inv, Typed',
           \A t \in Tokens :
               /\ session'[t].state = session[t].state /\ session'[t].family = session[t].family
               /\ session'[t].from = session[t].from /\ session'[t].met = session[t].met
               /\ session'[t].pw = session[t].pw,
           UNCHANGED <<load, password, status, cookie, raced, ended>>,
           \/ UNCHANGED <<call, faults>>
           \/ faults' # load.losses /\ \A d \in Calls : call'[d] \in {call[d], Idle}
    PROVE  Inv'
<1>1. Made' = Made /\ Fades
  BY DEF Made, Fades, Live, Alive
<1>2. Numbered' /\ (\A t \in Tokens : RowKnown(t)') /\ OneLive' /\ OneSuccessor'
  BY <1>1, RowsFade
<1>3. \A t \in Tokens : Family(t)' = Family(t) /\ (Live(t)' <=> Live(t)) /\ (t \in Alive' <=> t \in Alive)
  BY DEF Family, Live, Alive
<1>4. EndedStaysEnded'
  BY DEF Inv, EndedStaysEnded
<1>5. ASSUME NEW t \in Tokens PROVE RowCurrent(t)'
  <2>1. RowCurrent(t)
    BY DEF Inv
  <2>2. CASE UNCHANGED <<call, faults>>
    BY <1>3, <2>1, <2>2 DEF RowCurrent, Whole, Current, Doomed
  <2>3. CASE faults' # load.losses
    BY <2>3 DEF RowCurrent, Whole
  <2> QED BY <2>2, <2>3
<1>6. \A d \in Calls : call'[d] \in {call[d], Idle}
  OBVIOUS
<1>7. ASSUME NEW d \in Calls PROVE CallKnown(d)'
  <2>0. CallKnown(d) /\ (Whole' => Whole)
    BY DEF Inv, Whole
  <2>1. CASE call'[d] = Idle
    BY <2>1, IdleKnown
  <2>2. CASE call'[d] = call[d]
    <3>1. PlaceKnown(d)' /\ StatusKnown(d)' /\ PasswordKnown(d)'
      BY <1>1, <2>0, <2>2 DEF CallKnown, PlaceKnown, Fits, StatusKnown, Cleared, PasswordKnown,
         Current
    <3>2. RotationKnown(d)'
      <4>1. CASE ~Rotating(d)
        BY <2>2, <4>1 DEF RotationKnown, Rotating
      <4>2. CASE Rotating(d)
        <5>1. PICK t \in Made : t = call[d].token /\ t \in Tokens
          BY <2>0, <4>2 DEF CallKnown, PlaceKnown, Rotating, OfFamily, Made
        <5>2. /\ \/ Family(t) \in raced
                 \/ /\ ~Succeeded(t) /\ Family(t) \notin ended
                    /\ \A u \in Tokens : Live(u) /\ Family(u) = Family(t) => u = t
              /\ call[d].pc = "create" => ~Live(t)
              /\ Whole => Current(session[t].pw, session[t].met \union call[d].met)
          BY <2>0, <4>2, <5>1 DEF CallKnown, RotationKnown
        <5>3. Succeeded(t)' <=> Succeeded(t)
          BY DEF Succeeded
        <5>4. Whole' => Current(session[t].pw, session[t].met \union call[d].met)'
          BY <2>0, <2>2, <5>1, <5>2 DEF Current
        <5> QED BY <1>3, <2>2, <5>1, <5>2, <5>3, <5>4 DEF RotationKnown
      <4> QED BY <4>1, <4>2
    <3> QED BY <3>1, <3>2 DEF CallKnown
  <2> QED BY <1>6, <2>1, <2>2
<1>8. ASSUME NEW d \in Calls, NEW e \in Calls, d # e PROVE Meet(d, e)'
  <2>1. \A x \in Calls : InFlight(x)' => InFlight(x) /\ call'[x] = call[x]
    BY <1>6, IdleType DEF InFlight
  <2>2. \A x \in Calls : OfFamily(call[x].op) /\ call'[x] = call[x] => FamilyOf(x)' = FamilyOf(x)
    BY <1>3 DEF Inv, CallKnown, PlaceKnown, Made, FamilyOf
  <2>3. Meet(d, e)
    BY <1>8 DEF Inv
  <2> QED BY <2>1, <2>2, <2>3 DEF Meet
<1>9. ended' \subseteq Made' /\ \A b \in Browsers : cookie'[b] # 0 => cookie'[b] \in Made'
  BY <1>1 DEF Inv
<1> QED BY <1>2, <1>4, <1>5, <1>7, <1>8, <1>9 DEF Inv

\* A request gets lost.
LEMMA LoseKept ==
    ASSUME Inv, NEW c \in Calls, Lose(c)
    PROVE  Inv'
<1>0. /\ Typed /\ faults > 0 /\ faults' = faults - 1 /\ Done(c)
      /\ UNCHANGED <<load, status, password, session, cookie, raced, ended>>
  BY DEF Inv, Lose, userVars, browserVars, historyVars
<1>1. load.losses \in Nat /\ faults \in Nat /\ faults <= load.losses
  BY <1>0, WorkloadsType DEF Typed
<1>2. faults' \in Nat /\ faults' < load.losses
  BY <1>0, <1>1
<1>3. call' \in [Calls -> CallType] /\ \A d \in Calls : call'[d] \in {call[d], Idle}
  BY <1>0, DoneCall DEF OnlyThis
<1>4. Typed'
  BY <1>0, <1>1, <1>2, <1>3 DEF Typed
<1> QED BY <1>0, <1>1, <1>2, <1>3, <1>4, NobodyActs

\* A row expires.
LEMMA ExpireKept ==
    ASSUME Inv, NEW t \in Tokens, Expire(t)
    PROVE  Inv'
<1>0. Typed /\ UNCHANGED <<load, call, faults, status, password, cookie, raced, ended>>
  BY DEF Inv, Expire, callVars, userVars, browserVars, historyVars
<1>1. /\ session' \in [Tokens -> RowType]
      /\ \A u \in Tokens :
            /\ session'[u].state = session[u].state /\ session'[u].family = session[u].family
            /\ session'[u].from = session[u].from /\ session'[u].met = session[u].met
            /\ session'[u].pw = session[u].pw
  <2> DEFINE row == [session[t] EXCEPT !.old = TRUE]
  <2>1. session[t] \in RowType
    BY <1>0 DEF Typed
  <2>2. /\ row \in RowType /\ row.state = session[t].state /\ row.family = session[t].family
        /\ row.from = session[t].from /\ row.met = session[t].met /\ row.pw = session[t].pw
    BY <2>1 DEF RowType
  <2>3. session' = [session EXCEPT ![t] = row]
    BY DEF Expire
  <2> HIDE DEF row
  <2> QED BY <1>0, <2>2, <2>3 DEF Typed
<1>2. Typed'
  BY <1>0, <1>1 DEF Typed
<1> QED BY <1>0, <1>1, <1>2, NobodyActs
-----------------------------------------------------------------------------
(* The step that makes a session *)

\* The next token is the first without a row.
LEMMA NextTokenIsNew ==
    ASSUME Numbered, NextToken \in Tokens
    PROVE  NextToken \notin Made /\ Made \union {NextToken} = 1..NextToken
<1>1. PICK k \in Tokens \union {0} : Made = 1..k
  BY DEF Numbered
<1>2. k \in Nat
  BY TokensCounted
<1>3. Cardinality(1..k) = k
  BY <1>2, FS_Interval
<1>4. NextToken = 1 + Cardinality(Made)
  BY Zenon DEF NextToken, Made
<1>5. NextToken = k + 1
  BY <1>1, <1>2, <1>3, <1>4
<1> QED BY <1>1, <1>2, <1>5

\* What the new row n says, made by request c.
Created(c, n) ==
    LET t == call[c].token IN
    /\ session'[n].state = "live"
    /\ \/ /\ call[c].op \in {"login", "oauth"}
          /\ Family(n)' = n /\ session'[n].from = 0
       \/ /\ call[c].op = "refresh" /\ t \in Made
          /\ Family(n)' = Family(t) /\ session'[n].from = t
    /\ Whole => Current(session'[n].pw, session'[n].met)

\* The row a login or a rotation makes.
LEMMA RowCreated ==
    ASSUME Inv, NEW c \in Calls, NEW n \in Tokens, n = NextToken, CreateSession(c)
    PROVE  /\ session' \in [Tokens -> RowType] /\ Created(c, n)
           /\ \A u \in Tokens \ {n} : session'[u] = session[u]
<1>0. Typed /\ CallKnown(c) /\ call[c].pc = "create" /\ call[c].op \in {"login", "oauth", "refresh"}
  BY DEF Inv, CreateSession, At, CallKnown, PlaceKnown, Fits
<1>1. call[c] \in CallType /\ call[c].pw \in Nat /\ call[c].met \in SUBSET Watched
  BY <1>0 DEF Typed, CallType
<1>2. PICK row : row = NewRow(c) /\ session' = [session EXCEPT ![n] = row]
  BY DEF CreateSession
<1>3. CASE call[c].op # "refresh"
  <2>1. row = [NoRow EXCEPT !.state = "live", !.family = n, !.pw = call[c].pw,
                            !.met = call[c].met \intersect {"password"}]
    BY <1>2, <1>3 DEF NewRow, FirstRow
  <2>2. NoRow \in RowType /\ NoRow.from = 0
    BY DEF NoRow, RowType
  <2>3. /\ row \in RowType /\ row.state = "live" /\ row.family = n /\ row.from = 0
        /\ row.pw = call[c].pw /\ row.met = call[c].met \intersect {"password"}
    BY <1>1, <2>1, <2>2 DEF RowType
  <2>4. Current(call[c].pw, call[c].met)
    BY <1>0 DEF CallKnown, PasswordKnown
  <2> QED BY <1>0, <1>2, <1>3, <2>3, <2>4 DEF Typed, Created, Family, Current
<1>4. CASE call[c].op = "refresh"
  <2>0. PICK t \in Made : t = call[c].token /\ t \in Tokens
    BY <1>0, <1>4 DEF CallKnown, PlaceKnown, OfFamily, Made
  <2>1. row = [session[t] EXCEPT !.state = "live", !.from = t, !.old = FALSE,
                 !.met = session[t].met \union (call[c].met \intersect {"password"})]
    BY <1>2, <1>4, <2>0 DEF NewRow
  <2>2. session[t] \in RowType
    BY <1>0, <2>0 DEF Typed
  <2>3. /\ row \in RowType /\ row.state = "live" /\ row.family = session[t].family /\ row.from = t
        /\ row.pw = session[t].pw
        /\ row.met = session[t].met \union (call[c].met \intersect {"password"})
    BY <1>1, <2>0, <2>1, <2>2 DEF RowType
  <2>4. Whole => Current(session[t].pw, session[t].met \union call[c].met)
    BY <1>0, <1>4, <2>0 DEF CallKnown, RotationKnown, Rotating
  <2> QED BY <1>0, <1>2, <1>4, <2>0, <2>3, <2>4 DEF Typed, Created, Family, Current
<1> QED BY <1>3, <1>4

\* The rotation that lets a token be exchanged found it without a successor and its family
\* without another good token.
LEMMA CreateSessionKept ==
    ASSUME Inv, NEW c \in Calls, CreateSession(c)
    PROVE  Inv'
<1>0. /\ Typed /\ CallKnown(c) /\ call[c].pc = "create" /\ call[c].op \in {"login", "oauth", "refresh"}
      /\ UNCHANGED <<load, faults, password, status, cookie, raced, ended>>
      /\ NextToken \in Tokens
  BY DEF Inv, CreateSession, At, SessionsOnly, Carried, userVars, browserVars, historyVars, CallKnown,
     PlaceKnown, Fits
<1>1. PICK n \in Tokens : n = NextToken
  BY <1>0
<1>2. n \notin Made /\ Made \union {n} = 1..n /\ n # 0
  BY <1>0, <1>1, NextTokenIsNew, TokensCounted DEF Inv
<1>3. /\ session' \in [Tokens -> RowType] /\ Created(c, n)
      /\ \A u \in Tokens \ {n} : session'[u] = session[u]
  BY <1>1, RowCreated
<1>4. /\ call' \in [Calls -> CallType] /\ OnlyThis(c) /\ call'[c].pc = "set"
      /\ call'[c].token = n /\ call'[c].op = call[c].op /\ call'[c].by = call[c].by
      /\ call'[c].pw = call[c].pw /\ call'[c].rows = call[c].rows /\ call'[c].met = call[c].met
  <2> DEFINE new == [call[c] EXCEPT !.pc = "set", !.token = n]
  <2>1. call[c] \in CallType
    BY <1>0 DEF Typed
  <2>2. /\ new \in CallType /\ new.pc = "set" /\ new.token = n /\ new.pw = call[c].pw
        /\ new.op = call[c].op /\ new.by = call[c].by
        /\ new.rows = call[c].rows /\ new.met = call[c].met
    BY <2>1 DEF CallType, Places
  <2>3. call' = [call EXCEPT ![c] = new]
    BY <1>1 DEF CreateSession
  <2> HIDE DEF new
  <2> QED BY <1>0, <2>2, <2>3 DEF Typed, OnlyThis
<1>5. Typed'
  BY <1>0, <1>3, <1>4 DEF Typed
<1>6. Made' = Made \union {n}
  BY <1>2, <1>3 DEF Made, Created
<1>7. Numbered' /\ ended' \subseteq Made'
      /\ \A b \in Browsers : cookie'[b] # 0 => cookie'[b] \in Made'
  BY <1>0, <1>2, <1>6 DEF Inv, Numbered
<1>8. /\ \A u \in Tokens \ {n} : /\ Family(u)' = Family(u) /\ (Live(u)' <=> Live(u))
                                 /\ (u \in Alive' <=> u \in Alive)
      /\ \A u \in Tokens : Live(u) => u \in Made
      /\ \A u \in Made : u \in Tokens /\ Family(u) \in Made
  BY <1>3 DEF Inv, RowKnown, Family, Live, Alive, Made
\* The token of a rotation.
<1>9. ASSUME call[c].op = "refresh"
      PROVE  LET t == call[c].token IN
             /\ t \in Made /\ ~Live(t) /\ Family(n)' = Family(t) /\ session'[n].from = t
             /\ \/ Family(t) \in raced
                \/ /\ ~Succeeded(t) /\ Family(t) \notin ended
                   /\ \A u \in Tokens : Live(u) /\ Family(u) = Family(t) => u = t
  BY <1>0, <1>3, <1>9 DEF CallKnown, RotationKnown, Rotating, Created
<1>10. ASSUME call[c].op # "refresh" PROVE Family(n)' = n /\ session'[n].from = 0
  BY <1>3, <1>10 DEF Created
<1>11. ASSUME NEW u \in Tokens PROVE RowKnown(u)' /\ RowCurrent(u)'
  <2>1. CASE u = n
    <3>1. RowKnown(u)'
      BY <1>2, <1>6, <1>8, <1>9, <1>10, <2>1 DEF RowKnown
    <3>2. RowCurrent(u)'
      BY <1>0, <1>3, <2>1 DEF Created, RowCurrent, Whole, Current
    <3> QED BY <3>1, <3>2
  <2>2. CASE u # n
    <3>1. RowKnown(u) /\ RowCurrent(u)
      BY DEF Inv
    <3>2. RowKnown(u)'
      BY <1>2, <1>3, <1>6, <1>8, <2>2, <3>1 DEF RowKnown
    <3>3. Doomed(u) => Doomed(u)'
      BY <1>0, <1>4 DEF Doomed, OnlyThis
    <3>4. RowCurrent(u)'
      BY <1>0, <1>3, <1>8, <2>2, <3>1, <3>3 DEF RowCurrent, Whole, Current
    <3> QED BY <3>2, <3>4
  <2> QED BY <2>1, <2>2
\* The family of the new row has no other good token, or was raced for.
<1>12. ASSUME NEW u \in Made, Live(u), Family(u) = Family(n)' PROVE Family(u) \in raced
  BY <1>2, <1>8, <1>9, <1>10, <1>12
<1>13. OneLive'
  BY <1>0, <1>6, <1>8, <1>12 DEF Inv, OneLive
<1>14. OneSuccessor'
  <2> SUFFICES ASSUME NEW t \in Tokens, NEW u \in Tokens, session'[t].from # 0,
                      session'[t].from = session'[u].from, t # u
               PROVE  session'[t].family \in raced'
    BY DEF OneSuccessor
  <2>1. CASE t # n /\ u # n
    BY <1>0, <1>3, <2>1 DEF Inv, OneSuccessor
  <2>2. ASSUME NEW x \in Tokens \ {n}, session[x].from # 0, session[x].from = session'[n].from
        PROVE  /\ Family(n)' \in raced /\ Family(x) = Family(n)'
    <3>1. call[c].op = "refresh"
      BY <1>10, <2>2
    <3>2. PICK t1 \in Made : t1 = call[c].token
      BY <1>9, <3>1
    <3>3. session[x].from = t1 /\ Succeeded(t1)
      BY <1>9, <2>2, <3>1, <3>2 DEF Succeeded
    <3>4. Family(t1) \in raced
      BY <1>9, <3>1, <3>2, <3>3
    <3>5. RowKnown(x) /\ Family(x) = Family(t1)
      BY <2>2, <3>3 DEF Inv, RowKnown
    <3> QED BY <1>9, <3>1, <3>2, <3>4, <3>5
  <2>3. CASE t = n
    BY <1>0, <1>3, <2>2, <2>3 DEF Family
  <2>4. CASE u = n
    BY <1>0, <1>3, <2>2, <2>4 DEF Family
  <2> QED BY <2>1, <2>3, <2>4
<1>15. EndedStaysEnded'
  <2> SUFFICES ASSUME NEW t \in Tokens, Live(t)', Family(t)' \in ended PROVE Family(t)' \in raced
    BY <1>0 DEF EndedStaysEnded, Live, Family
  <2>1. CASE t # n
    BY <1>8, <2>1 DEF Inv, EndedStaysEnded, Live, Family
  <2>2. CASE t = n
    BY <1>2, <1>9, <1>10, <2>2 DEF Inv
  <2> QED BY <2>1, <2>2
<1>16. ASSUME NEW d \in Calls PROVE OfFamily(call[d].op) => FamilyOf(d)' = FamilyOf(d)
  <2>1. CASE d = c
    BY <1>0, <1>4, <1>9, <2>1 DEF FamilyOf, OfFamily
  <2>2. CASE d # c
    BY <1>2, <1>4, <1>8, <2>2 DEF FamilyOf, OnlyThis, Inv, CallKnown, PlaceKnown, Made
  <2> QED BY <2>1, <2>2
<1>17. ASSUME NEW d \in Calls, NEW e \in Calls, d # e PROVE Meet(d, e)'
  <2>1. \A x \in Calls : call'[x].op = call[x].op /\ call'[x].met = call[x].met
    BY <1>4 DEF OnlyThis
  <2>2. Meet(d, e)
    BY <1>17 DEF Inv
  <2> QED BY <1>0, <1>16, <2>1, <2>2 DEF Meet, InFlight
<1>18. ASSUME NEW d \in Calls PROVE CallKnown(d)'
  <2>0. CallKnown(d)
    BY DEF Inv
  <2>1. CASE d = c
    <3>1. PlaceKnown(c)'
      BY <1>0, <1>2, <1>4, <1>6 DEF CallKnown, PlaceKnown, Fits, OfFamily
    <3>2. StatusKnown(c)' /\ PasswordKnown(c)' /\ RotationKnown(c)'
      BY <1>0, <1>4 DEF CallKnown, StatusKnown, Cleared, PasswordKnown, Current, RotationKnown,
         Rotating
    <3> QED BY <2>1, <3>1, <3>2 DEF CallKnown
  <2>2. CASE d # c
    <3>1. call'[d] = call[d]
      BY <1>4, <2>2 DEF OnlyThis
    <3>2. PlaceKnown(d)' /\ StatusKnown(d)' /\ PasswordKnown(d)'
      BY <1>0, <1>6, <2>0, <3>1 DEF CallKnown, PlaceKnown, Fits, StatusKnown, Cleared,
         PasswordKnown, Current
    <3>3. RotationKnown(d)'
      <4>1. CASE ~Rotating(d)
        BY <3>1, <4>1 DEF RotationKnown, Rotating
      <4>2. CASE Rotating(d)
        <5>1. PICK t \in Made : t = call[d].token /\ t \in Tokens /\ t # n
          BY <1>2, <2>0, <4>2 DEF CallKnown, PlaceKnown, Rotating, OfFamily, Made
        <5>2. /\ \/ Family(t) \in raced
                 \/ /\ ~Succeeded(t) /\ Family(t) \notin ended
                    /\ \A u \in Tokens : Live(u) /\ Family(u) = Family(t) => u = t
              /\ call[d].pc = "create" => ~Live(t)
              /\ Whole => Current(session[t].pw, session[t].met \union call[d].met)
          BY <2>0, <4>2, <5>1 DEF CallKnown, RotationKnown
        <5>3. Meet(d, c) /\ Family(t)' = Family(t) /\ session'[t] = session[t]
          BY <1>3, <1>8, <2>2, <5>1 DEF Inv
        <5>4. Family(n)' = Family(t) => Family(t) \in raced
          <6>1. CASE call[c].op = "refresh"
            BY <1>9, <4>2, <5>1, <5>3, <6>1 DEF Meet, InFlight, Rotating, OfFamily, FamilyOf
          <6>2. CASE call[c].op # "refresh"
            BY <1>2, <1>8, <1>10, <5>1, <6>2
          <6> QED BY <6>1, <6>2
        <5>5. Family(t) \in raced \/ (~Succeeded(t) => ~Succeeded(t)')
          <6>1. session'[n].from = t => Family(n)' = Family(t)
            BY <1>9, <1>10, <5>1, TokensCounted
          <6> QED BY <1>3, <5>4, <6>1 DEF Succeeded
        <5>6. Family(t)' \in raced'
              \/ /\ ~Succeeded(t)' /\ Family(t)' \notin ended'
                 /\ \A u \in Tokens : Live(u)' /\ Family(u)' = Family(t)' => u = t
          BY <1>0, <1>8, <5>2, <5>3, <5>4, <5>5
        <5>7. Whole' => Current(session[t].pw, session[t].met \union call[d].met)'
          BY <1>0, <3>1, <5>2, <5>3 DEF Whole, Current
        <5>8. call[d].pc = "create" => ~Live(t)'
          BY <1>8, <5>1, <5>2
        <5> QED BY <3>1, <5>1, <5>6, <5>7, <5>8 DEF RotationKnown
      <4> QED BY <4>1, <4>2
    <3> QED BY <3>2, <3>3 DEF CallKnown
  <2> QED BY <2>1, <2>2
<1> QED BY <1>5, <1>7, <1>11, <1>13, <1>14, <1>15, <1>17, <1>18 DEF Inv
-----------------------------------------------------------------------------
(* The step that starts a request *)

\* A request as it starts: what it overlaps with and the password of the day are all it
\* knows.
Started(c, op, b, t) ==
    /\ call'[c].pc = FirstStep[op] /\ call'[c].op = op /\ call'[c].by = b
    /\ call'[c].token = t /\ call'[c].pw = password /\ call'[c].rows = {}
    /\ \A d \in Calls \ {c} : call[d].op \in Watched => call[d].op \in call'[c].met

\* Another request, which may learn of the new one.
Told(op, d) ==
    /\ call'[d].pc = call[d].pc /\ call'[d].op = call[d].op /\ call'[d].by = call[d].by
    /\ call'[d].token = call[d].token /\ call'[d].pw = call[d].pw
    /\ call'[d].seen = call[d].seen /\ call'[d].rows = call[d].rows
    /\ call[d].met \subseteq call'[d].met
    /\ InFlight(d) /\ op \in Watched => op \in call'[d].met

\* What starting a request does to the calls.
LEMMA CallsStart ==
    ASSUME Typed, NEW c \in Calls, NEW op \in Ops, NEW b \in Browsers \union {"none"},
           NEW t \in Tokens \union {0}, NEW p \in Providers \union {"none"},
           Start(c, op, b, t, p)
    PROVE  /\ call' \in [Calls -> CallType] /\ Started(c, op, b, t)
           /\ \A d \in Calls \ {c} : Told(op, d)
<1> DEFINE others == {d \in Calls \ {c} : call[d].op # "none"}
           met == {call[e].op : e \in others} \intersect Watched
           at(q, m) == [Idle EXCEPT !.pc = q, !.op = op, !.by = b, !.token = t,
                                    !.with = p, !.pw = password, !.met = m]
           new == at(FirstStep[op], met)
           told(d) == [call[d] EXCEPT !.met = call[d].met \union ({op} \intersect Watched)]
<1>1. FirstStep[op] \in Places
  BY DEF FirstStep, Ops, Places
<1>2. password \in Nat /\ met \in SUBSET Watched
  BY DEF Typed
<1>3. /\ new \in CallType /\ new.pc = FirstStep[op] /\ new.op = op /\ new.by = b
      /\ new.token = t /\ new.pw = password /\ new.rows = {} /\ new.met = met
  <2> HIDE DEF met
  <2>1. ASSUME NEW q \in Places, NEW m \in SUBSET Watched
        PROVE  /\ at(q, m) \in CallType /\ at(q, m).pc = q /\ at(q, m).op = op
               /\ at(q, m).by = b /\ at(q, m).token = t /\ at(q, m).pw = password
               /\ at(q, m).rows = {} /\ at(q, m).met = m
    BY <1>2 DEF Idle, CallType
  <2> HIDE DEF at
  <2> QED BY <1>1, <1>2, <2>1
<1>4. ASSUME NEW d \in Calls
      PROVE  /\ told(d) \in CallType /\ told(d).pc = call[d].pc /\ told(d).op = call[d].op
             /\ told(d).by = call[d].by /\ told(d).token = call[d].token
             /\ told(d).pw = call[d].pw /\ told(d).seen = call[d].seen
             /\ told(d).rows = call[d].rows
             /\ told(d).met = call[d].met \union ({op} \intersect Watched)
  <2>1. call[d] \in CallType
    BY DEF Typed
  <2> QED BY <2>1 DEF CallType
<1>5. call' = [d \in Calls |-> IF d = c THEN new
                              ELSE IF d \in others THEN told(d) ELSE call[d]]
  BY DEF Start
<1>6. \A d \in Calls \ {c} : call[d].op \in Watched => call[d].op \in met
  BY DEF Watched
<1> HIDE DEF new, told, met
<1>7. call' \in [Calls -> CallType]
  BY <1>3, <1>4, <1>5 DEF Typed
<1>8. Started(c, op, b, t)
  BY <1>3, <1>5, <1>6 DEF Started
<1>9. ASSUME NEW d \in Calls \ {c} PROVE Told(op, d)
  BY <1>4, <1>5, <1>9 DEF Told, InFlight
<1> QED BY <1>7, <1>8, <1>9

\* The token a request starts with has a row, and its caller is a browser unless it is an
\* administrator's.
StartsRight(op, b, t) ==
    /\ t # 0 => t \in Made
    /\ OfFamily(op) \/ op = "revoke" => t # 0
    /\ op \notin {"suspend", "restore"} => b \in Browsers

\* Every rival of the new request is one whose family is raced for from now on.
LEMMA StartKept ==
    ASSUME Inv, NEW c \in Calls, NEW op \in Ops, NEW b \in Browsers \union {"none"},
           NEW t \in Tokens \union {0}, NEW p \in Providers \union {"none"},
           StartsRight(op, b, t), Start(c, op, b, t, p)
    PROVE  Inv'
<1>0. /\ Typed /\ call[c].pc = "idle" /\ call[c].op = "none"
      /\ UNCHANGED <<load, faults, status, password, session, cookie, ended>>
  BY DEF Inv, Start, At, userVars, browserVars, CallKnown, PlaceKnown
<1>1. /\ call' \in [Calls -> CallType] /\ Started(c, op, b, t)
      /\ \A d \in Calls \ {c} : Told(op, d)
  BY <1>0, CallsStart
<1>2. /\ raced \subseteq raced'
      /\ \A d \in Calls \ {c} : OfFamily(op) /\ OfFamily(call[d].op) /\ Family(t) = FamilyOf(d)
                                  => Family(t) \in raced'
  <2>1. ASSUME NEW d \in Calls \ {c}, OfFamily(op), OfFamily(call[d].op), Family(t) = FamilyOf(d)
        PROVE  Family(t) \in raced'
    BY <2>1 DEF Start, Family, FamilyOf, OfFamily
  <2>2. raced \subseteq raced'
    BY DEF Start
  <2> QED BY <2>1, <2>2
<1>3. /\ Made' = Made /\ Alive' = Alive
      /\ \A u \in Tokens : Family(u)' = Family(u) /\ (Live(u)' <=> Live(u))
  BY <1>0 DEF Made, Alive, Family, Live
<1>4. Typed' /\ Numbered' /\ ended' \subseteq Made'
      /\ \A a \in Browsers : cookie'[a] # 0 => cookie'[a] \in Made'
  BY <1>0, <1>1, <1>3 DEF Inv, Typed, Numbered
<1>5. OneLive' /\ OneSuccessor' /\ EndedStaysEnded'
  BY <1>0, <1>2, <1>3 DEF Inv, OneLive, OneSuccessor, EndedStaysEnded
<1>6. ASSUME NEW u \in Tokens PROVE RowKnown(u)' /\ RowCurrent(u)'
  <2>1. RowKnown(u) /\ RowCurrent(u)
    BY DEF Inv
  <2>2. Doomed(u) => Doomed(u)'
    BY <1>0, <1>1 DEF Doomed, Told
  <2> QED BY <1>0, <1>3, <2>1, <2>2 DEF RowKnown, RowCurrent, Family, Live, Whole, Current
<1>7. ASSUME NEW d \in Calls \ {c}
      PROVE  /\ call'[d].op = call[d].op /\ call'[d].token = call[d].token
             /\ call[d].met \subseteq call'[d].met
             /\ call[d].op # "none" /\ op \in Watched => op \in call'[d].met
             /\ FamilyOf(d)' = FamilyOf(d)
  BY <1>0, <1>1 DEF Told, InFlight, FamilyOf, Family
<1>8. ASSUME NEW d \in Calls, NEW e \in Calls, d # e PROVE Meet(d, e)'
  <2>1. CASE d # c /\ e # c
    <3>1. Meet(d, e)
      BY <1>8 DEF Inv
    <3> QED BY <1>2, <1>7, <2>1, <3>1 DEF Meet, InFlight
  <2>2. FamilyOf(c)' = Family(t) /\ call'[c].op = op
    BY <1>0, <1>1 DEF FamilyOf, Family, Started
  <2>3. CASE d = c
    BY <1>1, <1>2, <1>7, <1>8, <2>2, <2>3 DEF Meet, InFlight, Started
  <2>4. CASE e = c
    BY <1>1, <1>2, <1>7, <1>8, <2>2, <2>4 DEF Meet, InFlight, Started
  <2> QED BY <2>1, <2>3, <2>4
<1>9. CallKnown(c)'
  <2>1. PlaceKnown(c)'
    BY <1>1, <1>3 DEF PlaceKnown, Fits, Started, StartsRight, FirstStep, Ops, OfFamily
  <2>2. FirstStep[op] \notin {"mark", "create", "link", "account"}
    BY DEF FirstStep, Ops
  <2>3. StatusKnown(c)' /\ PasswordKnown(c)' /\ RotationKnown(c)'
    BY <1>0, <1>1, <2>2 DEF StatusKnown, Cleared, PasswordKnown, Current, RotationKnown,
       Rotating, Started
  <2> QED BY <2>1, <2>3 DEF CallKnown
<1>10. ASSUME NEW d \in Calls \ {c} PROVE CallKnown(d)'
  <2>0. CallKnown(d) /\ Told(op, d)
    BY <1>1 DEF Inv
  <2>1. PlaceKnown(d)'
    BY <1>3, <2>0 DEF CallKnown, PlaceKnown, Fits, Told
  <2>2. StatusKnown(d)' /\ PasswordKnown(d)'
    BY <1>0, <2>0 DEF CallKnown, StatusKnown, Cleared, PasswordKnown, Current, Told
  <2>3. RotationKnown(d)'
    <3>1. CASE ~Rotating(d)
      BY <2>0, <3>1 DEF RotationKnown, Rotating, Told
    <3>2. CASE Rotating(d)
      <4>1. PICK u \in Made : u = call[d].token /\ u \in Tokens
        BY <2>0, <3>2 DEF CallKnown, PlaceKnown, Rotating, OfFamily, Made
      <4>2. /\ \/ Family(u) \in raced
               \/ /\ ~Succeeded(u) /\ Family(u) \notin ended
                  /\ \A v \in Tokens : Live(v) /\ Family(v) = Family(u) => v = u
            /\ call[d].pc = "create" => ~Live(u)
            /\ Whole => Current(session[u].pw, session[u].met \union call[d].met)
        BY <2>0, <3>2, <4>1 DEF CallKnown, RotationKnown
      <4>3. Succeeded(u)' <=> Succeeded(u)
        BY <1>0 DEF Succeeded
      <4>4. Whole' => Current(session[u].pw, session[u].met \union call[d].met)'
        BY <1>0, <2>0, <4>2 DEF Whole, Current, Told
      <4>5. call'[d].token = u /\ call'[d].pc = call[d].pc
        BY <2>0, <4>1 DEF Told
      <4> QED BY <1>0, <1>2, <1>3, <4>1, <4>2, <4>3, <4>4, <4>5 DEF RotationKnown
    <3> QED BY <3>1, <3>2
  <2> QED BY <2>1, <2>2, <2>3 DEF CallKnown
<1> QED BY <1>4, <1>5, <1>6, <1>8, <1>9, <1>10 DEF Inv

\* Every request starts with a token that has a row, or with none.
LEMMA StartsKept ==
    ASSUME Inv, NEW c \in Calls, Starts(c)
    PROVE  Inv'
<1>1. /\ \A b \in Browsers : cookie[b] \in Tokens \union {0} /\ (cookie[b] # 0 => cookie[b] \in Made)
      /\ \A t \in Alive : t \in Tokens /\ t \in Made /\ t # 0
  BY TokensCounted DEF Inv, Typed, Alive, Made
<1>2. PICK op \in Ops, b \in Browsers \union {"none"}, t \in Tokens \union {0},
           p \in Providers \union {"none"} :
        StartsRight(op, b, t) /\ Start(c, op, b, t, p)
  <2>1. CASE \E b \in Browsers : cookie[b] = 0 /\ Start(c, "login", b, 0, "none")
    BY <2>1 DEF Ops, StartsRight, OfFamily
  <2>2. CASE \E b \in Browsers, p \in Providers : cookie[b] = 0 /\ Start(c, "oauth", b, 0, p)
    BY <2>2 DEF Ops, StartsRight, OfFamily
  <2>3. CASE \E b \in Browsers, op \in {"refresh", "logout"} :
                cookie[b] # 0 /\ Start(c, op, b, cookie[b], "none")
    BY <1>1, <2>3 DEF Ops, StartsRight, OfFamily
  <2>4. CASE \E b \in Browsers, op \in {"others", "password"} : Start(c, op, b, cookie[b], "none")
    BY <1>1, <2>4 DEF Ops, StartsRight, OfFamily
  <2>5. CASE \E b \in Browsers, t \in Alive : Start(c, "revoke", b, t, "none")
    BY <1>1, <2>5 DEF Ops, StartsRight, OfFamily
  <2>6. CASE \E b \in Browsers, op \in {"link", "unlink"}, p \in Providers : Start(c, op, b, 0, p)
    BY <2>6 DEF Ops, StartsRight, OfFamily
  <2>7. CASE \E op \in {"suspend", "restore"} : Start(c, op, "none", 0, "none")
    BY <2>7 DEF Ops, StartsRight, OfFamily
  <2> QED BY <2>1, <2>2, <2>3, <2>4, <2>5, <2>6, <2>7, Zenon DEF Starts
<1> QED BY <1>2, StartKept
-----------------------------------------------------------------------------
(* The invariant, and what follows from it *)

\* At first every signed-in browser holds the one token of a family.
LEMMA InitInv == Init => Inv
<1> SUFFICES ASSUME Init PROVE Inv
  OBVIOUS
<1>0. /\ load \in Workloads /\ cookie = load.cookie /\ faults = load.losses
      /\ call = [c \in Calls |-> Idle] /\ status = "ACTIVE" /\ password = 0
      /\ raced = {} /\ ended = {}
  BY DEF Init
<1>1. load.losses \in Nat /\ cookie \in [Browsers -> Tokens \union {0}]
  BY <1>0, WorkloadsType
<1>2. PICK k \in Tokens \union {0} : {cookie[b] : b \in Browsers} \ {0} = 1..k
  <2>1. \E k \in Tokens \union {0} : {load.cookie[b] : b \in Browsers} \ {0} = 1..k
    BY <1>0, WorkloadsType, Zenon
  <2> QED BY <1>0, <2>1
<1>3. /\ NoRow \in RowType /\ NoRow.state = "none" /\ NoRow.from = 0 /\ NoRow.pw = 0
  BY DEF NoRow, RowType
<1>4. ASSUME NEW t \in Tokens
      PROVE  /\ session[t] \in RowType /\ session[t].from = 0 /\ session[t].pw = 0
             /\ (\E b \in Browsers : cookie[b] = t) => session[t].state = "live" /\ session[t].family = t
             /\ ~(\E b \in Browsers : cookie[b] = t) => session[t].state = "none"
  <2> DEFINE row == [NoRow EXCEPT !.state = "live", !.family = t]
  <2>1. row \in RowType /\ row.from = 0 /\ row.pw = 0 /\ row.state = "live" /\ row.family = t
    BY <1>3 DEF NoRow, RowType
  <2>2. session[t] = IF \E b \in Browsers : cookie[b] = t THEN row ELSE NoRow
    BY DEF Init
  <2> HIDE DEF row
  <2> QED BY <1>3, <2>1, <2>2
<1>5. Made = 1..k
  <2>1. \A t \in Tokens : t \in Made <=> \E b \in Browsers : cookie[b] = t
    BY <1>4 DEF Made
  <2>2. \A t \in Tokens : t \in 1..k <=> \E b \in Browsers : cookie[b] = t
    BY <1>2, TokensCounted
  <2>3. 1..k \subseteq Tokens
    BY TokensCounted
  <2> QED BY <2>1, <2>2, <2>3 DEF Made
<1>6. Typed /\ Numbered /\ ended \subseteq Made
  <2>1. session \in [Tokens -> RowType]
    BY <1>4 DEF Init
  <2>2. call \in [Calls -> CallType]
    BY IdleType DEF Init
  <2>3. faults \in Nat /\ faults <= load.losses
    BY <1>0, <1>1
  <2> QED BY <1>0, <1>1, <1>5, <2>1, <2>2, <2>3 DEF Typed, Numbered, UserStatus
<1>7. \A b \in Browsers : cookie[b] # 0 => cookie[b] \in Made
  BY <1>1, <1>4 DEF Made
<1>8. ASSUME NEW c \in Calls PROVE CallKnown(c) /\ call[c].op = "none"
  BY DEF Init, Idle, CallKnown, PlaceKnown, Fits, StatusKnown, Cleared, PasswordKnown,
     RotationKnown, Rotating, OfFamily
<1>9. ASSUME NEW t \in Tokens PROVE RowKnown(t) /\ RowCurrent(t) /\ (Live(t) => Family(t) = t)
  BY <1>4 DEF Init, RowKnown, RowCurrent, Current, Live, Family, Made
<1>10. OneLive /\ OneSuccessor /\ EndedStaysEnded
  BY <1>0, <1>4, <1>9 DEF OneLive, OneSuccessor, EndedStaysEnded, Live, Family
<1> QED BY <1>6, <1>7, <1>8, <1>9, <1>10 DEF Inv, Meet, InFlight

\* Nothing happens.
LEMMA StutterKept ==
    ASSUME Inv, UNCHANGED vars
    PROVE  Inv'
<1>1. Typed /\ UNCHANGED <<load, call, faults, status, password, session, cookie, raced, ended>>
  BY DEF Inv, vars, callVars, userVars, browserVars, historyVars
<1>2. Typed'
  BY <1>1 DEF Typed
<1> QED BY <1>1, <1>2, NobodyActs

\* Every step keeps the invariant.
LEMMA NextKept ==
    ASSUME Inv, [Next]_vars
    PROVE  Inv'
<1>1. ASSUME NEW c \in Calls, Step(c) PROVE Inv'
  BY <1>1, CheckCredentialsKept, FindIdentityKept, ReadUserKept, LinkIdentityKept,
     CreateSessionKept, FindSessionKept, CheckAccountKept, MarkUsedKept, DiscardKept, ListKept,
     DeleteKept, VerifyPasswordKept, WritePasswordKept, CountIdentitiesKept, UnlinkIdentityKept,
     ReadStatusKept, SetStatusKept, DeleteOneKept, ReceiveKept DEF Step
<1> QED BY <1>1, StartsKept, LoseKept, ExpireKept, StutterKept DEF Next

\* The invariant holds in every reachable state.
LEMMA Invariant == Spec => []Inv
<1>1. Init => Inv
  BY InitInv
<1>2. Inv /\ [Next]_vars => Inv'
  BY NextKept
<1> QED BY <1>1, <1>2, PTL DEF Spec

\* A refresh token is exchanged for one other unless two requests were about its family at
\* once (auth.ts:315-410).
THEOREM TokensHaveOneSuccessor == Spec => []OneSuccessor
<1>1. Inv => OneSuccessor
  BY DEF Inv
<1> QED BY <1>1, Invariant, PTL

\* A family that a logout or a token used twice put an end to keeps no good token, but for
\* requests that raced (auth.ts:325-357, 433-446).
THEOREM EndsAreFinal == Spec => []EndedStaysEnded
<1>1. Inv => EndedStaysEnded
  BY DEF Inv
<1> QED BY <1>1, Invariant, PTL

\* When no request was lost and no change of the password is under way, a good session is
\* one of the password in force, or one of a request that met a change (auth.ts:583-626).
THEOREM NewPasswordsEndSessions == Spec => []PasswordEndsSessions
<1>1. Inv => PasswordEndsSessions
  <2> SUFFICES ASSUME Inv, Whole, \A c \in Calls : call[c].op # "password", NEW t \in Alive
               PROVE  session[t].pw = password \/ "password" \in session[t].met
    BY DEF PasswordEndsSessions, Whole
  <2>1. RowCurrent(t) /\ ~Doomed(t)
    BY DEF Inv, Alive, Doomed
  <2> QED BY <2>1 DEF RowCurrent, Current
<1> QED BY <1>1, Invariant, PTL

\* A row is made by the step of a request that had cleared the account
\* (auth.ts:267-272, 366-383, 1110-1124).
THEOREM OnlyActiveUsersGetSessions == Spec => SuspendedGetsNothing
<1> DEFINE Allowed == \A t \in Tokens : session[t].state = "none" /\ session'[t].state # "none" =>
                        \/ status = "ACTIVE"
                        \/ \E c \in Calls : At(c, "create") /\ "suspend" \in call[c].met
<1>1. ASSUME Inv, [Next]_vars PROVE Allowed
  <2>1. ASSUME NEW c \in Calls, CreateSession(c) PROVE Allowed
    BY <1>1, <2>1 DEF Inv, CreateSession, At, CallKnown, StatusKnown, Cleared
  <2>2. ASSUME UNCHANGED session PROVE Allowed
    BY <2>2
  <2>3. ASSUME NEW t \in Made, Deleted(t) PROVE Allowed
    BY <1>1, <2>3, DeletedFades DEF Inv, Fades, Made
  <2>4. ASSUME NEW c \in Calls, Step(c) PROVE Allowed
    <3>1. ASSUME MarkUsed(c) PROVE Allowed
      <4>1. PICK t \in Made : t = call[c].token
        BY <1>1, <3>1 DEF Inv, MarkUsed, At, CallKnown, PlaceKnown, Fits, OfFamily
      <4>2. \A u \in Tokens : u # t => session'[u] = session[u]
        BY <1>1, <3>1, <4>1 DEF MarkUsed, Inv, Typed
      <4> QED BY <4>1, <4>2 DEF Made
    <3>2. ASSUME Discard(c) PROVE Allowed
      BY <1>1, <2>3, <3>2 DEF Discard, At, Inv, CallKnown, PlaceKnown, Fits
    <3>3. ASSUME Delete(c) PROVE Allowed
      BY <1>1, <2>3, <3>3 DEF Delete, Inv, CallKnown, PlaceKnown
    <3>4. ASSUME DeleteOne(c) PROVE Allowed
      BY <2>2, <2>3, <3>4 DEF DeleteOne, Alive, Made
    <3>5. ASSUME WritePassword(c) PROVE Allowed
      <4>1. ASSUME NEW u \in Tokens PROVE session'[u].state = session[u].state
        <5>1. session[u] \in RowType
          BY <1>1 DEF Inv, Typed
        <5>2. [session[u] EXCEPT !.pw = password + 1].state = session[u].state
          BY <5>1 DEF RowType
        <5> QED BY <3>5, <5>2 DEF WritePassword
      <4> QED BY <4>1
    <3>6. \/ UNCHANGED session \/ CreateSession(c) \/ MarkUsed(c) \/ Discard(c) \/ Delete(c)
          \/ DeleteOne(c) \/ WritePassword(c)
      BY <2>4 DEF Step, CheckCredentials, FindIdentity, ReadUser, LinkIdentity, FindSession,
         CheckAccount, List, VerifyPassword, CountIdentities, UnlinkIdentity, ReadStatus,
         SetStatus, Receive, Unseen
    <3> QED BY <2>1, <2>2, <3>1, <3>2, <3>3, <3>4, <3>5, <3>6
  <2>5. ASSUME NEW t \in Tokens, Expire(t) PROVE Allowed
    <3>1. session[t] \in RowType
      BY <1>1 DEF Inv, Typed
    <3>2. [session[t] EXCEPT !.old = TRUE].state = session[t].state
      BY <3>1 DEF RowType
    <3>3. \A u \in Tokens : session'[u].state = session[u].state
      BY <1>1, <2>5, <3>2 DEF Expire, Inv, Typed
    <3> QED BY <3>3
  <2>6. \/ UNCHANGED session \/ (\E c \in Calls : Step(c)) \/ (\E t \in Tokens : Expire(t))
    <3>1. ASSUME NEW c \in Calls, Starts(c) PROVE UNCHANGED session
      <4>1. \A op, b, t, p : Start(c, op, b, t, p) => UNCHANGED session
        BY DEF Start
      <4> QED BY <3>1, <4>1, Zenon DEF Starts
    <3>2. \A c \in Calls : Lose(c) => UNCHANGED session
      BY DEF Lose
    <3>3. UNCHANGED vars => UNCHANGED session
      BY DEF vars
    <3> QED BY <1>1, <3>1, <3>2, <3>3, Zenon DEF Next
  <2> QED BY <2>2, <2>4, <2>5, <2>6
<1>2. Inv /\ [Next]_vars => [Allowed]_vars
  BY <1>1
<1> QED BY <1>2, Invariant, PTL DEF Spec, SuspendedGetsNothing
=============================================================================
