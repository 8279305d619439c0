----------------------------- MODULE ModuleProofs -----------------------------
(***************************************************************************)
(* Proofs about the native module and the service it talks to.  First the  *)
(* licenses, for every set of requests, installations, nonces and keys,    *)
(* and however many operations and faults: nothing is given out after a    *)
(* revocation, a nonce buys one lease, and a lease can be checked with a   *)
(* trusted key.                                                            *)
(***************************************************************************)
EXTENDS LicenseClient, ModuleScheduler, FiniteSetTheorems, SequenceTheorems, TLAPS

Operations == {"none", "register", "verify", "activate", "dek", "rotate"}

Places == Outcomes \union
    {"idle", "license", "lookup", "insert", "installation", "confirm", "nonce", "version",
     "key", "store", "lease", "release", "current", "demote", "mint", "install"}

CallType ==
    [pc : Places, op : Operations, on : Keys \union {"none"},
     nonce : Nonces \union {"none"}, key : KeyIds \union {"none"},
     heard : BOOLEAN, barred : BOOLEAN]
LeaseType ==
    [on : Keys \union {"none"}, nonce : Nonces \union {"none"},
     key : KeyIds \union {"none"}, signedBy : KeyIds \union {"none"},
     live : BOOLEAN, barred : BOOLEAN, rotating : BOOLEAN]
ModuleType ==
    [step : {"register", "verify", "activate", "done"},
     asks : {"none", "register", "verify", "activate"},
     nonce : Nonces \union {"none"}, tries : Nat, waits : Calls \union {"none"}]

LicenseTypeOK ==
    /\ load \in Workloads
    /\ faults \in Nat /\ faults <= load.losses
    /\ call \in [Calls -> CallType] /\ yanked \in BOOLEAN
    /\ installation \in [Keys -> InstallationStatus]
    /\ leases \subseteq LeaseType
    /\ released \subseteq [on : Keys \union {"none"}, barred : BOOLEAN]
    /\ serverKeys \in [KeyIds -> {"none", "ACTIVE", "PREVIOUS"}]
    /\ env \in KeyIds \union {"none"}
    /\ module \in ModuleType

\* A request is at a step of its operation, and all but a rotation name a key.
InTurn(k) ==
    /\ k.pc \in {"lookup", "insert"} => k.op = "register"
    /\ k.pc = "confirm" => k.op = "verify"
    /\ k.pc \in {"nonce", "version", "key", "store"} => k.op = "activate"
    /\ k.pc \in {"lease", "release"} => k.op = "dek"
    /\ k.pc = "license" => k.op \in {"register", "activate", "dek"}
    /\ k.pc = "installation" => k.op \in {"verify", "activate", "dek"}
    /\ k.pc \in {"current", "demote", "mint", "install"} => k.op = "rotate"
    /\ k.op \notin {"none", "rotate"} => k.on \in Keys
CallsAreInTurn == \A c \in Calls : InTurn(call[c])

\* What a request that came too late will be refused for is still ahead of it.
Doomed(c) ==
    \/ license = "REVOKED" /\ call[c].pc \in {"nonce", "installation", "lease", "license"}
    \/ /\ call[c].op = "activate" /\ yanked
       /\ call[c].pc \in {"nonce", "installation", "license", "version"}
    \/ /\ installation[call[c].on] = "REVOKED" /\ call[c].pc \in {"nonce", "installation"}
       /\ ~\E d \in Calls : At(d, "confirm") /\ call[d].on = call[c].on
LateIsDoomed ==
    \A c \in Calls : call[c].op \in {"activate", "dek"} /\ call[c].barred /\ Working(c)
                        => Doomed(c)

\* Found keys stay trusted.
FoundIsTrusted ==
    /\ \A c \in Calls : At(c, "store") => call[c].key \in Trusted
    /\ \A l \in leases : l.key \in Trusted

\* There is one rotation at a time.  As long as nothing was lost, the one ACTIVE key
\* is the environment's, or there is a rotation that will put it there.
Actives == {k \in KeyIds : serverKeys[k] = "ACTIVE"}
Rotating(c) == call[c].op = "rotate"
OneRotation == \A c, d \in Calls : Rotating(c) /\ Rotating(d) => c = d
ActiveIsInstalled ==
    \A k \in Actives : k = env \/ \E c \in Calls : At(c, "install") /\ call[c].key = k
FoundIsInstalled ==
    \A c \in Calls : At(c, "store") =>
        call[c].key = env \/ \E d \in Calls : Rotating(d) /\ Working(d)
RotationOwnsActives ==
    \A c \in Calls :
        /\ At(c, "demote") \/ At(c, "install") => Actives \subseteq {call[c].key}
        /\ At(c, "mint") => Actives = {}
LeasesAreSigned == \A l \in leases : l.signedBy = l.key \/ l.rotating
NothingLost == faults = load.losses
KeysInv ==
    /\ FoundIsTrusted /\ OneRotation
    /\ NothingLost => ActiveIsInstalled /\ FoundIsInstalled /\ RotationOwnsActives
                        /\ LeasesAreSigned

\* A request at another step is still a request, and so is no request.
LEMMA CallTypes ==
    ASSUME LicenseTypeOK, NEW c \in Calls
    PROVE  /\ \A p \in Places : [call[c] EXCEPT !.pc = p] \in CallType
           /\ [call[c] EXCEPT !.heard = FALSE] \in CallType
           /\ Idle \in CallType
<1>1. call[c] \in CallType
  BY DEF LicenseTypeOK
<1>2. \A p \in Places : [call[c] EXCEPT !.pc = p] \in CallType
  BY <1>1 DEF CallType
<1>3. [call[c] EXCEPT !.heard = FALSE] \in CallType
  BY <1>1 DEF CallType
<1>4. Idle \in CallType
  BY DEF Idle, CallType, Operations, Places
<1> QED BY <1>2, <1>3, <1>4

\* One that ends is heard of, or forgotten.
LEMMA EndedTypes ==
    ASSUME LicenseTypeOK, NEW c \in Calls, NEW p \in Places
    PROVE  Ended(c, p) \in CallType
BY CallTypes DEF Ended

\* A request that goes on is still a request.
LEMMA GoesOn ==
    ASSUME LicenseTypeOK, NEW c \in Calls, NEW p \in Places, Continue(c, p)
    PROVE  call' \in [Calls -> CallType]
BY CallTypes DEF Continue, LicenseTypeOK

\* A request that is answered is still one, or none.
LEMMA Answers ==
    ASSUME LicenseTypeOK, NEW c \in Calls, NEW p \in Places, Answer(c, p)
    PROVE  call' \in [Calls -> CallType]
BY EndedTypes DEF Answer, LicenseTypeOK

\* So is one that has found or minted a key.
LEMMA FindsKey ==
    ASSUME LicenseTypeOK, NEW c \in Calls, NEW p \in Places, NEW k \in KeyIds,
           call' = [call EXCEPT ![c].pc = p, ![c].key = k]
    PROVE  call' \in [Calls -> CallType]
<1>1. [call EXCEPT ![c].pc = p] \in [Calls -> CallType]
  BY CallTypes DEF LicenseTypeOK
<1>2. ASSUME NEW f \in [Calls -> CallType]
      PROVE  [f EXCEPT ![c].key = k] \in [Calls -> CallType]
  <2>1. f[c] \in CallType
    BY <1>2
  <2>2. [f[c] EXCEPT !.key = k] \in CallType
    BY <2>1 DEF CallType
  <2> QED BY <1>2, <2>2
<1> QED BY <1>1, <1>2

\* So is one that passed a check or failed it.
LEMMA Passes ==
    ASSUME LicenseTypeOK, NEW c \in Calls, NEW STATE holds, NEW STATE next, next \in Places,
           Pass(c, holds, next)
    PROVE  call' \in [Calls -> CallType]
<1>1. "refused" \in Places
  BY DEF Places, Outcomes
<1>2. Answer(c, "refused") => call' \in [Calls -> CallType]
  BY <1>1, Answers
<1>3. CASE holds
  <2>1. Continue(c, next)
    BY <1>3 DEF Pass
  <2> QED BY <2>1, CallTypes DEF Continue, LicenseTypeOK
<1>4. CASE ~holds
  BY <1>2, <1>4 DEF Pass
<1> QED BY <1>3, <1>4

\* So is a new request.
LEMMA RequestTypes ==
    ASSUME LicenseTypeOK, NEW c \in Calls, NEW STATE op, op \in Operations \ {"none"},
           NEW i \in Keys \union {"none"}, NEW STATE n, n \in Nonces \union {"none"},
           NEW h \in BOOLEAN, Request(c, op, i, n, h)
    PROVE  call' \in [Calls -> CallType]
<1>1. FirstStep[op] \in Places
  <2>1. \/ op = "register" \/ op = "verify" \/ op = "activate" \/ op = "dek" \/ op = "rotate"
    BY DEF Operations
  <2> QED BY <2>1 DEF FirstStep, Places
<1>2. (op # "rotate" /\ Barred(op, i)) \in BOOLEAN
  OBVIOUS
<1>3. Idle \in CallType
  BY CallTypes
<1>4. [Idle EXCEPT !.pc = FirstStep[op], !.op = op, !.on = i, !.nonce = n, !.heard = h,
                   !.barred = op # "rotate" /\ Barred(op, i)] \in CallType
  BY <1>1, <1>2, <1>3 DEF CallType
<1> QED BY <1>4 DEF Request, LicenseTypeOK

\* A step of the server on a request keeps the types.
LEMMA ServerTypes ==
    ASSUME LicenseTypeOK, NEW c \in Calls, ServerStep(c), UNCHANGED module
    PROVE  LicenseTypeOK'
<1> USE DEF LicenseTypeOK, Places, Outcomes
<1>1. CASE CheckLicense(c)
  <2>1. call' \in [Calls -> CallType]
    BY <1>1, Passes DEF CheckLicense
  <2> QED BY <1>1, <2>1 DEF CheckLicense, Carried, drmVars, keyVars
<1>2. CASE LookUpKey(c)
  <2>1. call' \in [Calls -> CallType]
    BY <1>2, Passes DEF LookUpKey
  <2> QED BY <1>2, <2>1 DEF LookUpKey, Carried, drmVars, keyVars
<1>3. CASE InsertInstallation(c)
  <2>1. call' \in [Calls -> CallType]
    BY <1>3, Answers DEF InsertInstallation
  <2> QED BY <1>3, <2>1 DEF InsertInstallation, InstallationStatus, Carried, keyVars
<1>4. CASE CheckInstallation(c)
  <2>1. call' \in [Calls -> CallType]
    BY <1>4, Passes DEF CheckInstallation
  <2> QED BY <1>4, <2>1 DEF CheckInstallation, Carried, drmVars, keyVars
<1>5. CASE Confirm(c)
  <2>1. call' \in [Calls -> CallType]
    BY <1>5, Answers DEF Confirm
  <2> QED BY <1>5, <2>1 DEF Confirm, InstallationStatus, Carried, keyVars
<1>6. CASE CheckNonce(c) \/ CheckVersion(c) \/ CheckLease(c)
  <2>1. call' \in [Calls -> CallType]
    BY <1>6, Passes DEF CheckNonce, CheckVersion, CheckLease
  <2> QED BY <1>6, <2>1 DEF CheckNonce, CheckVersion, CheckLease, Carried, drmVars, keyVars
<1>7. CASE FindKey(c) \/ FindCurrent(c)
  <2>2. call' \in [Calls -> CallType]
    BY <1>7, Answers, GoesOn, FindsKey DEF FindKey, FindCurrent
  <2> QED BY <1>7, <2>2 DEF FindKey, FindCurrent, Carried, drmVars, keyVars
<1>8. CASE StoreLease(c)
  <2>1. call' \in [Calls -> CallType]
    BY <1>8, Answers DEF StoreLease
  <2>2. Signed(c) \in LeaseType
    BY DEF Signed, CallType, LeaseType
  <2> QED BY <1>8, <2>1, <2>2 DEF StoreLease, Carried, keyVars
<1>9. CASE Release(c)
  <2>1. call' \in [Calls -> CallType]
    BY <1>9, Answers DEF Release
  <2>2. [on |-> call[c].on, barred |-> call[c].barred]
          \in [on : Keys \union {"none"}, barred : BOOLEAN]
    BY DEF CallType
  <2> QED BY <1>9, <2>1, <2>2 DEF Release, Carried, keyVars
<1>10. CASE Demote(c)
  <2>1. call' \in [Calls -> CallType]
    BY <1>10, GoesOn DEF Demote
  <2> QED BY <1>10, <2>1 DEF Demote, Carried
<1>11. CASE Mint(c)
  <2>2. call' \in [Calls -> CallType]
    BY <1>11, FindsKey DEF Mint
  <2> QED BY <1>11, <2>2 DEF Mint, Carried
<1>12. CASE Install(c)
  <2>1. call' \in [Calls -> CallType]
    BY <1>12, EndedTypes DEF Install
  <2>2. call[c].key \in KeyIds \union {"none"}
    BY DEF CallType
  <2> QED BY <1>12, <2>1, <2>2 DEF Install, Carried
<1> QED BY <1>1, <1>2, <1>3, <1>4, <1>5, <1>6, <1>7, <1>8, <1>9, <1>10, <1>11, <1>12
        DEF ServerStep

\* Every row, request and step of the module stays in a state the code can write.
LEMMA Types == ASSUME LicenseTypeOK, [Next]_vars PROVE LicenseTypeOK'
<1>1. ASSUME NEW c \in Calls, ServerStep(c), UNCHANGED module
      PROVE  LicenseTypeOK'
  BY <1>1, ServerTypes
<1>2. ASSUME NEW c \in Calls, Others(c), UNCHANGED module
      PROVE  LicenseTypeOK'
  <2>1. call' \in [Calls -> CallType]
    BY <1>2, RequestTypes DEF Others, Operations
  <2>2. UNCHANGED <<load, faults, drmVars>>
    BY <1>2 DEF Others, Occurs, Request
  <2> QED BY <1>2, <2>1, <2>2 DEF LicenseTypeOK, drmVars, keyVars
<1>3. ASSUME NEW c \in Calls, Lose(c), UNCHANGED module
      PROVE  LicenseTypeOK'
  <2>1. call' \in [Calls -> CallType]
    BY <1>3, Answers DEF Lose, Places, Outcomes
  <2> QED BY <1>3, <2>1, WorkloadsAreTyped DEF Lose, LicenseTypeOK, drmVars, keyVars
<1>4. CASE /\ (\E i \in Keys : RevokeInstallation(i)) \/ RefundLicense \/ YankVersion
           /\ UNCHANGED module
  BY <1>4 DEF RevokeInstallation, RefundLicense, YankVersion, Occurs, LicenseTypeOK,
     InstallationStatus, keyVars
<1>5. ASSUME NEW l \in leases, Expire(l), UNCHANGED module
      PROVE  LicenseTypeOK'
  <2>1. [l EXCEPT !.live = FALSE] \in LeaseType
    BY DEF LicenseTypeOK, LeaseType
  <2>2. leases' \subseteq LeaseType
    <3>1. leases' = (leases \ {l}) \union {[l EXCEPT !.live = FALSE]}
      BY <1>5 DEF Expire
    <3>2. leases \subseteq LeaseType
      BY DEF LicenseTypeOK
    <3> QED BY <2>1, <3>1, <3>2
  <2>3. UNCHANGED <<load, faults, call, yanked, installation, released, serverKeys, env>>
    BY <1>5 DEF Expire, callVars, keyVars
  <2> QED BY <1>5, <2>2, <2>3 DEF LicenseTypeOK
<1>6. CASE CallStep
  <2>1. module' \in ModuleType
    BY <1>6 DEF CallStep, LicenseTypeOK, ModuleType
  <2> QED BY <1>6, <2>1 DEF CallStep, LicenseTypeOK, serverVars, callVars, drmVars, keyVars
<1>7. ASSUME NEW c \in Calls, Send(c) PROVE LicenseTypeOK'
  <2>1. call' \in [Calls -> CallType]
    BY <1>7, RequestTypes, OwnIsAKey DEF Send, Asking, LicenseTypeOK, ModuleType, Operations
  <2>2. module' \in ModuleType
    <3>1. module \in ModuleType /\ module.tries \in Nat
      BY DEF LicenseTypeOK, ModuleType
    <3>2. ASSUME NEW n \in Nat
          PROVE  [module EXCEPT !.waits = c, !.tries = n] \in ModuleType
      <4>1. [module EXCEPT !.waits = c] \in ModuleType
        BY <3>1 DEF ModuleType
      <4> QED BY <4>1 DEF ModuleType
    <3>3. module' = [module EXCEPT !.waits = c, !.tries = module.tries + 1]
      BY <1>7, <3>1 DEF Send, ModuleType
    <3>4. module.tries + 1 \in Nat
      BY <3>1
    <3> QED BY <3>2, <3>3, <3>4
  <2> QED BY <1>7, <2>1, <2>2 DEF Send, Request, Carried, LicenseTypeOK, drmVars, keyVars
<1>8. ASSUME NEW c \in Calls, TimeOut(c) PROVE LicenseTypeOK'
  <2>1. call' \in [Calls -> CallType]
    BY <1>8, CallTypes DEF TimeOut, LicenseTypeOK, CallType
  <2>2. module' \in ModuleType
    BY <1>8 DEF TimeOut, Retry, Over, LicenseTypeOK, ModuleType
  <2> QED BY <1>8, <2>1, <2>2, WorkloadsAreTyped DEF TimeOut, LicenseTypeOK, drmVars, keyVars
<1>9. ASSUME NEW c \in Calls, Broken(c) \/ Receive(c) PROVE LicenseTypeOK'
  <2>1. call' \in [Calls -> CallType]
    <3>1. call' = [call EXCEPT ![c] = Idle]
      BY <1>9 DEF Broken, Receive
    <3> QED BY <3>1, CallTypes DEF LicenseTypeOK
  <2>2. module' \in ModuleType
    <3>1. module \in ModuleType
      BY DEF LicenseTypeOK
    <3>2. \A m \in ModuleType : Over(m) \in ModuleType /\ Learn(m) \in ModuleType
      BY DEF Over, Learn, ModuleType
    <3>3. /\ [module EXCEPT !.step = "activate"] \in ModuleType
          /\ [module EXCEPT !.waits = "none"] \in ModuleType
      BY <3>1 DEF ModuleType
    <3> QED BY <1>9, <3>1, <3>2, <3>3 DEF Broken, Receive, Retry
  <2> QED BY <1>9, <2>1, <2>2 DEF Broken, Receive, Carried, LicenseTypeOK, drmVars, keyVars
<1>10. CASE Restart
  <2>1. call' \in [Calls -> CallType]
    BY <1>10, CallTypes DEF Restart, LicenseTypeOK, CallType
  <2>2. module' \in ModuleType
    BY <1>10 DEF Restart, Fresh, ModuleType
  <2> QED BY <1>10, <2>1, <2>2, WorkloadsAreTyped DEF Restart, LicenseTypeOK, drmVars, keyVars
<1>11. CASE UNCHANGED vars
  BY <1>11 DEF vars, serverVars, callVars, drmVars, keyVars, LicenseTypeOK
<1> QED BY <1>1, <1>2, <1>3, <1>4, <1>5, <1>6, <1>7, <1>8, <1>9, <1>10, <1>11
        DEF Next, ServerNext, ClientStep

-----------------------------------------------------------------------------
\* What a step does to a request: it stays where it is, it ends, or the step is its own.
Stays(d) ==
    /\ call'[d].pc = call[d].pc /\ call'[d].op = call[d].op /\ call'[d].on = call[d].on
    /\ call'[d].key = call[d].key /\ call'[d].barred = call[d].barred
Ends(d) ==
    /\ call'[d].pc \in Outcomes \union {"idle"}
    /\ call'[d].op = "none" \/ (call'[d].op = call[d].op /\ call'[d].on = call[d].on)

\* A request that is answered or lost has ended.
LEMMA EndedEnds ==
    ASSUME LicenseTypeOK, NEW d \in Calls, NEW p \in Outcomes, call'[d] = Ended(d, p)
    PROVE  Ends(d)
<1>1. call[d] \in CallType
  BY DEF LicenseTypeOK
<1>2. CASE call[d].heard
  BY <1>1, <1>2 DEF Ended, Ends, CallType
<1>3. CASE ~call[d].heard
  BY <1>3 DEF Ended, Ends, Idle
<1> QED BY <1>2, <1>3

\* A request nobody waits for any more goes on all the same.
LEMMA UnheardStays ==
    ASSUME LicenseTypeOK, NEW d \in Calls, call'[d] = [call[d] EXCEPT !.heard = FALSE]
    PROVE  Stays(d)
<1>1. call[d] \in CallType
  BY DEF LicenseTypeOK
<1> QED BY <1>1 DEF Stays, CallType

\* A step on one request leaves the others alone, or loses them in the restart.
LEMMA OwnStep ==
    ASSUME LicenseTypeOK, NEW c \in Calls, ServerStep(c)
    PROVE  \A d \in Calls \ {c} : call'[d] = call[d] \/ Ends(d)
<1> SUFFICES ASSUME NEW d \in Calls, d # c PROVE call'[d] = call[d] \/ Ends(d)
  OBVIOUS
<1> USE DEF LicenseTypeOK
<1>1. CASE Install(c)
  BY <1>1, EndedEnds DEF Install, Outcomes
<1>2. CASE CheckLicense(c) \/ LookUpKey(c) \/ InsertInstallation(c) \/ CheckInstallation(c)
  BY <1>2 DEF CheckLicense, LookUpKey, InsertInstallation, CheckInstallation, Pass, Continue,
     Answer
<1>3. CASE Confirm(c) \/ CheckNonce(c) \/ CheckVersion(c) \/ FindKey(c) \/ StoreLease(c)
  BY <1>3 DEF Confirm, CheckNonce, CheckVersion, FindKey, StoreLease, Pass, Continue, Answer
<1>4. CASE CheckLease(c) \/ Release(c) \/ FindCurrent(c) \/ Demote(c) \/ Mint(c)
  BY <1>4 DEF CheckLease, Release, FindCurrent, Demote, Mint, Pass, Continue, Answer
<1> QED BY <1>1, <1>2, <1>3, <1>4 DEF ServerStep

\* Every step leaves a request where it is, ends it, is its own or begins it.
LEMMA Moves ==
    ASSUME LicenseTypeOK, [Next]_vars, NEW d \in Calls
    PROVE  Stays(d) \/ Ends(d) \/ ServerStep(d) \/ Others(d) \/ Send(d)
<1>0. call'[d] = call[d] => Stays(d)
  BY DEF Stays
<1>1. ASSUME NEW c \in Calls, ServerStep(c) PROVE Stays(d) \/ Ends(d) \/ ServerStep(d)
  BY <1>0, <1>1, OwnStep
<1>2. ASSUME NEW c \in Calls, Others(c) PROVE Stays(d) \/ Others(d)
  BY <1>0, <1>2 DEF Others, Request, LicenseTypeOK
<1>3. ASSUME NEW c \in Calls, Lose(c) PROVE Stays(d) \/ Ends(d)
  <2>1. CASE d = c
    BY <1>3, <2>1, EndedEnds DEF Lose, Answer, LicenseTypeOK, Outcomes
  <2>2. CASE d # c
    BY <1>0, <1>3, <2>2 DEF Lose, Answer, LicenseTypeOK
  <2> QED BY <2>1, <2>2
<1>4. CASE \/ (\E i \in Keys : RevokeInstallation(i)) \/ RefundLicense \/ YankVersion
           \/ (\E l \in leases : Expire(l)) \/ CallStep \/ UNCHANGED vars
  <2>1. UNCHANGED call
    BY <1>4 DEF RevokeInstallation, RefundLicense, YankVersion, Expire, CallStep, vars,
       serverVars, callVars
  <2> QED BY <1>0, <2>1
<1>5. ASSUME NEW c \in Calls, Send(c) PROVE Stays(d) \/ Send(d)
  BY <1>0, <1>5 DEF Send, Request, LicenseTypeOK
<1>6. ASSUME NEW c \in Calls, Broken(c) \/ Receive(c) PROVE Stays(d) \/ Ends(d)
  <2>1. call' = [call EXCEPT ![c] = Idle]
    BY <1>6 DEF Broken, Receive
  <2>2. CASE d = c
    BY <2>1, <2>2 DEF Ends, Idle, LicenseTypeOK
  <2> QED BY <1>0, <2>1, <2>2 DEF LicenseTypeOK
<1>7. call'[d] = Idle => Ends(d)
  BY DEF Ends, Idle
<1>8. ASSUME NEW c \in Calls, TimeOut(c) PROVE Stays(d) \/ Ends(d)
  BY <1>0, <1>7, <1>8, UnheardStays DEF TimeOut, LicenseTypeOK
<1>9. CASE Restart
  BY <1>0, <1>7, <1>9, UnheardStays DEF Restart
<1> QED BY <1>1, <1>2, <1>3, <1>4, <1>5, <1>6, <1>8, <1>9 DEF Next, ServerNext, ClientStep
\* Where a request of its own goes from where it is.
Goes(d, p) ==
    /\ call'[d].pc = p /\ call'[d].op = call[d].op /\ call'[d].on = call[d].on
    /\ call'[d].barred = call[d].barred
Advances(d) ==
    \/ At(d, "lookup") /\ Goes(d, "insert")
    \/ At(d, "nonce") /\ Goes(d, "installation")
    \/ At(d, "version") /\ ~yanked /\ Goes(d, "key")
    \/ At(d, "key") /\ Goes(d, "store")
    \/ At(d, "lease") /\ Goes(d, "license")
    \/ call[d].pc \in {"current", "demote", "mint"}
       /\ call'[d].pc \in {"demote", "mint", "install"} /\ Goes(d, call'[d].pc)
    \/ /\ At(d, "license") /\ license = "ACTIVE"
       /\ \/ call[d].op = "register" /\ Goes(d, "lookup")
          \/ call[d].op = "activate" /\ Goes(d, "version")
          \/ call[d].op \notin {"register", "activate"} /\ Goes(d, "release")
    \/ /\ At(d, "installation")
       /\ \/ /\ call[d].op = "verify" /\ Goes(d, "confirm")
             /\ installation[call[d].on] = "PENDING_VERIFICATION"
          \/ /\ call[d].op = "activate" /\ Goes(d, "license")
             /\ installation[call[d].on] = "ACTIVE"
          \/ /\ call[d].op \notin {"verify", "activate"} /\ Goes(d, "lease")
             /\ installation[call[d].on] = "ACTIVE"

\* What the three ways to write a request back mean for it.
LEMMA Continues ==
    ASSUME LicenseTypeOK, NEW d \in Calls, NEW p \in Places
    PROVE  /\ Continue(d, p) => Goes(d, p)
           /\ \A k \in KeyIds :
                call' = [call EXCEPT ![d].pc = p, ![d].key = k] => Goes(d, p)
           /\ p \in Outcomes /\ Answer(d, p) => Ends(d)
<1>1. call[d] \in CallType /\ call \in [Calls -> CallType]
  BY DEF LicenseTypeOK
<1>2. Continue(d, p) => Goes(d, p)
  BY <1>1 DEF Continue, Goes, CallType
<1>3. ASSUME NEW k \in KeyIds, call' = [call EXCEPT ![d].pc = p, ![d].key = k]
      PROVE  Goes(d, p)
  BY <1>1, <1>3 DEF Goes, CallType
<1>4. p \in Outcomes /\ Answer(d, p) => Ends(d)
  BY <1>1, EndedEnds DEF Answer
<1> QED BY <1>2, <1>3, <1>4

\* The steps of one request, in one table.
LEMMA OwnAdvances ==
    ASSUME LicenseTypeOK, NEW d \in Calls, ServerStep(d)
    PROVE  Ends(d) \/ Advances(d)
<1> USE Continues DEF Places, Outcomes, At
<1>1. CASE CheckLicense(d)
  BY <1>1 DEF CheckLicense, Pass, Advances
<1>2. CASE LookUpKey(d) \/ CheckNonce(d) \/ CheckVersion(d) \/ CheckLease(d)
  BY <1>2 DEF LookUpKey, CheckNonce, CheckVersion, CheckLease, Pass, Advances
<1>3. CASE InsertInstallation(d) \/ Confirm(d) \/ StoreLease(d) \/ Release(d)
  BY <1>3 DEF InsertInstallation, Confirm, StoreLease, Release
<1>4. CASE CheckInstallation(d)
  BY <1>4 DEF CheckInstallation, Pass, Advances
<1>5. CASE FindKey(d)
  BY <1>5 DEF FindKey, Advances
<1>6. CASE FindCurrent(d) \/ Demote(d) \/ Mint(d)
  <2>1. Goes(d, "demote") \/ Goes(d, "mint") \/ Goes(d, "install")
    BY <1>6 DEF FindCurrent, Demote, Mint
  <2> QED BY <1>6, <2>1 DEF FindCurrent, Demote, Mint, Advances, Goes
<1>7. CASE Install(d)
  BY <1>7, EndedEnds DEF Install, LicenseTypeOK, Working
<1> QED BY <1>1, <1>2, <1>3, <1>4, <1>5, <1>6, <1>7 DEF ServerStep

\* A request that begins.
Begins(d) ==
    /\ call'[d].op \in Operations \ {"none"} /\ call'[d].pc = FirstStep[call'[d].op]
    /\ call'[d].op # "rotate" => call'[d].on \in Keys
    /\ call'[d].barred = (call'[d].op # "rotate" /\ Barred(call'[d].op, call'[d].on))
    /\ UNCHANGED drmVars

\* What is asked for at the beginning decides what stands against it.
LEMMA OthersBegin ==
    ASSUME LicenseTypeOK, NEW d \in Calls, Others(d) \/ Send(d)
    PROVE  Begins(d)
<1> DEFINE B(op, i) ==
    /\ call'[d].op = op /\ call'[d].pc = FirstStep[op] /\ call'[d].on = i
    /\ call'[d].barred = (op # "rotate" /\ Barred(op, i)) /\ UNCHANGED drmVars
<1>1. ASSUME NEW STATE op, NEW STATE i, NEW STATE n, NEW h \in BOOLEAN,
             Request(d, op, i, n, h)
      PROVE  B(op, i)
  BY <1>1 DEF Request, LicenseTypeOK, Idle
<1> HIDE DEF B
<1>2. CASE Others(d)
  <2>1. \/ \E i \in Keys : B("activate", i) \/ B("dek", i)
        \/ B("rotate", "none")
    BY <1>1, <1>2 DEF Others
  <2> QED BY <2>1 DEF B, Begins, Operations
<1>3. CASE Send(d)
  <2>1. B(module.asks, Own)
    BY <1>1, <1>3 DEF Send
  <2>2. module.asks \in {"register", "verify", "activate"}
    BY <1>3 DEF Send, Asking, LicenseTypeOK, ModuleType
  <2> QED BY <2>1, <2>2, OwnIsAKey DEF B, Begins, Operations
<1> QED BY <1>2, <1>3

\* Every request stays in turn.
LEMMA Turns ==
    ASSUME LicenseTypeOK, CallsAreInTurn, [Next]_vars
    PROVE  CallsAreInTurn'
<1> SUFFICES ASSUME NEW d \in Calls PROVE InTurn(call'[d])
  BY DEF CallsAreInTurn
<1>1. InTurn(call[d]) /\ call[d].op \in Operations
  BY DEF CallsAreInTurn, LicenseTypeOK, CallType
<1>2. CASE Stays(d)
  BY <1>1, <1>2 DEF Stays, InTurn
<1>3. CASE Ends(d)
  BY <1>1, <1>3 DEF Ends, InTurn, Outcomes
<1>4. CASE Advances(d)
  BY <1>1, <1>4 DEF Advances, Goes, At, InTurn, Operations
<1>5. CASE Begins(d)
  <2>1. call'[d].op \in {"register", "verify", "activate", "dek", "rotate"}
    BY <1>5 DEF Begins, Operations
  <2> QED BY <1>5, <2>1 DEF Begins, InTurn, FirstStep
<1> QED BY <1>2, <1>3, <1>4, <1>5, Moves, OwnAdvances, OthersBegin
-----------------------------------------------------------------------------
\* An installation is revoked for good once no verification of it is about to answer.
Confirming(i) == \E c \in Calls : At(c, "confirm") /\ call[c].on = i
Barring ==
    /\ license = "REVOKED" => license' = "REVOKED"
    /\ yanked => yanked'
    /\ \A i \in Keys : installation[i] = "REVOKED" /\ ~Confirming(i)
                        => installation'[i] = "REVOKED" /\ ~Confirming(i)'

\* What stands against a request is never taken back.
LEMMA StaysBarred ==
    ASSUME LicenseTypeOK, CallsAreInTurn, [Next]_vars
    PROVE  Barring
<1>1. (license = "REVOKED" => license' = "REVOKED") /\ (yanked => yanked')
  <2>1. ASSUME NEW c \in Calls, ServerStep(c) PROVE UNCHANGED <<license, yanked>>
    BY <2>1 DEF ServerStep, CheckLicense, LookUpKey, InsertInstallation, CheckInstallation,
       Confirm, CheckNonce, CheckVersion, FindKey, StoreLease, CheckLease, Release, FindCurrent,
       Demote, Mint, Install, drmVars
  <2>2. ASSUME NEW c \in Calls, Others(c) \/ Lose(c) PROVE UNCHANGED <<license, yanked>>
    BY <2>2 DEF Others, Request, Lose, drmVars
  <2>3. CASE (\E i \in Keys : RevokeInstallation(i)) \/ (\E l \in leases : Expire(l))
    BY <2>3 DEF RevokeInstallation, Expire
  <2>4. CASE RefundLicense \/ YankVersion
    BY <2>4 DEF RefundLicense, YankVersion
  <2>5. CASE ClientStep \/ Restart \/ (\E c \in Calls : TimeOut(c)) \/ UNCHANGED vars
    <3>1. UNCHANGED <<license, yanked>>
      BY <2>5 DEF ClientStep, CallStep, Send, Broken, Receive, Request, Restart, TimeOut, vars,
         serverVars, drmVars
    <3> QED BY <3>1
  <2> QED BY <2>1, <2>2, <2>3, <2>4, <2>5 DEF Next, ServerNext
<1>2. ASSUME NEW i \in Keys, installation[i] = "REVOKED", ~Confirming(i)
      PROVE  installation'[i] = "REVOKED"
  <2>1. ASSUME NEW c \in Calls, ServerStep(c) PROVE installation'[i] = "REVOKED"
    <3>1. CASE InsertInstallation(c)
      BY <1>2, <3>1 DEF InsertInstallation, LicenseTypeOK
    <3>2. CASE Confirm(c)
      BY <1>2, <3>2 DEF Confirm, Confirming, LicenseTypeOK
    <3>3. CASE ~InsertInstallation(c) /\ ~Confirm(c)
      <4>1. UNCHANGED installation
        BY <2>1, <3>3 DEF ServerStep, CheckLicense, LookUpKey, CheckInstallation, CheckNonce,
           CheckVersion, FindKey, StoreLease, CheckLease, Release, FindCurrent, Demote, Mint,
           Install, drmVars
      <4> QED BY <1>2, <4>1
    <3> QED BY <3>1, <3>2, <3>3
  <2>2. ASSUME NEW c \in Calls, Others(c) \/ Lose(c) PROVE UNCHANGED installation
    BY <2>2 DEF Others, Request, Lose, drmVars
  <2>3. CASE \/ (\E l \in leases : Expire(l)) \/ RefundLicense \/ YankVersion
             \/ ClientStep \/ Restart \/ (\E c \in Calls : TimeOut(c)) \/ UNCHANGED vars
    <3>1. UNCHANGED installation
      BY <2>3 DEF Expire, RefundLicense, YankVersion, ClientStep, CallStep, Send, Broken,
         Receive, Request, Restart, TimeOut, vars, serverVars, drmVars
    <3> QED BY <1>2, <3>1
  <2>4. ASSUME NEW j \in Keys, RevokeInstallation(j) PROVE installation'[i] = "REVOKED"
    BY <1>2, <2>4 DEF RevokeInstallation, LicenseTypeOK
  <2> QED BY <1>2, <2>1, <2>2, <2>3, <2>4 DEF Next, ServerNext
<1>3. ASSUME NEW i \in Keys, installation[i] = "REVOKED", ~Confirming(i)
      PROVE  ~Confirming(i)'
  <2> SUFFICES ASSUME NEW c \in Calls, call'[c].pc = "confirm", call'[c].on = i PROVE FALSE
    BY DEF Confirming, At
  <2>1. CASE Stays(c)
    BY <1>3, <2>1 DEF Stays, Confirming, At
  <2>2. CASE Ends(c)
    BY <2>2 DEF Ends, Outcomes
  <2>3. CASE Advances(c)
    BY <1>3, <2>3 DEF Advances, Goes, Confirming, At
  <2>4. CASE Begins(c)
    BY <2>4 DEF Begins, FirstStep, Operations
  <2> QED BY <2>1, <2>2, <2>3, <2>4, Moves, OwnAdvances, OthersBegin
<1> QED BY <1>1, <1>2, <1>3 DEF Barring

\* A request that came too late stays doomed until it is refused.
LEMMA LateStaysDoomed ==
    ASSUME LicenseTypeOK, CallsAreInTurn, LateIsDoomed, [Next]_vars
    PROVE  LateIsDoomed'
<1> SUFFICES ASSUME NEW d \in Calls, call'[d].op \in {"activate", "dek"}, call'[d].barred,
                    Working(d)'
             PROVE  Doomed(d)'
  BY DEF LateIsDoomed
<1>1. Barring
  BY StaysBarred
<1>2. InTurn(call[d]) /\ (call[d].op \in {"activate", "dek"} => call[d].on \in Keys)
  BY DEF CallsAreInTurn, InTurn
<1>3. ASSUME call'[d].on = call[d].on, call[d].on \in Keys, Doomed(d),
             \/ call'[d].pc = call[d].pc /\ call'[d].op = call[d].op
      PROVE  Doomed(d)'
  BY <1>1, <1>3 DEF Barring, Doomed, Confirming
<1>4. CASE Stays(d)
  <2>1. Working(d) /\ call[d].op \in {"activate", "dek"} /\ call[d].barred
    BY <1>4 DEF Stays, Working
  <2> QED BY <1>2, <1>3, <1>4, <2>1 DEF Stays, LateIsDoomed
<1>5. CASE Ends(d)
  BY <1>5 DEF Ends, Working
<1>6. CASE Advances(d)
  <2>1. /\ Working(d) /\ call[d].op \in {"activate", "dek"} /\ call[d].barred
        /\ call'[d].on = call[d].on /\ call[d].on \in Keys /\ call'[d].op = call[d].op
    BY <1>2, <1>6 DEF Advances, Goes, Working, Outcomes, At
  <2>2. Doomed(d)
    BY <2>1 DEF LateIsDoomed
  <2>3. \/ license = "REVOKED" /\ call[d].pc \in {"nonce", "installation", "lease", "license"}
        \/ /\ call[d].op = "activate" /\ yanked
           /\ call[d].pc \in {"nonce", "installation", "license", "version"}
        \/ installation[call[d].on] = "REVOKED" /\ call[d].pc \in {"nonce", "installation"}
    BY <2>2 DEF Doomed
  <2>4. \/ At(d, "nonce") /\ call'[d].pc = "installation"
        \/ At(d, "lease") /\ license = "REVOKED" /\ call'[d].pc = "license"
        \/ /\ At(d, "license") /\ call[d].op = "activate" /\ yanked
           /\ call'[d].pc = "version"
        \/ /\ At(d, "installation") /\ call[d].op = "activate" /\ call'[d].pc = "license"
           /\ license = "REVOKED" \/ yanked
        \/ At(d, "installation") /\ call'[d].pc = "lease" /\ license = "REVOKED"
    <3>1. CASE At(d, "installation")
      BY <1>6, <2>1, <2>3, <3>1 DEF Advances, Goes, At
    <3>2. CASE At(d, "license")
      BY <1>6, <2>1, <2>3, <3>2 DEF Advances, Goes, At
    <3>3. CASE At(d, "nonce") \/ At(d, "lease")
      BY <1>6, <2>3, <3>3 DEF Advances, Goes, At
    <3>4. CASE At(d, "version")
      BY <1>6, <2>3, <3>4 DEF Advances, At
    <3>5. call[d].pc \in {"nonce", "installation", "lease", "license", "version"}
      BY <2>3
    <3> QED BY <3>1, <3>2, <3>3, <3>4, <3>5 DEF At
  <2> QED BY <1>1, <2>1, <2>2, <2>4 DEF Barring, Doomed, Confirming, At
<1>7. CASE Begins(d)
  <2>1. UNCHANGED <<license, yanked, installation>>
    BY <1>7 DEF Begins, drmVars
  <2>2. PICK i \in Keys : i = call'[d].on
    BY <1>7 DEF Begins
  <2>3. Barred(call'[d].op, i)
    BY <1>7, <2>2 DEF Begins
  <2>4. call'[d].pc = IF call'[d].op = "activate" THEN "nonce" ELSE "installation"
    BY <1>7 DEF Begins, FirstStep
  <2>5. \/ license' = "REVOKED" \/ (call'[d].op = "activate" /\ yanked')
        \/ installation'[i] = "REVOKED" /\ ~Confirming(i)'
    <3>1. Confirming(i) => \E e \in Calls : call[e].op = "verify" /\ call[e].on = i
      BY DEF Confirming, CallsAreInTurn, InTurn, At
    <3>2. \/ license = "REVOKED" \/ (call'[d].op = "activate" /\ yanked)
          \/ /\ installation[i] = "REVOKED"
             /\ ~\E e \in Calls : call[e].op = "verify" /\ call[e].on = i
      BY <2>3 DEF Barred
    <3>3. yanked => yanked'
      BY <1>1 DEF Barring
    <3>4. CASE installation[i] = "REVOKED" /\ ~Confirming(i)
      BY <1>1, <3>4 DEF Barring
    <3> QED BY <2>1, <3>1, <3>2, <3>3, <3>4
  <2> QED BY <2>2, <2>4, <2>5 DEF Doomed, Confirming
<1> QED BY <1>4, <1>5, <1>6, <1>7, Moves, OwnAdvances, OthersBegin
-----------------------------------------------------------------------------
\* What a step does to the leases: one is stored, one expires, or they stay.
LEMMA LeaseSteps ==
    ASSUME LicenseTypeOK, [Next]_vars
    PROVE  \/ UNCHANGED leases
           \/ \E c \in Calls : StoreLease(c) /\ ~Spent(call[c].nonce)
                               /\ leases' = leases \union {Signed(c)}
           \/ \E l \in leases : Expire(l)
<1>1. ASSUME NEW c \in Calls, ServerStep(c), ~StoreLease(c) PROVE UNCHANGED leases
  BY <1>1 DEF ServerStep, CheckLicense, LookUpKey, InsertInstallation, CheckInstallation,
     Confirm, CheckNonce, CheckVersion, FindKey, CheckLease, Release, FindCurrent,
     Demote, Mint, Install, drmVars
<1>2. ASSUME NEW c \in Calls, StoreLease(c)
      PROVE  UNCHANGED leases
             \/ (~Spent(call[c].nonce) /\ leases' = leases \union {Signed(c)})
  BY <1>2 DEF StoreLease
<1>3. ASSUME NEW c \in Calls, Others(c) \/ Lose(c) PROVE UNCHANGED leases
  BY <1>3 DEF Others, Request, Lose, drmVars
<1>4. CASE (\E i \in Keys : RevokeInstallation(i)) \/ RefundLicense \/ YankVersion
  BY <1>4 DEF RevokeInstallation, RefundLicense, YankVersion
<1>5. CASE ClientStep \/ Restart \/ (\E c \in Calls : TimeOut(c)) \/ UNCHANGED vars
  <2>1. UNCHANGED leases
    BY <1>5 DEF ClientStep, CallStep, Send, Broken, Receive, Request, Restart, TimeOut, vars,
       serverVars, drmVars
  <2> QED BY <2>1
<1> QED BY <1>1, <1>2, <1>3, <1>4, <1>5 DEF Next, ServerNext

\* What is released is released to a request that holds its place.
LEMMA ReleaseSteps ==
    ASSUME LicenseTypeOK, [Next]_vars
    PROVE  UNCHANGED released \/ \E c \in Calls : Release(c)
<1>1. ASSUME NEW c \in Calls, ServerStep(c), ~Release(c) PROVE UNCHANGED released
  BY <1>1 DEF ServerStep, CheckLicense, LookUpKey, InsertInstallation, CheckInstallation,
     Confirm, CheckNonce, CheckVersion, FindKey, CheckLease, StoreLease, FindCurrent,
     Demote, Mint, Install, drmVars
<1>2. ASSUME NEW c \in Calls, Others(c) \/ Lose(c) PROVE UNCHANGED released
  BY <1>2 DEF Others, Request, Lose, drmVars
<1>3. CASE (\E i \in Keys : RevokeInstallation(i)) \/ RefundLicense \/ YankVersion
           \/ (\E l \in leases : Expire(l))
  BY <1>3 DEF RevokeInstallation, RefundLicense, YankVersion, Expire
<1>4. CASE ClientStep \/ Restart \/ (\E c \in Calls : TimeOut(c)) \/ UNCHANGED vars
  <2>1. UNCHANGED released
    BY <1>4 DEF ClientStep, CallStep, Send, Broken, Receive, Request, Restart, TimeOut, vars,
       serverVars, drmVars
  <2> QED BY <2>1
<1> QED BY <1>1, <1>2, <1>3, <1>4 DEF Next, ServerNext

\* A lease that expires keeps all it says.
LEMMA ExpiredKeeps ==
    ASSUME LicenseTypeOK, NEW l \in leases, Expire(l), NEW m \in leases'
    PROVE  \E k \in leases :
               /\ m.nonce = k.nonce /\ m.key = k.key /\ m.signedBy = k.signedBy
               /\ (m.barred <=> k.barred) /\ (m.rotating <=> k.rotating)
<1>1. leases' = (leases \ {l}) \union {[l EXCEPT !.live = FALSE]} /\ l \in LeaseType
  BY DEF Expire, LicenseTypeOK
<1>2. CASE m \in leases
  BY <1>2
<1>3. CASE m = [l EXCEPT !.live = FALSE]
  BY <1>1, <1>3 DEF LeaseType
<1> QED BY <1>1, <1>2, <1>3

\* A nonce buys one lease.
LEMMA NonceStaysSpent ==
    ASSUME LicenseTypeOK, NonceIsSpentOnce, [Next]_vars
    PROVE  NonceIsSpentOnce'
<1>1. CASE UNCHANGED leases
  BY <1>1 DEF NonceIsSpentOnce
<1>2. ASSUME NEW c \in Calls, ~Spent(call[c].nonce), leases' = leases \union {Signed(c)}
      PROVE  NonceIsSpentOnce'
  <2>1. Signed(c).nonce = call[c].nonce
    BY DEF Signed
  <2>2. \A l \in leases : l.nonce # Signed(c).nonce
    BY <1>2, <2>1 DEF Spent
  <2> QED BY <1>2, <2>2 DEF NonceIsSpentOnce
<1>3. ASSUME NEW l \in leases, Expire(l)
      PROVE  NonceIsSpentOnce'
  <2>1. /\ leases' = (leases \ {l}) \union {[l EXCEPT !.live = FALSE]}
        /\ [l EXCEPT !.live = FALSE].nonce = l.nonce
    BY <1>3 DEF Expire, LicenseTypeOK, LeaseType
  <2> QED BY <2>1 DEF NonceIsSpentOnce
<1> QED BY <1>1, <1>2, <1>3, LeaseSteps

\* Nothing is given to a request that came too late.
LEMMA NothingIsGivenLate ==
    ASSUME LicenseTypeOK, CallsAreInTurn, LateIsDoomed, RevocationBites, [Next]_vars
    PROVE  RevocationBites'
<1>1. ASSUME NEW c \in Calls, At(c, "store") \/ At(c, "release") PROVE ~call[c].barred
  <2>1. call[c].op \in {"activate", "dek"} /\ Working(c)
    BY <1>1 DEF CallsAreInTurn, InTurn, At, Working, Outcomes
  <2>2. ~Doomed(c)
    BY <1>1 DEF Doomed, At
  <2> QED BY <2>1, <2>2 DEF LateIsDoomed
<1>2. \A l \in leases' : ~l.barred
  <2>1. ASSUME NEW c \in Calls, StoreLease(c), leases' = leases \union {Signed(c)}
        PROVE  \A l \in leases' : ~l.barred
    <3>1. ~Signed(c).barred
      BY <1>1, <2>1 DEF StoreLease, Signed
    <3> QED BY <2>1, <3>1 DEF RevocationBites
  <2>2. ASSUME NEW l \in leases, Expire(l), NEW m \in leases' PROVE ~m.barred
    <3>1. PICK k \in leases : m.barred <=> k.barred
      BY <2>2, ExpiredKeeps
    <3>2. ~k.barred
      BY DEF RevocationBites
    <3> QED BY <3>1, <3>2
  <2>3. CASE UNCHANGED leases
    BY <2>3 DEF RevocationBites
  <2> QED BY <2>1, <2>2, <2>3, LeaseSteps
<1>3. \A r \in released' : ~r.barred
  <2>1. ASSUME NEW c \in Calls, Release(c) PROVE \A r \in released' : ~r.barred
    <3>1. ~[on |-> call[c].on, barred |-> call[c].barred].barred
      BY <1>1, <2>1 DEF Release
    <3> QED BY <2>1, <3>1 DEF Release, RevocationBites
  <2>2. CASE UNCHANGED released
    BY <2>2 DEF RevocationBites
  <2> QED BY <2>1, <2>2, ReleaseSteps
<1> QED BY <1>2, <1>3 DEF RevocationBites

\* The first states.
LEMMA LicenseInit ==
    Init => /\ LicenseTypeOK /\ CallsAreInTurn /\ LateIsDoomed
            /\ RevocationBites /\ NonceIsSpentOnce
<1> SUFFICES ASSUME Init
             PROVE  /\ LicenseTypeOK /\ CallsAreInTurn /\ LateIsDoomed
                    /\ RevocationBites /\ NonceIsSpentOnce
  OBVIOUS
<1>1. \A c \in Calls : call[c] = Idle
  BY DEF Init, ServerInit
<1>2. LicenseTypeOK
  <2>1. Idle \in CallType
    BY DEF Idle, CallType, Operations, Places
  <2>2. module \in ModuleType
    BY DEF Init, Fresh, ModuleType
  <2>3. /\ load \in Workloads /\ faults \in Nat /\ faults <= load.losses
        /\ installation \in [Keys -> InstallationStatus]
    BY WorkloadsAreTyped DEF Init, ServerInit
  <2>4. /\ call \in [Calls -> CallType] /\ yanked \in BOOLEAN /\ leases = {} /\ released = {}
    BY <2>1 DEF Init, ServerInit
  <2>5. serverKeys \in [KeyIds -> {"none", "ACTIVE", "PREVIOUS"}] /\ env \in KeyIds
    BY DEF Init, ServerInit
  <2> QED BY <2>2, <2>3, <2>4, <2>5 DEF LicenseTypeOK
<1>3. CallsAreInTurn /\ LateIsDoomed
  BY <1>1 DEF CallsAreInTurn, LateIsDoomed, InTurn, Idle
<1>4. RevocationBites /\ NonceIsSpentOnce
  BY DEF Init, ServerInit, RevocationBites, NonceIsSpentOnce
<1> QED BY <1>2, <1>3, <1>4

\* What the theorems about revocation and nonces rest on.
RevocationInv ==
    /\ LicenseTypeOK /\ CallsAreInTurn /\ LateIsDoomed
    /\ RevocationBites /\ NonceIsSpentOnce

\* The invariant that carries RevocationBites and NonceIsSpentOnce (lib/drm/service.ts).
THEOREM RevocationInvHolds == Spec => []RevocationInv
<1>1. Init => RevocationInv
  BY LicenseInit DEF RevocationInv
<1>2. RevocationInv /\ [Next]_vars => RevocationInv'
  BY Types, Turns, LateStaysDoomed, NothingIsGivenLate, NonceStaysSpent DEF RevocationInv
<1> QED BY <1>1, <1>2, PTL DEF Spec

\* Once a license, a version or an installation is revoked, no request that asks
\* afterwards is given a lease or a key (service.ts:240-247, 564-573).
THEOREM RevocationAlwaysBites == Spec => []RevocationBites
<1>1. RevocationInv => RevocationBites
  BY DEF RevocationInv
<1> QED BY <1>1, RevocationInvHolds, PTL

\* However often an activation is sent, its nonce buys one lease (service.ts:213-218).
THEOREM NoncesAreSpentOnce == Spec => []NonceIsSpentOnce
<1>1. RevocationInv => NonceIsSpentOnce
  BY DEF RevocationInv
<1> QED BY <1>1, RevocationInvHolds, PTL
-----------------------------------------------------------------------------
\* Which steps touch the keys.
LEMMA KeySteps ==
    ASSUME [Next]_vars
    PROVE  UNCHANGED <<serverKeys, env>> \/ \E c \in Calls : Demote(c) \/ Mint(c) \/ Install(c)
<1>1. ASSUME NEW c \in Calls, ServerStep(c), ~Demote(c), ~Mint(c), ~Install(c)
      PROVE  UNCHANGED <<serverKeys, env>>
  BY <1>1 DEF ServerStep, CheckLicense, LookUpKey, InsertInstallation, CheckInstallation,
     Confirm, CheckNonce, CheckVersion, FindKey, CheckLease, StoreLease, Release, FindCurrent,
     drmVars, keyVars
<1>2. ASSUME NEW c \in Calls, Others(c) \/ Lose(c) PROVE UNCHANGED <<serverKeys, env>>
  BY <1>2 DEF Others, Request, Lose, drmVars, keyVars
<1>3. CASE (\E i \in Keys : RevokeInstallation(i)) \/ RefundLicense \/ YankVersion
           \/ (\E l \in leases : Expire(l))
  BY <1>3 DEF RevokeInstallation, RefundLicense, YankVersion, Expire, keyVars
<1>4. CASE ClientStep \/ Restart \/ (\E c \in Calls : TimeOut(c)) \/ UNCHANGED vars
  <2>1. UNCHANGED <<serverKeys, env>>
    BY <1>4 DEF ClientStep, CallStep, Send, Broken, Receive, Request, Restart, TimeOut, vars,
       serverVars, drmVars, keyVars
  <2> QED BY <2>1
<1> QED BY <1>1, <1>2, <1>3, <1>4 DEF Next, ServerNext

\* A key that was trusted stays so.
LEMMA TrustStays ==
    ASSUME LicenseTypeOK, [Next]_vars
    PROVE  Trusted \subseteq Trusted'
<1>1. ASSUME NEW c \in Calls, Demote(c) PROVE Trusted \subseteq Trusted'
  BY <1>1 DEF Demote, Trusted, LicenseTypeOK
<1>2. ASSUME NEW c \in Calls, Mint(c) PROVE Trusted \subseteq Trusted'
  BY <1>2 DEF Mint, Trusted, LicenseTypeOK
<1>3. ASSUME NEW c \in Calls, Install(c) PROVE Trusted \subseteq Trusted'
  BY <1>3 DEF Install, Trusted
<1> QED BY <1>1, <1>2, <1>3, KeySteps DEF Trusted

\* A request finds the ACTIVE key.
LEMMA FindsActive ==
    ASSUME LicenseTypeOK, CallsAreInTurn, [Next]_vars, NEW d \in Calls,
           call'[d].pc = "store"
    PROVE  \/ Stays(d)
           \/ /\ FindKey(d) /\ call'[d].key \in Actives
              /\ \A e \in Calls \ {d} : call'[e] = call[e]
              /\ UNCHANGED drmVars
<1>1. CASE Ends(d)
  BY <1>1 DEF Ends, Outcomes
<1>2. CASE Begins(d)
  BY <1>2 DEF Begins, FirstStep, Operations
<1>3. CASE ServerStep(d) /\ ~Ends(d)
  <2>1. At(d, "key")
    BY <1>3, OwnAdvances DEF Advances, Goes, At
  <2>2. FindKey(d)
    BY <1>3, <2>1 DEF At, ServerStep, CheckLicense, LookUpKey, InsertInstallation,
       CheckInstallation, Confirm, CheckNonce, CheckVersion, CheckLease, StoreLease, Release,
       FindCurrent, Demote, Mint, Install
  <2>3. PICK k \in KeyIds : /\ serverKeys[k] = "ACTIVE"
                            /\ call' = [call EXCEPT ![d].pc = "store", ![d].key = k]
    BY <1>3, <2>2, Continues DEF FindKey, Places, Outcomes
  <2>4. call'[d].key = k /\ \A e \in Calls \ {d} : call'[e] = call[e]
    BY <2>3 DEF LicenseTypeOK, CallType
  <2>5. UNCHANGED drmVars
    BY <2>2 DEF FindKey
  <2> QED BY <2>2, <2>3, <2>4, <2>5 DEF Actives
<1> QED BY <1>1, <1>2, <1>3, Moves, OthersBegin

\* A key that was found, or that a lease names, stays trusted.
LEMMA FoundStaysTrusted ==
    ASSUME LicenseTypeOK, CallsAreInTurn, FoundIsTrusted, [Next]_vars
    PROVE  FoundIsTrusted'
<1>1. ASSUME NEW d \in Calls, call'[d].pc = "store" PROVE call'[d].key \in Trusted'
  <2>1. CASE Stays(d)
    BY <1>1, <2>1, TrustStays DEF Stays, FoundIsTrusted, At
  <2>2. CASE call'[d].key \in Actives
    BY <2>2, TrustStays DEF Actives, Trusted
  <2> QED BY <1>1, <2>1, <2>2, FindsActive
<1>2. ASSUME NEW l \in leases' PROVE l.key \in Trusted'
  <2>1. ASSUME NEW c \in Calls, StoreLease(c), leases' = leases \union {Signed(c)}
        PROVE  l.key \in Trusted'
    <3>1. Signed(c).key = call[c].key /\ At(c, "store")
      BY <2>1 DEF Signed, StoreLease
    <3> QED BY <2>1, <3>1, TrustStays DEF FoundIsTrusted
  <2>2. ASSUME NEW k \in leases, Expire(k) PROVE l.key \in Trusted'
    BY <2>2, ExpiredKeeps, TrustStays DEF FoundIsTrusted
  <2>3. CASE UNCHANGED leases
    BY <2>3, TrustStays DEF FoundIsTrusted
  <2> QED BY <2>1, <2>2, <2>3, LeaseSteps
<1> QED BY <1>1, <1>2 DEF FoundIsTrusted, At

\* No rotation begins before the last one has ended.
LEMMA RotationsTakeTurns ==
    ASSUME LicenseTypeOK, OneRotation, [Next]_vars
    PROVE  OneRotation'
<1>1. ASSUME NEW d \in Calls, call'[d].op = "rotate", ~Rotating(d)
      PROVE  \A e \in Calls : e # d => call'[e].op # "rotate"
  <2>1. ~Stays(d) /\ ~Ends(d) /\ ~ServerStep(d)
    <3>1. ~Advances(d)
      BY <1>1 DEF Advances, Goes, Rotating
    <3> QED BY <1>1, <3>1, OwnAdvances DEF Stays, Ends, Rotating
  <2>2. ~Send(d)
    <3>1. Send(d) => Request(d, module.asks, Own, module.nonce, TRUE)
      BY DEF Send
    <3>2. Send(d) => call'[d].op = module.asks
      BY <3>1 DEF Request, LicenseTypeOK, Idle
    <3> QED BY <1>1, <3>2 DEF LicenseTypeOK, ModuleType
  <2>3. Others(d)
    BY <2>1, <2>2, Moves
  <2>4. /\ ~\E e \in Calls : call[e].op = "rotate"
        /\ \A e \in Calls : e # d => call'[e] = call[e]
    BY <1>1, <2>3 DEF Others, Request, LicenseTypeOK, Idle
  <2> QED BY <2>4
<1> QED BY <1>1 DEF OneRotation, Rotating
\* A step of a behaviour that loses nothing.
LEMMA LosesNothing ==
    ASSUME LicenseTypeOK, [Next]_vars, NothingLost'
    PROVE  /\ NothingLost
           /\ \A c \in Calls : ~Lose(c) /\ ~TimeOut(c)
           /\ ~Restart
<1> USE WorkloadsAreTyped DEF LicenseTypeOK, NothingLost
<1>1. CASE (\E c \in Calls : Lose(c) \/ TimeOut(c)) \/ Restart
  BY <1>1 DEF Lose, TimeOut, Restart
<1>2. CASE ~(\E c \in Calls : Lose(c) \/ TimeOut(c)) /\ ~Restart
  <2>1. ASSUME NEW c \in Calls, ServerStep(c) PROVE UNCHANGED <<load, faults>>
    BY <2>1 DEF ServerStep, CheckLicense, LookUpKey, InsertInstallation, CheckInstallation,
       Confirm, CheckNonce, CheckVersion, FindKey, CheckLease, StoreLease, Release, FindCurrent,
       Demote, Mint, Install, Carried
  <2>2. ASSUME NEW c \in Calls, Others(c) PROVE UNCHANGED <<load, faults>>
    BY <2>2 DEF Others, Occurs
  <2>3. ASSUME \/ (\E i \in Keys : RevokeInstallation(i)) \/ RefundLicense \/ YankVersion
               \/ (\E l \in leases : Expire(l)) \/ ClientStep \/ UNCHANGED vars
        PROVE  UNCHANGED <<load, faults>>
    BY <2>3 DEF RevokeInstallation, RefundLicense, YankVersion, Expire, Occurs, ClientStep,
       CallStep, Send, Broken, Receive, Carried, vars, serverVars, callVars
  <2>4. UNCHANGED <<load, faults>>
    BY <1>2, <2>1, <2>2, <2>3 DEF Next, ServerNext
  <2> QED BY <1>2, <2>4
<1> QED BY <1>1, <1>2

\* A request that neither takes part in a rotation nor finds a key.
Quiet(d) ==
    \/ Stays(d)
    \/ /\ call[d].pc \notin {"demote", "mint", "install"} /\ ~(Rotating(d) /\ Working(d))
       /\ call'[d].pc \notin {"store", "demote", "mint", "install"}
KeyStep(c) == FindKey(c) \/ FindCurrent(c) \/ Demote(c) \/ Mint(c) \/ Install(c)

\* Without losses, every step that does not touch a key is quiet.
LEMMA QuietSteps ==
    ASSUME LicenseTypeOK, CallsAreInTurn, [Next]_vars, NothingLost'
    PROVE  (\A d \in Calls : Quiet(d)) \/ \E c \in Calls : KeyStep(c)
<1> SUFFICES ASSUME \A c \in Calls : ~KeyStep(c), NEW d \in Calls PROVE Quiet(d)
  OBVIOUS
<1>0. call'[d] = call[d] => Quiet(d)
  BY DEF Quiet, Stays
<1>1. ASSUME NEW c \in Calls, ServerStep(c) PROVE Quiet(d)
  <2>1. CASE d # c
    <3>1. call'[d] = call[d]
      BY <1>1, <2>1 DEF LicenseTypeOK, KeyStep, ServerStep, CheckLicense, LookUpKey, Answer,
         InsertInstallation, CheckInstallation, Confirm, CheckNonce, CheckVersion, StoreLease,
         CheckLease, Release, Pass, Continue
    <3> QED BY <1>0, <3>1
  <2>2. CASE d = c
    <3>1. call[d].pc \in {"license", "lookup", "insert", "installation", "confirm", "nonce",
                          "version", "store", "lease", "release"}
      BY <1>1, <2>2 DEF KeyStep, ServerStep, CheckLicense, LookUpKey, InsertInstallation, At,
         CheckInstallation, Confirm, CheckNonce, CheckVersion, StoreLease, CheckLease, Release
    <3>2. ~Rotating(d)
      BY <3>1 DEF CallsAreInTurn, InTurn, Rotating
    <3>3. Ends(d) \/ Advances(d)
      BY <1>1, <2>2, OwnAdvances
    <3>4. call'[d].pc \notin {"store", "demote", "mint", "install"}
      BY <3>1, <3>3 DEF Ends, Advances, Goes, At, Outcomes
    <3> QED BY <3>1, <3>2, <3>4 DEF Quiet
  <2> QED BY <2>1, <2>2
<1>2. ASSUME NEW c \in Calls, Others(c) \/ Send(c) PROVE Quiet(d)
  <2>1. CASE d # c
    <3>1. call'[d] = call[d]
      BY <1>2, <2>1 DEF Others, Send, Request, LicenseTypeOK
    <3> QED BY <1>0, <3>1
  <2>2. CASE d = c
    <3>1. call[d].pc = "idle"
      BY <1>2, <2>2 DEF Others, Send, Request, At
    <3>2. call'[d].pc \notin {"store", "demote", "mint", "install"}
      BY <1>2, <2>2, OthersBegin DEF Begins, FirstStep, Operations
    <3> QED BY <3>1, <3>2 DEF Quiet, Working
  <2> QED BY <2>1, <2>2
<1>3. ASSUME NEW c \in Calls, Broken(c) \/ Receive(c) PROVE Quiet(d)
  <2>1. call' = [call EXCEPT ![c] = Idle] /\ call[c].pc \in Outcomes
    BY <1>3 DEF Broken, Receive, At, Outcomes
  <2>2. CASE d = c
    BY <2>1, <2>2 DEF Quiet, Idle, Working, Outcomes, LicenseTypeOK
  <2>3. CASE d # c
    BY <1>0, <2>1, <2>3 DEF LicenseTypeOK
  <2> QED BY <2>2, <2>3
<1>4. CASE \/ (\E i \in Keys : RevokeInstallation(i)) \/ RefundLicense \/ YankVersion
           \/ (\E l \in leases : Expire(l)) \/ CallStep \/ UNCHANGED vars
  <2>1. UNCHANGED call
    BY <1>4 DEF RevokeInstallation, RefundLicense, YankVersion, Expire, CallStep, vars,
       serverVars, callVars
  <2> QED BY <1>0, <2>1
<1> QED BY <1>1, <1>2, <1>3, <1>4, LosesNothing DEF Next, ServerNext, ClientStep
\* A rotation is at one of its steps.
LEMMA RotationsTurn ==
    ASSUME CallsAreInTurn, NEW c \in Calls,
           call[c].pc \in {"current", "demote", "mint", "install"}
    PROVE  Rotating(c) /\ Working(c)
BY DEF CallsAreInTurn, InTurn, Rotating, Working, Outcomes

\* The rest of what a key step leaves, given what it does with the ACTIVE keys.
LEMMA KeysStayInstalled ==
    ASSUME LicenseTypeOK, CallsAreInTurn, OneRotation, [Next]_vars, NothingLost',
           ActiveIsInstalled, FoundIsInstalled, RotationOwnsActives
    PROVE  ActiveIsInstalled' /\ FoundIsInstalled' /\ RotationOwnsActives'
<1>1. CASE \A d \in Calls : Quiet(d)
  <2>1. UNCHANGED <<serverKeys, env>>
    <3>1. ASSUME NEW c \in Calls, Demote(c) \/ Mint(c) \/ Install(c) PROVE FALSE
      <4>1. call[c].pc \in {"demote", "mint", "install"}
        BY <3>1 DEF Demote, Mint, Install, At
      <4>2. Rotating(c) /\ Working(c)
        BY <4>1, RotationsTurn
      <4>3. call'[c].pc # call[c].pc
        <5>1. CASE Demote(c)
          <6>1. Goes(c, "mint") /\ At(c, "demote")
            BY <5>1, Continues DEF Demote, Continue, Places, LicenseTypeOK
          <6> QED BY <6>1 DEF Goes, At
        <5>2. CASE Mint(c)
          <6>1. call'[c].pc = "install" /\ At(c, "mint")
            BY <5>2 DEF Mint, LicenseTypeOK, CallType
          <6> QED BY <6>1 DEF At
        <5>3. CASE Install(c)
          BY <4>2, <5>3, EndedEnds DEF Install, At, Ends, Outcomes, LicenseTypeOK
        <5> QED BY <3>1, <5>1, <5>2, <5>3
      <4> QED BY <1>1, <4>2, <4>3 DEF Quiet, Stays
    <3> QED BY <3>1, KeySteps
  <2>2. ActiveIsInstalled'
    BY <1>1, <2>1 DEF ActiveIsInstalled, Actives, Quiet, Stays, At
  <2>3. FoundIsInstalled'
    BY <1>1, <2>1 DEF FoundIsInstalled, Quiet, Stays, At, Rotating, Working
  <2>4. RotationOwnsActives'
    BY <1>1, <2>1 DEF RotationOwnsActives, Actives, Quiet, Stays, At
  <2> QED BY <2>2, <2>3, <2>4
<1>2. ASSUME NEW c \in Calls, FindKey(c)
      PROVE  ActiveIsInstalled' /\ FoundIsInstalled' /\ RotationOwnsActives'
  <2>1. /\ UNCHANGED <<serverKeys, env>> /\ At(c, "key")
        /\ \A e \in Calls : e # c => call'[e] = call[e]
    BY <1>2 DEF FindKey, Answer, drmVars, keyVars, LicenseTypeOK
  <2>2. call'[c].pc \in {"store", "idle", "refused"} /\ ~Rotating(c)
    <3>1. Ends(c) \/ Goes(c, "store")
      BY <1>2, Continues DEF FindKey, Places, Outcomes
    <3>2. ~Rotating(c)
      BY <2>1 DEF CallsAreInTurn, InTurn, At, Rotating
    <3> QED BY <1>2, <3>2, <3>1, <2>1 DEF FindKey, Answer, Ended, Idle, LicenseTypeOK, CallType
  <2>3. ActiveIsInstalled' /\ RotationOwnsActives'
    BY <2>1, <2>2 DEF ActiveIsInstalled, RotationOwnsActives, Actives, At
  <2>4. call'[c].pc = "store" => call'[c].key \in Actives
    BY <2>1, FindsActive DEF Stays, At
  <2>5. \A k \in Actives : k = env \/ \E d \in Calls : Rotating(d) /\ Working(d)
    BY RotationsTurn DEF ActiveIsInstalled, At
  <2>6. \A d \in Calls : Rotating(d) /\ Working(d) => (Rotating(d) /\ Working(d))'
    BY <2>1, <2>2 DEF Rotating, Working
  <2>7. FoundIsInstalled'
    BY <2>1, <2>4, <2>5, <2>6 DEF FoundIsInstalled, At
  <2> QED BY <2>3, <2>7
<1>3. ASSUME NEW c \in Calls, FindCurrent(c)
      PROVE  ActiveIsInstalled' /\ FoundIsInstalled' /\ RotationOwnsActives'
  <2>1. /\ UNCHANGED <<serverKeys, env>> /\ At(c, "current")
        /\ \A e \in Calls : e # c => call'[e] = call[e]
    BY <1>3 DEF FindCurrent, Continue, drmVars, keyVars, LicenseTypeOK
  <2>2. Rotating(c) /\ Working(c)
    BY <2>1, RotationsTurn DEF At
  <2>3. \A e \in Calls : e # c => call[e].pc \notin {"demote", "mint", "install"}
    BY <2>2, RotationsTurn DEF OneRotation
  <2>4. \A k \in Actives : k = env
    BY <2>1, <2>3 DEF ActiveIsInstalled, At
  <2>5. \/ call'[c].pc = "demote" /\ call'[c].key \in Actives
        \/ call'[c].pc = "mint" /\ Actives = {}
    BY <1>3 DEF FindCurrent, Continue, Actives, LicenseTypeOK, CallType
  <2>6. (Rotating(c) /\ Working(c))'
    <3>1. Goes(c, "demote") \/ Goes(c, "mint")
      BY <1>3, Continues DEF FindCurrent, Places
    <3> QED BY <2>2, <3>1 DEF Goes, Rotating, Working, Outcomes
  <2>7. ActiveIsInstalled' /\ RotationOwnsActives'
    BY <2>1, <2>3, <2>4, <2>5 DEF ActiveIsInstalled, RotationOwnsActives, Actives, At
  <2> QED BY <2>6, <2>7 DEF FoundIsInstalled
<1>4. ASSUME NEW c \in Calls, Demote(c)
      PROVE  ActiveIsInstalled' /\ FoundIsInstalled' /\ RotationOwnsActives'
  <2>1. /\ At(c, "demote") /\ UNCHANGED env /\ Goes(c, "mint")
        /\ serverKeys' = [serverKeys EXCEPT ![call[c].key] = "PREVIOUS"]
        /\ \A e \in Calls : e # c => call'[e] = call[e]
    BY <1>4, Continues DEF Demote, Continue, Places, LicenseTypeOK
  <2>2. Rotating(c) /\ Working(c)
    BY <2>1, RotationsTurn DEF At
  <2>3. \A e \in Calls : e # c => call[e].pc \notin {"demote", "mint", "install"}
    BY <2>2, RotationsTurn DEF OneRotation
  <2>4. Actives' = {}
    BY <2>1 DEF RotationOwnsActives, Actives, LicenseTypeOK
  <2>5. (Rotating(c) /\ Working(c))'
    BY <2>1, <2>2 DEF Goes, Rotating, Working, Outcomes
  <2> QED BY <2>1, <2>3, <2>4, <2>5 DEF ActiveIsInstalled, FoundIsInstalled,
          RotationOwnsActives, Goes, At
<1>5. ASSUME NEW c \in Calls, Mint(c)
      PROVE  ActiveIsInstalled' /\ FoundIsInstalled' /\ RotationOwnsActives'
  <2>1. PICK k \in KeyIds : /\ serverKeys' = [serverKeys EXCEPT ![k] = "ACTIVE"]
                            /\ call' = [call EXCEPT ![c].pc = "install", ![c].key = k]
    BY <1>5 DEF Mint
  <2>2. /\ At(c, "mint") /\ UNCHANGED env /\ Goes(c, "install") /\ call'[c].key = k
        /\ \A e \in Calls : e # c => call'[e] = call[e]
    <3>1. Goes(c, "install") /\ call'[c].key = k
      BY <2>1 DEF Goes, LicenseTypeOK, CallType
    <3>2. \A e \in Calls : e # c => call'[e] = call[e]
      BY <2>1 DEF LicenseTypeOK
    <3> QED BY <1>5, <3>1, <3>2 DEF Mint
  <2>3. Rotating(c) /\ Working(c)
    BY <2>2, RotationsTurn DEF At
  <2>4. \A e \in Calls : e # c => call[e].pc \notin {"demote", "mint", "install"}
    BY <2>3, RotationsTurn DEF OneRotation
  <2>5. Actives' = {k}
    BY <2>1, <2>2 DEF RotationOwnsActives, Actives, LicenseTypeOK
  <2>6. (Rotating(c) /\ Working(c))'
    BY <2>2, <2>3 DEF Goes, Rotating, Working, Outcomes
  <2> QED BY <2>2, <2>4, <2>5, <2>6 DEF ActiveIsInstalled, FoundIsInstalled,
          RotationOwnsActives, Goes, At
<1>6. ASSUME NEW c \in Calls, Install(c)
      PROVE  ActiveIsInstalled' /\ FoundIsInstalled' /\ RotationOwnsActives'
  <2>1. /\ At(c, "install") /\ env' = call[c].key /\ UNCHANGED serverKeys
        /\ \A d \in Calls : call'[d] = IF Working(d) THEN Ended(d, "broken") ELSE call[d]
    BY <1>6 DEF Install
  <2>2. \A d \in Calls : call'[d].pc \in Outcomes \union {"idle"}
    BY <2>1, EndedEnds DEF Ends, Outcomes, Working
  <2>3. Actives' \subseteq {env'}
    BY <2>1 DEF RotationOwnsActives, Actives
  <2> QED BY <2>2, <2>3 DEF ActiveIsInstalled, FoundIsInstalled, RotationOwnsActives, At,
          Outcomes
<1> QED BY <1>1, <1>2, <1>3, <1>4, <1>5, <1>6, QuietSteps DEF KeyStep

\* A lease is signed with the key it names, or while a rotation is under way.
LEMMA LeasesStaySigned ==
    ASSUME LicenseTypeOK, [Next]_vars, FoundIsInstalled, LeasesAreSigned
    PROVE  LeasesAreSigned'
<1> SUFFICES ASSUME NEW m \in leases' PROVE m.signedBy = m.key \/ m.rotating
  BY DEF LeasesAreSigned
<1>1. ASSUME NEW c \in Calls, StoreLease(c), leases' = leases \union {Signed(c)}
      PROVE  m.signedBy = m.key \/ m.rotating
  <2>1. call[c].key = env \/ \E d \in Calls : call[d].op = "rotate"
    BY <1>1 DEF StoreLease, FoundIsInstalled, Rotating
  <2>2. Signed(c).signedBy = Signed(c).key \/ Signed(c).rotating
    BY <2>1 DEF Signed
  <2> QED BY <1>1, <2>2 DEF LeasesAreSigned
<1>2. ASSUME NEW l \in leases, Expire(l) PROVE m.signedBy = m.key \/ m.rotating
  <2>1. PICK k \in leases : /\ m.key = k.key /\ m.signedBy = k.signedBy
                            /\ m.rotating <=> k.rotating
    BY <1>2, ExpiredKeeps
  <2> QED BY <2>1 DEF LeasesAreSigned
<1>3. CASE UNCHANGED leases
  BY <1>3 DEF LeasesAreSigned
<1> QED BY <1>1, <1>2, <1>3, LeaseSteps

\* What the theorem about signatures rests on.
LicenseInv == RevocationInv /\ KeysInv

\* The invariant that carries LeasesVerify as well (service.ts:459-466).
THEOREM LicenseInvHolds == Spec => []LicenseInv
<1>1. Init => LicenseInv
  <2> SUFFICES ASSUME Init PROVE KeysInv
    BY LicenseInit DEF LicenseInv, RevocationInv
  <2>1. \A c \in Calls : call[c] = Idle
    BY DEF Init, ServerInit
  <2>2. leases = {} /\ Actives \subseteq {env}
    BY DEF Init, ServerInit, Actives
  <2> QED BY <2>1, <2>2 DEF KeysInv, FoundIsTrusted, OneRotation, ActiveIsInstalled,
          FoundIsInstalled, RotationOwnsActives, LeasesAreSigned, At, Rotating, Idle
<1>2. LicenseInv /\ [Next]_vars => LicenseInv'
  <2> SUFFICES ASSUME RevocationInv, KeysInv, [Next]_vars PROVE LicenseInv'
    BY DEF LicenseInv
  <2>1. RevocationInv'
    BY Types, Turns, LateStaysDoomed, NothingIsGivenLate, NonceStaysSpent DEF RevocationInv
  <2>2. FoundIsTrusted' /\ OneRotation'
    BY FoundStaysTrusted, RotationsTakeTurns DEF RevocationInv, KeysInv
  <2>3. ASSUME NothingLost'
        PROVE  /\ ActiveIsInstalled' /\ FoundIsInstalled' /\ RotationOwnsActives'
               /\ LeasesAreSigned'
    BY <2>3, LosesNothing, KeysStayInstalled, LeasesStaySigned DEF RevocationInv, KeysInv
  <2> QED BY <2>1, <2>2, <2>3 DEF LicenseInv, KeysInv
<1> QED BY <1>1, <1>2, PTL DEF Spec

\* A stored lease can be checked with a key modules are told to trust, unless it was
\* stored during a rotation or something was lost (service.ts:459-466).
THEOREM LeasesAlwaysVerify == Spec => []LeasesVerify
<1>1. LicenseInv => LeasesVerify
  <2> SUFFICES ASSUME LicenseInv, NEW l \in leases
               PROVE  l.key \in Trusted
                      /\ (l.signedBy = l.key \/ l.rotating \/ faults < load.losses)
    BY DEF LeasesVerify
  <2>1. NothingLost \/ faults < load.losses
    BY WorkloadsAreTyped DEF LicenseInv, RevocationInv, LicenseTypeOK, NothingLost
  <2> QED BY <2>1 DEF LicenseInv, KeysInv, FoundIsTrusted, LeasesAreSigned
<1> QED BY <1>1, LicenseInvHolds, PTL
-----------------------------------------------------------------------------
(***************************************************************************)
(* The scheduler: for every set of tasks, workers, resources and timers,   *)
(* what is cancelled or belongs to an ended generation is never heard of.  *)
(***************************************************************************)

\* Nothing is in the queue, with a worker or among the results unless its status says
\* so, and nothing is there twice; only what is done has run its completion.
PoolTyped ==
    /\ status \in [Tasks -> Status] /\ cancelRequested \in [Tasks -> BOOLEAN]
    /\ tasks \in Seq(Tasks) /\ completions \in Seq(Tasks) /\ ready \in Seq(Tasks)
    /\ running \in [Workers -> Tasks \union {"Idle", "Exited"}]
    /\ deliveries \in [Tasks -> Nat]
QueueIsDistinct == \A i, j \in DOMAIN tasks : tasks[i] = tasks[j] => i = j
QueuedWaits == \A i \in DOMAIN tasks : status[tasks[i]] \in {"Queued", "Cancelled"}
TakenRuns == \A w \in Workers : running[w] \in Tasks => status[running[w]] = "Running"
OneRunsIt == \A v, w \in Workers : running[v] \in Tasks /\ running[v] = running[w] => v = w
ResultsAreDone ==
    /\ \A i \in DOMAIN completions : status[completions[i]] = "Done"
    /\ \A i \in DOMAIN ready : status[ready[i]] = "Done"
OnlyDoneIsHeard == \A t \in Tasks : status[t] # "Done" => deliveries[t] = 0
RequestIsHeeded ==
    \A t \in Tasks : cancelRequested[t] => status[t] \in {"Running", "Cancelled"}
TasksInv ==
    /\ PoolTyped /\ QueueIsDistinct /\ QueuedWaits /\ TakenRuns /\ OneRunsIt
    /\ ResultsAreDone /\ OnlyDoneIsHeard /\ RequestIsHeeded

\* The n-th of some places is one of them, and no other one's.
LEMMA NthIsThere ==
    ASSUME NEW P \in SUBSET Int, IsFiniteSet(P), NEW n \in 1 .. Cardinality(P)
    PROVE  Nth(P, n) \in P /\ Cardinality({h \in P : h <= Nth(P, n)}) = n
<1> DEFINE Upto(i) == {h \in P : h <= i}
           N == 1 .. Cardinality(P)
           rank == [i \in P |-> Cardinality(Upto(i))]
<1>1. ASSUME NEW i \in P
      PROVE  /\ IsFiniteSet(Upto(i)) /\ Cardinality(Upto(i)) \in N
  <2>1. Upto(i) \in SUBSET P /\ {i} \in SUBSET Upto(i)
    OBVIOUS
  <2>2. IsFiniteSet(Upto(i)) /\ Cardinality(Upto(i)) <= Cardinality(P)
    BY <2>1, FS_Subset
  <2>3. 1 <= Cardinality(Upto(i))
    <3>1. Cardinality({i}) = 1
      BY FS_Singleton
    <3>2. Cardinality({i}) <= Cardinality(Upto(i))
      <4> HIDE DEF Upto
      <4> QED BY <2>1, <2>2, FS_Subset
    <3> HIDE DEF Upto
    <3> QED BY <3>1, <3>2
  <2>4. Cardinality(Upto(i)) \in Nat /\ Cardinality(P) \in Nat
    BY <2>2, FS_CardinalityType
  <2> HIDE DEF Upto
  <2> QED BY <2>2, <2>3, <2>4
<1>2. \A i, j \in P : i < j => Cardinality(Upto(i)) # Cardinality(Upto(j))
  <2>1. SUFFICES ASSUME NEW i \in P, NEW j \in P, i < j
                 PROVE  Cardinality(Upto(i)) # Cardinality(Upto(j))
    OBVIOUS
  <2>2. Upto(i) \in SUBSET Upto(j) /\ Upto(i) # Upto(j)
    <3>1. j \in Upto(j) /\ j \notin Upto(i) /\ i \in Int /\ j \in Int
      BY <2>1
    <3>2. \A h \in P : h <= i => h <= j
      BY <2>1, <3>1
    <3> QED BY <3>1, <3>2
  <2> HIDE DEF Upto
  <2> QED BY <1>1, <2>2, FS_Subset
<1>3. rank \in [P -> N] /\ \A i, j \in P : rank[i] = rank[j] => i = j
  <2> HIDE DEF Upto, N
  <2> QED BY <1>1, <1>2
<1>4. rank \in Injection(P, N)
  BY <1>3 DEF Injection, IsInjective
<1>5. Cardinality(P) \in Nat
  BY FS_CardinalityType
<1>6. IsFiniteSet(N) /\ Cardinality(N) = Cardinality(P)
  BY <1>5, FS_Interval
<1>7. rank \in Surjection(P, N)
  <2> HIDE DEF rank, N
  <2> QED BY <1>4, <1>6, FS_Injection
<1>8. \E i \in P : Cardinality(Upto(i)) = n
  BY <1>7 DEF Surjection
<1> QED BY <1>8 DEF Nth

\* A queue that some of its tasks have left holds the others, once each.
LEMMA QueueShrinks ==
    ASSUME tasks \in Seq(Tasks), QueueIsDistinct, NEW r,
           tasks' = [n \in 1 .. Cardinality(PlacesOfOthers(r)) |->
                        tasks[Nth(PlacesOfOthers(r), n)]]
    PROVE  /\ tasks' \in Seq(Tasks) /\ QueueIsDistinct'
           /\ \A i \in DOMAIN tasks' : \E j \in DOMAIN tasks : tasks'[i] = tasks[j]
<1> DEFINE P == PlacesOfOthers(r)
<1>1. P \in SUBSET Int /\ P \in SUBSET (1 .. Len(tasks)) /\ Len(tasks) \in Nat
      /\ P \subseteq DOMAIN tasks
  BY DEF PlacesOfOthers
<1>2. IsFiniteSet(P)
  BY <1>1, FS_Interval, FS_Subset
<1>3. Cardinality(P) \in Nat
  BY <1>2, FS_CardinalityType
<1>4. \A n \in 1 .. Cardinality(P) :
        Nth(P, n) \in P /\ Cardinality({h \in P : h <= Nth(P, n)}) = n
  BY <1>1, <1>2, NthIsThere
<1> HIDE DEF P
<1> DEFINE place == [n \in 1 .. Cardinality(P) |-> Nth(P, n)]
<1>5. /\ place \in [1 .. Cardinality(P) -> DOMAIN tasks]
      /\ tasks' = [n \in 1 .. Cardinality(P) |-> tasks[place[n]]]
  BY <1>1, <1>4 DEF P
<1>6. \A m, n \in 1 .. Cardinality(P) : place[m] = place[n] => m = n
  BY <1>4, Zenon
<1> HIDE DEF place
<1>7. PICK k \in Nat : k = Cardinality(P)
  BY <1>3
<1>8. /\ place \in [1 .. k -> DOMAIN tasks]
      /\ tasks' = [n \in 1 .. k |-> tasks[place[n]]]
      /\ \A m, n \in 1 .. k : place[m] = place[n] => m = n
  BY <1>5, <1>6, <1>7
<1>9. \A n \in 1 .. k : place[n] \in DOMAIN tasks /\ tasks[place[n]] \in Tasks
  <2>1. \A n \in 1 .. k : place[n] \in DOMAIN tasks
    BY <1>8
  <2>2. \A i \in DOMAIN tasks : tasks[i] \in Tasks
    OBVIOUS
  <2> QED BY <2>1, <2>2
<1>10. tasks' \in Seq(Tasks) /\ DOMAIN tasks' = 1 .. k
  <2>1. tasks' \in [1 .. k -> Tasks]
    BY <1>8, <1>9, Zenon
  <2> QED BY <2>1, SeqDef
<1>11. QueueIsDistinct'
  <2> SUFFICES ASSUME NEW i \in 1 .. k, NEW j \in 1 .. k, tasks'[i] = tasks'[j]
               PROVE  i = j
    BY <1>10, Zenon DEF QueueIsDistinct
  <2>1. tasks[place[i]] = tasks[place[j]]
    BY <1>8
  <2>2. place[i] = place[j]
    BY <1>9, <2>1, Zenon DEF QueueIsDistinct
  <2> QED BY <1>8, <2>2
<1> QED BY <1>8, <1>9, <1>10, <1>11

\* What the queue loses and gains, and what a pump takes over.
LEMMA QueueFacts ==
    ASSUME NEW q \in Seq(Tasks)
    PROVE  /\ Len(q) \in Nat /\ DOMAIN q = 1 .. Len(q)
           /\ \A i \in DOMAIN q : q[i] \in Tasks
           /\ \A t \in Tasks : /\ Append(q, t) \in Seq(Tasks)
                               /\ DOMAIN Append(q, t) = DOMAIN q \union {Len(q) + 1}
                               /\ Append(q, t)[Len(q) + 1] = t
                               /\ \A i \in DOMAIN q : Append(q, t)[i] = q[i]
           /\ q # << >> => /\ 1 \in DOMAIN q /\ Head(q) = q[1] /\ Tail(q) \in Seq(Tasks)
                           /\ \A i \in DOMAIN Tail(q) :
                                 i + 1 \in DOMAIN q /\ i \in Nat \ {0} /\ Tail(q)[i] = q[i + 1]
OBVIOUS

\* A task is posted.
LEMMA PostTaskKept ==
    ASSUME TasksInv, NEW t \in Tasks, PostTask(t)
    PROVE  TasksInv'
<1> USE DEF TasksInv
<1>1. /\ status[t] = "None" /\ status' = [status EXCEPT ![t] = "Queued"]
      /\ tasks' = Append(tasks, t)
      /\ UNCHANGED <<cancelRequested, running, completions, ready, deliveries>>
  BY DEF PostTask
<1>2. PoolTyped'
  BY <1>1, QueueFacts DEF PoolTyped, Status
<1>3. /\ status'[t] = "Queued" /\ \A u \in Tasks \ {t} : status'[u] = status[u]
  BY <1>1 DEF PoolTyped
<1>4. \A i \in DOMAIN tasks : tasks[i] # t /\ tasks[i] \in Tasks
  BY <1>1, QueueFacts DEF PoolTyped, QueuedWaits
<1>5. QueueIsDistinct' /\ QueuedWaits'
  <2>1. /\ DOMAIN tasks' = DOMAIN tasks \union {Len(tasks) + 1}
        /\ tasks'[Len(tasks) + 1] = t /\ \A i \in DOMAIN tasks : tasks'[i] = tasks[i]
    BY <1>1, QueueFacts DEF PoolTyped
  <2> QED BY <1>3, <1>4, <2>1 DEF QueueIsDistinct, QueuedWaits
<1>6. TakenRuns' /\ OneRunsIt'
  BY <1>1, <1>3 DEF TakenRuns, OneRunsIt
<1>7. ResultsAreDone'
  BY <1>1, <1>3, QueueFacts DEF ResultsAreDone, PoolTyped
<1>8. OnlyDoneIsHeard' /\ RequestIsHeeded'
  BY <1>1, <1>3 DEF OnlyDoneIsHeard, RequestIsHeeded
<1> QED BY <1>2, <1>5, <1>6, <1>7, <1>8

\* A task that waits is cancelled at once, one that runs is asked to be.
LEMMA CancelTaskKept ==
    ASSUME TasksInv, NEW t \in Tasks, CancelTask(t)
    PROVE  TasksInv'
<1> USE DEF TasksInv
<1>0. UNCHANGED <<tasks, running, completions, ready, deliveries>>
  BY DEF CancelTask, queueVars
<1>1. CASE /\ status[t] = "Queued" /\ status' = [status EXCEPT ![t] = "Cancelled"]
           /\ UNCHANGED cancelRequested
  <2>1. /\ status'[t] = "Cancelled" /\ \A u \in Tasks \ {t} : status'[u] = status[u]
    BY <1>1 DEF PoolTyped
  <2>2. PoolTyped'
    BY <1>0, <1>1 DEF PoolTyped, Status
  <2>3. QueuedWaits' /\ ResultsAreDone'
    BY <1>0, <1>1, <2>1, QueueFacts DEF QueuedWaits, ResultsAreDone, PoolTyped
  <2> QED BY <1>0, <1>1, <2>1, <2>2, <2>3 DEF QueueIsDistinct, TakenRuns, OneRunsIt,
             OnlyDoneIsHeard, RequestIsHeeded
<1>2. CASE /\ status[t] = "Running" /\ UNCHANGED status
           /\ cancelRequested' = [cancelRequested EXCEPT ![t] = TRUE]
  BY <1>0, <1>2 DEF PoolTyped, QueueIsDistinct, QueuedWaits, TakenRuns, OneRunsIt,
     ResultsAreDone, OnlyDoneIsHeard, RequestIsHeeded
<1> QED BY <1>1, <1>2 DEF CancelTask

\* A worker takes a task that waits, or drops it.
LEMMA TakeKept ==
    ASSUME TasksInv, NEW w \in Workers, Take(w)
    PROVE  TasksInv'
<1> USE DEF TasksInv
<1> DEFINE t == Head(tasks)
<1>0. /\ tasks # << >> /\ tasks' = Tail(tasks) /\ running[w] = "Idle"
      /\ UNCHANGED <<cancelRequested, completions, ready, deliveries>>
  BY DEF Take, Awake
<1>1. /\ 1 \in DOMAIN tasks /\ t = tasks[1] /\ t \in Tasks /\ tasks' \in Seq(Tasks)
      /\ \A i \in DOMAIN tasks' :
            i + 1 \in DOMAIN tasks /\ i \in Nat \ {0} /\ tasks'[i] = tasks[i + 1]
  BY <1>0, QueueFacts DEF PoolTyped
<1>2. QueueIsDistinct' /\ \A i \in DOMAIN tasks' : tasks'[i] # t
  BY <1>1 DEF QueueIsDistinct
<1>3. CASE status[t] = "Cancelled" /\ UNCHANGED <<status, running>>
  BY <1>0, <1>1, <1>2, <1>3 DEF PoolTyped, QueuedWaits, TakenRuns, OneRunsIt, ResultsAreDone,
     OnlyDoneIsHeard, RequestIsHeeded
<1>4. CASE /\ status[t] # "Cancelled" /\ status' = [status EXCEPT ![t] = "Running"]
           /\ running' = [running EXCEPT ![w] = t]
  <2>1. status[t] = "Queued"
    BY <1>1, <1>4 DEF QueuedWaits
  <2> HIDE DEF t
  <2>2. /\ status'[t] = "Running" /\ \A u \in Tasks \ {t} : status'[u] = status[u]
        /\ running'[w] = t /\ \A v \in Workers \ {w} : running'[v] = running[v]
    BY <1>1, <1>4 DEF PoolTyped
  <2>3. PoolTyped'
    BY <1>0, <1>1, <1>4 DEF PoolTyped, Status
  <2>4. QueuedWaits'
    BY <1>1, <1>2, <2>2, QueueFacts DEF QueuedWaits
  <2>5. \A v \in Workers : running[v] \in Tasks => running[v] # t
    BY <2>1 DEF TakenRuns
  <2>6. TakenRuns' /\ OneRunsIt'
    BY <2>2, <2>5 DEF TakenRuns, OneRunsIt
  <2>7. ResultsAreDone'
    <3>1. /\ \A i \in DOMAIN completions : completions[i] \in Tasks \ {t}
          /\ \A i \in DOMAIN ready : ready[i] \in Tasks \ {t}
      BY <2>1, QueueFacts DEF ResultsAreDone, PoolTyped
    <3> QED BY <1>0, <2>2, <3>1 DEF ResultsAreDone
  <2> QED BY <1>0, <1>2, <2>1, <2>2, <2>3, <2>4, <2>6, <2>7 DEF OnlyDoneIsHeard,
             RequestIsHeeded
<1> QED BY <1>3, <1>4 DEF Take

\* The work ends: its result is kept unless nobody wants it any more.
LEMMA FinishKept ==
    ASSUME TasksInv, NEW w \in Workers, FinishWork(w)
    PROVE  TasksInv'
<1> USE DEF TasksInv
<1> DEFINE t == running[w]
<1>0. /\ t \in Tasks /\ status[t] = "Running" /\ running' = [running EXCEPT ![w] = "Idle"]
      /\ UNCHANGED <<cancelRequested, tasks, ready, deliveries>>
  BY DEF FinishWork, TakenRuns
<1>1. PICK new \in {"Cancelled", "Done"} :
          /\ status' = [status EXCEPT ![t] = new]
          /\ cancelRequested[t] => new = "Cancelled"
          /\ \/ completions' = completions
             \/ completions' = Append(completions, t) /\ new = "Done"
  BY DEF FinishWork, Suppressed
<1>2. "Idle" \notin Tasks
  BY TasksType
<1> HIDE DEF t
<1>3. /\ status'[t] = new /\ \A u \in Tasks \ {t} : status'[u] = status[u]
      /\ running'[w] = "Idle" /\ \A v \in Workers \ {w} : running'[v] = running[v]
  BY <1>0, <1>1 DEF PoolTyped
<1>4. PoolTyped'
  <2>1. completions' \in Seq(Tasks)
    <3>1. completions \in Seq(Tasks) /\ Append(completions, t) \in Seq(Tasks)
      BY <1>0, QueueFacts DEF PoolTyped
    <3> QED BY <1>1, <3>1
  <2> QED BY <1>0, <1>1, <2>1 DEF PoolTyped, Status
<1>5. QueueIsDistinct' /\ QueuedWaits'
  BY <1>0, <1>3, QueueFacts DEF QueueIsDistinct, QueuedWaits, PoolTyped
<1>6. TakenRuns' /\ OneRunsIt'
  <2>1. \A v \in Workers \ {w} : running[v] \in Tasks => running[v] # t
    BY <1>0 DEF OneRunsIt, t
  <2> QED BY <1>2, <1>3, <2>1 DEF TakenRuns, OneRunsIt
<1>7. ResultsAreDone'
  <2>1. /\ \A i \in DOMAIN completions : completions[i] \in Tasks \ {t}
        /\ \A i \in DOMAIN ready : ready[i] \in Tasks \ {t}
    BY <1>0, QueueFacts DEF ResultsAreDone, PoolTyped
  <2>2. CASE completions' = completions
    BY <1>0, <1>3, <2>1, <2>2 DEF ResultsAreDone
  <2>3. CASE completions' = Append(completions, t) /\ new = "Done"
    <3>1. /\ DOMAIN completions' = DOMAIN completions \union {Len(completions) + 1}
          /\ completions'[Len(completions) + 1] = t
          /\ \A i \in DOMAIN completions : completions'[i] = completions[i]
      BY <1>0, <2>3, QueueFacts DEF PoolTyped
    <3> QED BY <1>0, <1>3, <2>1, <2>3, <3>1 DEF ResultsAreDone
  <2> QED BY <1>1, <2>2, <2>3
<1>8. OnlyDoneIsHeard' /\ RequestIsHeeded'
  BY <1>0, <1>1, <1>3 DEF OnlyDoneIsHeard, RequestIsHeeded
<1> QED BY <1>4, <1>5, <1>6, <1>7, <1>8

\* A pump takes the results over, and runs the completion of what is done.
LEMMA PumpKept ==
    ASSUME TasksInv, TakeCompletions \/ Deliver
    PROVE  TasksInv'
<1> USE DEF TasksInv
<1>0. UNCHANGED <<status, cancelRequested, tasks, running>>
  BY DEF TakeCompletions, Deliver, stateVars, queueVars
<1>1. CASE TakeCompletions
  <2>1. ready' = completions /\ completions' = << >> /\ UNCHANGED deliveries
    BY <1>1 DEF TakeCompletions
  <2>2. << >> \in Seq(Tasks) /\ DOMAIN << >> = {}
    OBVIOUS
  <2> QED BY <1>0, <2>1, <2>2 DEF PoolTyped, QueueIsDistinct, QueuedWaits, TakenRuns, OneRunsIt,
             ResultsAreDone, OnlyDoneIsHeard, RequestIsHeeded
<1>2. CASE Deliver
  <2> DEFINE t == Head(ready)
  <2>1. /\ ready # << >> /\ ready' = Tail(ready) /\ UNCHANGED completions
        /\ \/ UNCHANGED deliveries
           \/ deliveries' = [deliveries EXCEPT ![t] = @ + 1]
    BY <1>2 DEF Deliver, queueVars
  <2>2. /\ t \in Tasks /\ status[t] = "Done" /\ ready' \in Seq(Tasks)
        /\ \A i \in DOMAIN ready' : status[ready'[i]] = "Done"
    BY <2>1, QueueFacts DEF PoolTyped, ResultsAreDone
  <2> HIDE DEF t
  <2>3. /\ deliveries' \in [Tasks -> Nat]
        /\ \A u \in Tasks \ {t} : deliveries'[u] = deliveries[u]
    BY <2>1, <2>2 DEF PoolTyped
  <2> QED BY <1>0, <2>1, <2>2, <2>3 DEF PoolTyped, QueueIsDistinct, QueuedWaits, TakenRuns,
             OneRunsIt, ResultsAreDone, OnlyDoneIsHeard, RequestIsHeeded
<1> QED BY <1>1, <1>2

\* The end of a generation, or of the pool, cancels what waits.
LEMMA WaitingCancelled ==
    ASSUME TasksInv, status' \in [Tasks -> Status],
           \A t \in Tasks : \/ status'[t] = status[t]
                            \/ status[t] = "Queued" /\ status'[t] = "Cancelled",
           UNCHANGED <<cancelRequested, running, completions, ready, deliveries>>,
           tasks' \in Seq(Tasks), QueueIsDistinct',
           \A i \in DOMAIN tasks' : \E j \in DOMAIN tasks : tasks'[i] = tasks[j]
    PROVE  TasksInv'
<1> USE DEF TasksInv
<1>1. PoolTyped'
  BY DEF PoolTyped
<1>2. QueuedWaits'
  <2> SUFFICES ASSUME NEW i \in DOMAIN tasks'
               PROVE  status'[tasks'[i]] \in {"Queued", "Cancelled"}
    BY DEF QueuedWaits
  <2>1. PICK j \in DOMAIN tasks : tasks'[i] = tasks[j]
    OBVIOUS
  <2>2. tasks[j] \in Tasks
    BY <2>1, QueueFacts DEF PoolTyped
  <2> QED BY <2>1, <2>2 DEF QueuedWaits
<1>3. TakenRuns' /\ OneRunsIt'
  BY DEF TakenRuns, OneRunsIt
<1>4. ResultsAreDone'
  BY QueueFacts DEF ResultsAreDone, PoolTyped
<1>5. OnlyDoneIsHeard' /\ RequestIsHeeded'
  BY DEF OnlyDoneIsHeard, RequestIsHeeded
<1> QED BY <1>1, <1>2, <1>3, <1>4, <1>5

LEMMA StopsKept ==
    ASSUME TasksInv, BeginStop \/ (\E r \in Resources : ResourceStopped(r))
    PROVE  TasksInv'
<1>1. CASE BeginStop
  BY <1>1, WaitingCancelled DEF BeginStop, queueVars, TasksInv, PoolTyped, QueueIsDistinct, Status
<1>2. CASE \E r \in Resources : ResourceStopped(r)
  <2>1. PICK r \in Resources : ResourceStopped(r)
    BY <1>2
  <2>2. /\ UNCHANGED <<cancelRequested, running, completions, ready, deliveries>>
        /\ tasks' = [n \in 1 .. Cardinality(PlacesOfOthers(r)) |->
                        tasks[Nth(PlacesOfOthers(r), n)]]
    BY <2>1 DEF ResourceStopped, StopTasksOf
  <2>3. /\ status' \in [Tasks -> Status]
        /\ \A t \in Tasks : \/ status'[t] = status[t]
                            \/ status[t] = "Queued" /\ status'[t] = "Cancelled"
    BY <2>1 DEF ResourceStopped, StopTasksOf, TasksInv, PoolTyped, Status
  <2>4. /\ tasks' \in Seq(Tasks) /\ QueueIsDistinct'
        /\ \A i \in DOMAIN tasks' : \E j \in DOMAIN tasks : tasks'[i] = tasks[j]
    BY <2>2, QueueShrinks DEF TasksInv, PoolTyped
  <2> QED BY <2>2, <2>3, <2>4, WaitingCancelled
<1> QED BY <1>1, <1>2

\* The other steps move no task forward.
LEMMA RestOfTasksKept ==
    ASSUME TasksInv,
           \/ UNCHANGED <<status, cancelRequested, tasks, running, completions, ready, deliveries>>
           \/ \E w \in Workers : ExitWorker(w)
           \/ JoinWorkers
    PROVE  TasksInv'
<1> USE DEF TasksInv
<1>1. CASE UNCHANGED <<status, cancelRequested, tasks, running, completions, ready, deliveries>>
  BY <1>1 DEF PoolTyped, QueueIsDistinct, QueuedWaits, TakenRuns, OneRunsIt, ResultsAreDone,
     OnlyDoneIsHeard, RequestIsHeeded
<1>2. CASE \E w \in Workers : ExitWorker(w)
  <2>1. PICK w \in Workers : ExitWorker(w)
    BY <1>2
  <2>2. /\ UNCHANGED <<status, cancelRequested, tasks, completions, ready, deliveries>>
        /\ running' = [running EXCEPT ![w] = "Exited"]
    BY <2>1 DEF ExitWorker, stateVars
  <2>3. "Exited" \notin Tasks
    BY TasksType
  <2>4. running'[w] = "Exited" /\ \A v \in Workers \ {w} : running'[v] = running[v]
    BY <2>2 DEF PoolTyped
  <2>5. PoolTyped'
    BY <2>2 DEF PoolTyped
  <2> QED BY <2>2, <2>3, <2>4, <2>5 DEF QueueIsDistinct, QueuedWaits, TakenRuns, OneRunsIt,
             ResultsAreDone, OnlyDoneIsHeard, RequestIsHeeded
<1>3. CASE JoinWorkers
  <2>1. /\ UNCHANGED <<status, cancelRequested, running, ready, deliveries>>
        /\ tasks' = << >> /\ completions' = << >>
    BY <1>3 DEF JoinWorkers, stateVars
  <2>2. << >> \in Seq(Tasks) /\ DOMAIN << >> = {}
    OBVIOUS
  <2> QED BY <2>1, <2>2 DEF PoolTyped, QueueIsDistinct, QueuedWaits, TakenRuns, OneRunsIt,
             ResultsAreDone, OnlyDoneIsHeard, RequestIsHeeded
<1> QED BY <1>1, <1>2, <1>3

\* The steps of the timers leave the tasks alone.
LEMMA TimersLeaveTasks ==
    ASSUME \/ CollectDue \/ PumpEnds
           \/ \E k \in Timers : \/ Fire(k) \/ CallbackReturns(k) \/ PostTimer(k)
                                \/ CancelTimer(k) \/ CancelTimerById(k)
    PROVE  /\ UNCHANGED <<status, cancelRequested, tasks, running, completions, ready, deliveries>>
           /\ UNCHANGED <<generation, loaded>>
BY DEF CollectDue, PumpEnds, Fire, CallbackReturns, PostTimer, CancelTimer, CancelTimerById,
   poolVars, stateVars, queueVars, hubVars

\* Where every task is agrees with its status in every behaviour.
THEOREM TasksInvariant == SchedulerSpec => []TasksInv
<1>1. ASSUME SchedulerInit PROVE TasksInv
  <2>1. << >> \in Seq(Tasks) /\ DOMAIN << >> = {}
    OBVIOUS
  <2> QED BY <1>1, <2>1, TasksType DEF SchedulerInit, PoolInit, TasksInv, PoolTyped, Status,
             QueueIsDistinct, QueuedWaits, TakenRuns, OneRunsIt, ResultsAreDone, OnlyDoneIsHeard,
             RequestIsHeeded
<1>2. ASSUME TasksInv, [SchedulerNext]_schedulerVars PROVE TasksInv'
  <2>1. ASSUME NEW w \in Workers, WorkerStep(w) \/ WakeSpuriously(w) PROVE TasksInv'
    <3>1. CASE Sleep(w) \/ WakeSpuriously(w)
      BY <1>2, <3>1, RestOfTasksKept DEF Sleep, WakeSpuriously, stateVars
    <3> QED BY <1>2, <2>1, <3>1, TakeKept, FinishKept, RestOfTasksKept DEF WorkerStep
  <2>2. CASE PumpStep
    <3>1. CASE CompletionReturns
      BY <1>2, <3>1, RestOfTasksKept DEF CompletionReturns, stateVars, queueVars
    <3> QED BY <1>2, <2>2, <3>1, PumpKept, TimersLeaveTasks, RestOfTasksKept DEF PumpStep
  <2>3. CASE ApiCall
    BY <1>2, <2>3, PostTaskKept, CancelTaskKept, TimersLeaveTasks, RestOfTasksKept DEF ApiCall
  <2>4. CASE HostStep
    <3>1. ASSUME NEW r \in Resources, ResourceStarted(r) PROVE TasksInv'
      BY <1>2, <3>1, RestOfTasksKept DEF ResourceStarted, stateVars, queueVars
    <3>2. ASSUME NEW r \in Resources, StopResource(r) PROVE TasksInv'
      BY <1>2, <3>2, StopsKept DEF StopResource
    <3> QED BY <1>2, <2>4, <3>1, <3>2, StopsKept DEF HostStep
  <2>5. CASE StopStep
    <3>1. CASE NotifyAll
      BY <1>2, <3>1, RestOfTasksKept DEF NotifyAll, stateVars
    <3> QED BY <1>2, <2>5, <3>1, RestOfTasksKept DEF StopStep, StopPool
  <2>6. CASE UNCHANGED schedulerVars
    BY <1>2, <2>6, RestOfTasksKept DEF schedulerVars, poolVars, stateVars, queueVars
  <2> QED BY <1>2, <2>1, <2>2, <2>3, <2>4, <2>5, <2>6 DEF SchedulerNext
<1> QED BY <1>1, <1>2, PTL DEF SchedulerSpec

\* The completion of a task whose cancellation succeeded never runs, whether the task
\* waited, ran, or was about to be handed over (task.hpp).
THEOREM CancelledIsAlwaysSilent == SchedulerSpec => []CancelledIsSilent
<1>1. TasksInv => CancelledIsSilent
  BY DEF TasksInv, OnlyDoneIsHeard, RequestIsHeeded, CancelledIsSilent
<1> QED BY <1>1, TasksInvariant, PTL
-----------------------------------------------------------------------------
(* Timers *)

\* A timer is in one place, from its post on; one that repeats has a firing left for
\* every time it is still scheduled; and what is scheduled or fires belongs to a
\* generation that lives, because no resource stops inside a pump.
TimersTyped ==
    /\ timers \subseteq posted /\ due \subseteq posted /\ firing \subseteq posted
    /\ cancelled \subseteq posted /\ posted \subseteq Timers
    /\ fired \in [Timers -> Nat] /\ repeatsLeft \in [Timers -> Nat]
    /\ timerBorn \in [Timers -> Int] /\ generation \in [Resources -> Int]
Elsewhere == timers \intersect due = {} /\ (timers \union due) \intersect firing = {}
Pumping ==
    /\ due # {} => main \in {"timers", "callback"}
    /\ firing # {} => main = "callback"
WaitingCounts(k) ==
    /\ Repeats[k] > 0 => repeatsLeft[k] > 0 /\ fired[k] + repeatsLeft[k] = Repeats[k]
    /\ Repeats[k] = 0 => repeatsLeft[k] = 0
FiringCounts(k) ==
    /\ Repeats[k] > 0 => repeatsLeft[k] > 0 /\ fired[k] + repeatsLeft[k] = Repeats[k] + 1
    /\ Repeats[k] = 0 => repeatsLeft[k] = 0
TimerCounts(k) ==
    /\ k \in timers \union due => WaitingCounts(k)
    /\ k \in firing => FiringCounts(k)
    /\ k \notin posted => fired[k] = 0
    /\ Repeats[k] > 0 => fired[k] <= Repeats[k]
Lives(k) == TimerOwner[k] \in loaded /\ timerBorn[k] = generation[TimerOwner[k]]
ScheduledLives == \A k \in timers \union due \union firing : Lives(k)
TimersInv ==
    /\ TimersTyped /\ Elsewhere /\ Pumping
    /\ \A k \in Timers : TimerCounts(k)
    /\ cancelled \intersect timers = {}
    /\ ScheduledLives

\* A step that is not about timers, and begins or ends no pump.
LEMMA TimersFrame ==
    ASSUME TimersInv, UNCHANGED timerVars, generation' = generation, loaded \subseteq loaded',
           Pumping'
    PROVE  TimersInv'
BY DEF TimersInv, timerVars, TimersTyped, Elsewhere, TimerCounts, WaitingCounts, FiringCounts,
   ScheduledLives, Lives

LEMMA PostTimerKept ==
    ASSUME TimersInv, NEW k \in Timers, PostTimer(k)
    PROVE  TimersInv'
<1> USE DEF TimersInv
<1>1. /\ k \notin posted /\ TimerOwner[k] \in loaded
      /\ posted' = posted \union {k} /\ timers' = timers \union {k}
      /\ timerBorn' = [timerBorn EXCEPT ![k] = generation[TimerOwner[k]]]
      /\ repeatsLeft' = [repeatsLeft EXCEPT ![k] = Repeats[k]]
      /\ UNCHANGED <<due, firing, fired, cancelled, generation, loaded, main>>
  BY DEF PostTimer, poolVars, hubVars
<1>2. TimerOwner[k] \in Resources /\ Repeats[k] \in Nat /\ generation[TimerOwner[k]] \in Int
  BY TimersType DEF TimersTyped
<1>3. /\ timerBorn'[k] = generation[TimerOwner[k]] /\ repeatsLeft'[k] = Repeats[k]
      /\ \A j \in Timers \ {k} : timerBorn'[j] = timerBorn[j] /\ repeatsLeft'[j] = repeatsLeft[j]
  BY <1>1 DEF TimersTyped
<1>4. TimersTyped' /\ Elsewhere' /\ Pumping'
  BY <1>1, <1>2 DEF TimersTyped, Elsewhere, Pumping
<1>5. ASSUME NEW j \in Timers PROVE TimerCounts(j)'
  <2>1. CASE j = k
    BY <1>1, <1>2, <1>3, <2>1 DEF TimerCounts, WaitingCounts, TimersTyped
  <2>2. CASE j # k
    BY <1>1, <1>3, <2>2 DEF TimerCounts, WaitingCounts, FiringCounts
  <2> QED BY <2>1, <2>2
<1>6. (cancelled \intersect timers = {})' /\ ScheduledLives'
  BY <1>1, <1>3 DEF TimersTyped, ScheduledLives, Lives
<1> QED BY <1>4, <1>5, <1>6

LEMMA CancelTimerKept ==
    ASSUME TimersInv, NEW k \in Timers, CancelTimer(k) \/ CancelTimerById(k)
    PROVE  TimersInv'
<1> USE DEF TimersInv
<1>1. /\ timers' = timers \ {k} /\ cancelled' \subseteq cancelled \union {k}
      /\ cancelled' \subseteq posted
      /\ UNCHANGED <<posted, due, firing, timerBorn, repeatsLeft, fired, generation, loaded, main>>
  BY DEF CancelTimer, CancelTimerById, Valid, TimersTyped, poolVars, hubVars
<1>2. TimersTyped' /\ Elsewhere' /\ Pumping' /\ ScheduledLives'
  BY <1>1 DEF TimersTyped, Elsewhere, Pumping, ScheduledLives, Lives
<1>3. ASSUME NEW j \in Timers PROVE TimerCounts(j)'
  BY <1>1 DEF TimerCounts, WaitingCounts, FiringCounts
<1>4. (cancelled \intersect timers = {})'
  BY <1>1
<1> QED BY <1>2, <1>3, <1>4

LEMMA CollectKept ==
    ASSUME TimersInv, CollectDue
    PROVE  TimersInv'
<1> USE DEF TimersInv
<1>1. PICK now \in SUBSET timers : due' = {k \in now : ~Stale(k)} /\ timers' = timers \ now
  BY DEF CollectDue
<1>2. /\ main = "drain" /\ main' = "timers"
      /\ UNCHANGED <<posted, firing, timerBorn, repeatsLeft, fired, cancelled, generation, loaded>>
  BY DEF CollectDue, Goto, hubVars
<1>3. due' \subseteq timers /\ due' \intersect timers' = {} /\ timers' \subseteq timers
      /\ firing = {}
  BY <1>1, <1>2 DEF Pumping
<1>4. TimersTyped' /\ Elsewhere' /\ Pumping' /\ ScheduledLives'
  BY <1>2, <1>3 DEF TimersTyped, Elsewhere, Pumping, ScheduledLives, Lives
<1>5. ASSUME NEW j \in Timers PROVE TimerCounts(j)'
  BY <1>2, <1>3 DEF TimerCounts, WaitingCounts, FiringCounts
<1>6. (cancelled \intersect timers = {})'
  BY <1>2, <1>3
<1> QED BY <1>4, <1>5, <1>6

LEMMA FireKept ==
    ASSUME TimersInv, NEW k \in Timers, Fire(k)
    PROVE  TimersInv'
<1> USE DEF TimersInv
<1>1. /\ k \in due /\ main' = "callback"
      /\ due' = due \ {k} /\ firing' = {k}
      /\ fired' = [fired EXCEPT ![k] = @ + 1]
      /\ UNCHANGED <<posted, timers, timerBorn, repeatsLeft, cancelled, generation, loaded>>
  BY DEF Fire, Goto, hubVars
<1>2. fired'[k] = fired[k] + 1 /\ \A j \in Timers \ {k} : fired'[j] = fired[j]
  BY <1>1 DEF TimersTyped
<1>3. TimersTyped' /\ Elsewhere' /\ Pumping' /\ ScheduledLives'
  BY <1>1 DEF TimersTyped, Elsewhere, Pumping, ScheduledLives, Lives
<1>4. ASSUME NEW j \in Timers PROVE TimerCounts(j)'
  <2>1. CASE j = k
    <3>1. /\ k \in due /\ k \in posted /\ k \notin timers /\ WaitingCounts(k)
          /\ Repeats[k] \in Nat /\ fired[k] \in Nat /\ repeatsLeft[k] \in Nat
      BY <1>1, TimersType DEF TimerCounts, Elsewhere, TimersTyped
    <3> QED BY <1>1, <1>2, <2>1, <3>1 DEF TimerCounts, WaitingCounts, FiringCounts
  <2>2. CASE j # k
    BY <1>1, <1>2, <2>2 DEF TimerCounts, WaitingCounts, FiringCounts
  <2> QED BY <2>1, <2>2
<1>5. (cancelled \intersect timers = {})'
  BY <1>1
<1> QED BY <1>3, <1>4, <1>5

LEMMA CallbackReturnsKept ==
    ASSUME TimersInv, NEW k \in Timers, CallbackReturns(k)
    PROVE  TimersInv'
<1> USE DEF TimersInv
<1>1. /\ k \in firing /\ main' = "timers" /\ firing' = {}
      /\ UNCHANGED <<posted, due, timerBorn, fired, cancelled, generation, loaded>>
  BY DEF CallbackReturns, Goto, hubVars
<1>2. /\ k \in posted /\ k \notin timers \union due /\ FiringCounts(k) /\ Lives(k)
      /\ Repeats[k] \in Nat /\ fired[k] \in Nat /\ repeatsLeft[k] \in Nat
  BY <1>1, TimersType DEF TimerCounts, Elsewhere, TimersTyped, ScheduledLives
<1>3. CASE UNCHANGED <<timers, repeatsLeft>>
  <2>1. TimersTyped' /\ Elsewhere' /\ Pumping' /\ ScheduledLives'
    BY <1>1, <1>3 DEF TimersTyped, Elsewhere, Pumping, ScheduledLives, Lives
  <2>2. ASSUME NEW j \in Timers PROVE TimerCounts(j)'
    BY <1>1, <1>3 DEF TimerCounts, WaitingCounts
  <2> QED BY <1>1, <1>3, <2>1, <2>2
<1>4. CASE /\ ScheduledAgain(k) /\ timers' = timers \union {k}
           /\ repeatsLeft' = [repeatsLeft EXCEPT ![k] = IF @ > 0 THEN @ - 1 ELSE 0]
  <2>1. k \notin cancelled /\ repeatsLeft[k] # 1
    BY <1>4 DEF ScheduledAgain, LimitReached
  <2>2. /\ repeatsLeft'[k] = IF repeatsLeft[k] > 0 THEN repeatsLeft[k] - 1 ELSE 0
        /\ repeatsLeft' \in [Timers -> Nat]
        /\ \A j \in Timers \ {k} : repeatsLeft'[j] = repeatsLeft[j]
    BY <1>2, <1>4 DEF TimersTyped
  <2>3. TimersTyped' /\ Elsewhere' /\ Pumping' /\ ScheduledLives'
    BY <1>1, <1>2, <1>4, <2>2 DEF TimersTyped, Elsewhere, Pumping, ScheduledLives, Lives
  <2>4. ASSUME NEW j \in Timers PROVE TimerCounts(j)'
    <3>1. CASE j = k
      BY <1>1, <1>2, <1>4, <2>1, <2>2, <3>1 DEF TimerCounts, WaitingCounts, FiringCounts
    <3>2. CASE j # k
      BY <1>1, <1>4, <2>2, <3>2 DEF TimerCounts, WaitingCounts
    <3> QED BY <3>1, <3>2
  <2>5. (cancelled \intersect timers = {})'
    BY <1>1, <1>4, <2>1
  <2> QED BY <2>3, <2>4, <2>5
<1> QED BY <1>3, <1>4 DEF CallbackReturns

\* A resource that stops takes its timers with it; the pool takes all of them.
LEMMA StopTimersKept ==
    ASSUME TimersInv, StopPool \/ (\E r \in Resources : StopResource(r))
    PROVE  TimersInv'
<1> USE DEF TimersInv
<1>1. CASE StopPool
  <2>1. /\ timers' = {} /\ main = "joining"
        /\ UNCHANGED <<posted, due, firing, timerBorn, repeatsLeft, fired, cancelled,
                       generation, loaded>>
    BY <1>1 DEF StopPool, JoinWorkers, hubVars
  <2> QED BY <2>1 DEF TimersTyped, Elsewhere, Pumping, ScheduledLives, Lives, TimerCounts,
             WaitingCounts, FiringCounts
<1>2. CASE \E r \in Resources : StopResource(r)
  <2>1. PICK r \in Resources : StopResource(r)
    BY <1>2
  <2>2. /\ timers' = {k \in timers : TimerOwner[k] # r} /\ main = "idle"
        /\ generation' = [generation EXCEPT ![r] = @ + 1] /\ loaded' = loaded \ {r}
        /\ UNCHANGED <<posted, due, firing, timerBorn, repeatsLeft, fired, cancelled, main>>
    BY <2>1 DEF StopResource, ResourceStopped, StopTasksOf
  <2>3. due = {} /\ firing = {}
    BY <2>2 DEF Pumping
  <2>4. TimersTyped' /\ Elsewhere' /\ Pumping'
    BY <2>2, <2>3 DEF TimersTyped, Elsewhere, Pumping
  <2>5. ASSUME NEW j \in Timers PROVE TimerCounts(j)'
    BY <2>2 DEF TimerCounts, WaitingCounts, FiringCounts
  <2>6. ScheduledLives'
    <3> SUFFICES ASSUME NEW k \in timers, TimerOwner[k] # r
                 PROVE  Lives(k)'
      BY <2>2, <2>3 DEF ScheduledLives
    <3>1. TimerOwner[k] \in Resources /\ Lives(k)
      BY TimersType DEF TimersTyped, ScheduledLives
    <3> QED BY <2>2, <3>1 DEF Lives, TimersTyped
  <2> QED BY <2>2, <2>4, <2>5, <2>6
<1> QED BY <1>1, <1>2

\* Every timer is where its count of firings says, in every behaviour.
THEOREM TimersInvariant == SchedulerSpec => []TimersInv
<1>1. ASSUME SchedulerInit PROVE TimersInv
  BY <1>1, TimersType DEF SchedulerInit, PoolInit, TimersInv, TimersTyped, Elsewhere, Pumping,
     TimerCounts, WaitingCounts, FiringCounts, ScheduledLives
<1>2. ASSUME TimersInv, [SchedulerNext]_schedulerVars PROVE TimersInv'
  <2>1. ASSUME NEW w \in Workers, WorkerStep(w) \/ WakeSpuriously(w), UNCHANGED timerVars
        PROVE  TimersInv'
    BY <1>2, <2>1, TimersFrame DEF WorkerStep, Sleep, WakeSpuriously, Take, FinishWork, ExitWorker,
       hubVars, TimersInv, Pumping, timerVars
  <2>2. CASE PumpStep
    <3>1. CASE (TakeCompletions \/ Deliver \/ CompletionReturns) /\ UNCHANGED timerVars
      <4>1. Pumping'
        BY <1>2, <3>1 DEF TimersInv, Pumping, timerVars, TakeCompletions, Deliver,
           CompletionReturns, Goto
      <4> QED BY <1>2, <3>1, <4>1, TimersFrame DEF TakeCompletions, Deliver, CompletionReturns,
                 hubVars
    <3>2. CASE PumpEnds
      <4>1. Pumping'
        BY <1>2, <3>2 DEF TimersInv, Pumping, timerVars, PumpEnds, Goto
      <4> QED BY <1>2, <3>2, <4>1, TimersFrame DEF PumpEnds, hubVars
    <3> QED BY <1>2, <2>2, <3>1, <3>2, CollectKept, FireKept, CallbackReturnsKept DEF PumpStep
  <2>3. CASE ApiCall
    <3>1. ASSUME NEW t \in Tasks, PostTask(t) \/ CancelTask(t), UNCHANGED timerVars
          PROVE  TimersInv'
      BY <1>2, <3>1, TimersFrame DEF PostTask, CancelTask, hubVars, TimersInv, Pumping, timerVars
    <3> QED BY <1>2, <2>3, <3>1, PostTimerKept, CancelTimerKept DEF ApiCall
  <2>4. CASE HostStep
    <3>1. ASSUME NEW r \in Resources, ResourceStarted(r), UNCHANGED timerVars PROVE TimersInv'
      BY <1>2, <3>1, TimersFrame DEF ResourceStarted, TimersInv, Pumping, timerVars
    <3>2. CASE BeginStop /\ UNCHANGED timerVars
      BY <1>2, <3>2, TimersFrame DEF BeginStop, hubVars, TimersInv, Pumping, timerVars, Goto
    <3> QED BY <1>2, <2>4, <3>1, <3>2, StopTimersKept DEF HostStep
  <2>5. CASE StopStep
    <3>1. CASE NotifyAll /\ UNCHANGED timerVars
      BY <1>2, <3>1, TimersFrame DEF NotifyAll, hubVars, TimersInv, Pumping, timerVars, Goto
    <3> QED BY <1>2, <2>5, <3>1, StopTimersKept DEF StopStep
  <2>6. CASE UNCHANGED schedulerVars
    BY <1>2, <2>6, TimersFrame DEF schedulerVars, poolVars, hubVars, TimersInv, Pumping, timerVars
  <2> QED BY <1>2, <2>1, <2>2, <2>3, <2>4, <2>5, <2>6 DEF SchedulerNext, WorkerStep
<1> QED BY <1>1, <1>2, PTL DEF SchedulerSpec

\* A timer fires at most as often as it was asked to, and one that was cancelled through
\* its handle is not scheduled again (scheduler.cpp, timer.cpp).
THEOREM RepeatsAreAlwaysKept == SchedulerSpec => []RepeatsAreKept
<1>1. TimersInv => RepeatsAreKept
  BY DEF TimersInv, TimerCounts, RepeatsAreKept, TimersTyped
<1> QED BY <1>1, TimersInvariant, PTL

\* No completion and no timer reaches a VM generation that has ended (scheduler.cpp).
THEOREM EndedGenerationsAreSilent == SchedulerSpec => EndedGenerationIsSilent
<1>1. ASSUME TasksInv, TimersInv, [SchedulerNext]_schedulerVars
      PROVE  [/\ \A t \in Tasks : Owner[t] # NoOwner /\ deliveries'[t] # deliveries[t] =>
                    Owner[t] \in loaded /\ generation[Owner[t]] = born[t]
              /\ \A k \in Timers : fired'[k] # fired[k] =>
                    TimerOwner[k] \in loaded /\ generation[TimerOwner[k]] = timerBorn[k]
             ]_schedulerVars
  <2>1. ASSUME NEW t \in Tasks, Owner[t] # NoOwner, deliveries'[t] # deliveries[t]
        PROVE  Owner[t] \in loaded /\ generation[Owner[t]] = born[t]
    <3>1. Deliver
      BY <1>1, <2>1, TimersLeaveTasks DEF SchedulerNext, WorkerStep, Sleep, WakeSpuriously,
         Take, FinishWork, ExitWorker, PumpStep, TakeCompletions, CompletionReturns, ApiCall, PostTask, CancelTask, HostStep,
         StopResource, ResourceStopped, ResourceStarted, BeginStop, StopStep, NotifyAll,
         StopPool, JoinWorkers, schedulerVars, poolVars
    <3>2. /\ Deliverable(Head(ready))
          /\ deliveries' = [deliveries EXCEPT ![Head(ready)] = @ + 1]
      BY <2>1, <3>1 DEF Deliver
    <3>3. t = Head(ready)
      BY <1>1, <2>1, <3>2 DEF TasksInv, PoolTyped
    <3> QED BY <2>1, <3>2, <3>3 DEF Deliverable
  <2>2. ASSUME NEW k \in Timers, fired'[k] # fired[k]
        PROVE  TimerOwner[k] \in loaded /\ generation[TimerOwner[k]] = timerBorn[k]
    <3>1. PICK j \in Timers : Fire(j)
      BY <1>1, <2>2 DEF SchedulerNext, WorkerStep, PumpStep, CollectDue, CallbackReturns, PumpEnds,
         ApiCall, PostTimer, CancelTimer, CancelTimerById, HostStep, StopResource, StopStep, StopPool,
         schedulerVars, timerVars
    <3>2. k = j /\ k \in due
      BY <1>1, <2>2, <3>1 DEF Fire, TimersInv, TimersTyped
    <3> QED BY <1>1, <3>2 DEF TimersInv, ScheduledLives, Lives
  <2> QED BY <2>1, <2>2
<1> QED BY <1>1, TasksInvariant, TimersInvariant, PTL DEF SchedulerSpec, EndedGenerationIsSilent
=============================================================================
