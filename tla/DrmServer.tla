-------------------------------- MODULE DrmServer --------------------------------
(***************************************************************************)
(* The server of DRM protocol v2 (lib/drm/service.ts, routes/drm/v2.ts):   *)
(* installations of one license are registered, verified by their          *)
(* challenge, given leases and the key of the licensed version.  Each      *)
(* await is a step of its own; nothing is locked.  Requests name the       *)
(* license their installation is bound to, the caller owns it and holds    *)
(* the installation's private key, so an installation is named by its      *)
(* public key, which is unique.                                            *)
(***************************************************************************)
EXTENDS Integers, FiniteSets

CONSTANTS
    Calls,        \* requests in flight at once
    Workloads,    \* the initial rows, the operations that occur, and the bounds on
                  \* operations and faults
    Keys,         \* installations
    Nonces,       \* activation nonces
    KeyIds        \* ServerSigningKey rows

\* Installation.status of each key; "none" while there is no row.
InstallationStatus == {"none", "PENDING_VERIFICATION", "ACTIVE", "REVOKED"}

ASSUME WorkloadsAreTyped ==
    \A w \in Workloads :
        w.installation \in [Keys -> InstallationStatus] /\ w.losses \in Nat

VARIABLES
    load,         \* the workload of this behaviour
    call,         \* the local state of each request in flight
    faults,       \* calls and answers that may still be lost
    left,         \* operations left that somebody may start
    license,      \* License.status
    yanked,       \* the licensed version's releaseStatus is YANKED
    installation, \* Installation.status of each key, or "none"
    leases,       \* Lease rows
    serverKeys,   \* ServerSigningKey.status of each key id, or "none"
    env,          \* the key whose private half is DRM_SERVER_PRIVATE_KEY
    released      \* history: the answers that carried the version's DEK

callVars == <<load, call, faults, left>>
keyVars == <<serverKeys, env>>
drmVars == <<license, yanked, installation, leases, keyVars, released>>
serverVars == <<callVars, drmVars>>

Outcomes == {"ok", "refused", "broken"}
Idle == [pc |-> "idle", op |-> "none", on |-> "none", nonce |-> "none", key |-> "none",
         heard |-> FALSE, barred |-> FALSE]
At(c, p) == call[c].pc = p
Working(c) == call[c].pc \notin Outcomes \union {"idle"}
Continue(c, p) == call' = [call EXCEPT ![c].pc = p]

\* The answer reaches a caller who still waits for it.
Ended(c, outcome) == IF call[c].heard THEN [call[c] EXCEPT !.pc = outcome] ELSE Idle
Answer(c, outcome) == call' = [call EXCEPT ![c] = Ended(c, outcome)]
Pass(c, holds, next) == IF holds THEN Continue(c, next) ELSE Answer(c, "refused")
Occurs(op) == op \in load.ops /\ left > 0 /\ left' = left - 1 /\ UNCHANGED <<load, faults>>
Carried == UNCHANGED <<load, faults, left>>

\* What stands against a lease or a key when it is asked for.
Barred(op, i) ==
    \/ license = "REVOKED" \/ (op = "activate" /\ yanked)
    \/ /\ installation[i] = "REVOKED"
       /\ ~\E d \in Calls : call[d].op = "verify" /\ call[d].on = i

FirstStep == [register |-> "license", verify |-> "installation", activate |-> "nonce",
              dek |-> "installation", rotate |-> "current"]

Request(c, op, i, n, heard) ==
    /\ At(c, "idle")
    /\ call' = [call EXCEPT ![c] = [Idle EXCEPT !.pc = FirstStep[op], !.op = op, !.on = i,
                    !.nonce = n, !.heard = heard, !.barred = op # "rotate" /\ Barred(op, i)]]
    /\ UNCHANGED drmVars
-----------------------------------------------------------------------------
(* registerInstallation, verifyInstallation, activateLicense, issueVersionDek *)

\* The license has to be ACTIVE, for each of the three that read it.
CheckLicense(c) ==
    /\ At(c, "license")
    /\ Pass(c, license = "ACTIVE",
            CASE call[c].op = "register" -> "lookup" [] call[c].op = "activate" -> "version"
              [] OTHER -> "release")
    /\ Carried /\ UNCHANGED drmVars

LookUpKey(c) ==
    /\ At(c, "lookup") /\ Pass(c, installation[call[c].on] = "none", "insert")
    /\ Carried /\ UNCHANGED drmVars

\* Installation.publicKey is unique.
InsertInstallation(c) ==
    LET i == call[c].on IN
    /\ At(c, "insert")
    /\ IF installation[i] = "none"
       THEN /\ Answer(c, "ok")
            /\ installation' = [installation EXCEPT ![i] = "PENDING_VERIFICATION"]
       ELSE Answer(c, "refused") /\ UNCHANGED installation
    /\ Carried /\ UNCHANGED <<license, yanked, leases, keyVars, released>>

CheckInstallation(c) ==
    /\ At(c, "installation")
    /\ IF call[c].op = "verify"
       THEN Pass(c, installation[call[c].on] = "PENDING_VERIFICATION", "confirm")
       ELSE Pass(c, installation[call[c].on] = "ACTIVE",
                 IF call[c].op = "activate" THEN "license" ELSE "lease")
    /\ Carried /\ UNCHANGED drmVars

\* The challenge was answered; the row is written by its id alone.
Confirm(c) ==
    /\ At(c, "confirm") /\ Answer(c, "ok")
    /\ installation' = [installation EXCEPT ![call[c].on] = "ACTIVE"]
    /\ Carried /\ UNCHANGED <<license, yanked, leases, keyVars, released>>

Spent(n) == \E l \in leases : l.nonce = n

CheckNonce(c) ==
    /\ At(c, "nonce") /\ Pass(c, ~Spent(call[c].nonce), "installation")
    /\ Carried /\ UNCHANGED drmVars

CheckVersion(c) ==
    /\ At(c, "version") /\ Pass(c, ~yanked, "key")
    /\ Carried /\ UNCHANGED drmVars

FindKey(c) ==
    /\ At(c, "key")
    /\ \/ \E k \in KeyIds : /\ serverKeys[k] = "ACTIVE"
                            /\ call' = [call EXCEPT ![c].pc = "store", ![c].key = k]
       \/ ~(\E k \in KeyIds : serverKeys[k] = "ACTIVE") /\ Answer(c, "refused")
    /\ Carried /\ UNCHANGED drmVars

\* The lease names the key that was found and is signed with the one in the
\* environment.
Signed(c) ==
    [on |-> call[c].on, nonce |-> call[c].nonce, key |-> call[c].key, signedBy |-> env,
     live |-> TRUE, barred |-> call[c].barred,
     rotating |-> \E d \in Calls : call[d].op = "rotate"]

\* Mutant: without the unique index on the nonce.
StoreAnyway(c) ==
    /\ At(c, "store")
    /\ Answer(c, "ok") /\ leases' = leases \union {Signed(c)}
    /\ Carried /\ UNCHANGED <<license, yanked, installation, keyVars, released>>

\* Lease.nonce is unique.
StoreLease(c) ==
    /\ At(c, "store")
    /\ IF Spent(call[c].nonce) THEN Answer(c, "refused") /\ UNCHANGED leases
       ELSE Answer(c, "ok") /\ leases' = leases \union {Signed(c)}
    /\ Carried /\ UNCHANGED <<license, yanked, installation, keyVars, released>>

\* Mutant: a live lease is enough.
LeaseIsEnough(c) ==
    /\ At(c, "lease")
    /\ Pass(c, \E l \in leases : l.on = call[c].on /\ l.live, "release")
    /\ Carried /\ UNCHANGED drmVars

\* getActiveLease: all leases last equally long, so the latest is live if any is.
CheckLease(c) ==
    /\ At(c, "lease")
    /\ Pass(c, \E l \in leases : l.on = call[c].on /\ l.live, "license")
    /\ Carried /\ UNCHANGED drmVars

Release(c) ==
    /\ At(c, "release") /\ Answer(c, "ok")
    /\ released' = released \union {[on |-> call[c].on, barred |-> call[c].barred]}
    /\ Carried /\ UNCHANGED <<license, yanked, installation, leases, keyVars>>
-----------------------------------------------------------------------------
(* rotateServerSigningKey and the operator, the moderators, a refund, the clock *)

FindCurrent(c) ==
    /\ At(c, "current")
    /\ \/ \E k \in KeyIds : /\ serverKeys[k] = "ACTIVE"
                            /\ call' = [call EXCEPT ![c].pc = "demote", ![c].key = k]
       \/ ~(\E k \in KeyIds : serverKeys[k] = "ACTIVE") /\ Continue(c, "mint")
    /\ Carried /\ UNCHANGED drmVars

\* Mutant: the old key is deleted.
Retire(c) ==
    /\ At(c, "demote") /\ Continue(c, "mint")
    /\ serverKeys' = [serverKeys EXCEPT ![call[c].key] = "none"]
    /\ Carried /\ UNCHANGED <<license, yanked, installation, leases, env, released>>

Demote(c) ==
    /\ At(c, "demote") /\ Continue(c, "mint")
    /\ serverKeys' = [serverKeys EXCEPT ![call[c].key] = "PREVIOUS"]
    /\ Carried /\ UNCHANGED <<license, yanked, installation, leases, env, released>>

Mint(c) ==
    /\ At(c, "mint")
    /\ \E k \in KeyIds : /\ serverKeys[k] = "none"
                         /\ serverKeys' = [serverKeys EXCEPT ![k] = "ACTIVE"]
                         /\ call' = [call EXCEPT ![c].pc = "install", ![c].key = k]
    /\ Carried /\ UNCHANGED <<license, yanked, installation, leases, env, released>>

\* The operator installs the private key and restarts the server: what it was working
\* on is lost.
Install(c) ==
    /\ At(c, "install")
    /\ env' = call[c].key
    /\ call' = [d \in Calls |-> IF Working(d) THEN Ended(d, "broken") ELSE call[d]]
    /\ Carried /\ UNCHANGED <<license, yanked, installation, leases, serverKeys, released>>

RevokeInstallation(i) ==
    /\ Occurs("revoke") /\ installation[i] # "none"
    /\ installation' = [installation EXCEPT ![i] = "REVOKED"]
    /\ UNCHANGED <<call, license, yanked, leases, keyVars, released>>

\* The effects of a full refund; nothing makes a license ACTIVE again.
RefundLicense ==
    /\ Occurs("refund") /\ license' = "REVOKED"
    /\ UNCHANGED <<call, yanked, installation, leases, keyVars, released>>

YankVersion ==
    /\ Occurs("yank") /\ yanked' = TRUE
    /\ UNCHANGED <<call, license, installation, leases, keyVars, released>>

Expire(l) ==
    /\ "expire" \in load.ops /\ l.live
    /\ leases' = (leases \ {l}) \union {[l EXCEPT !.live = FALSE]}
    /\ UNCHANGED <<callVars, license, yanked, installation, keyVars, released>>

\* A request dies with its process or its connection to the database.
Lose(c) ==
    /\ Working(c) /\ faults > 0 /\ faults' = faults - 1
    /\ Answer(c, "broken")
    /\ UNCHANGED <<load, left, drmVars>>

ServerStep(c) ==
    \/ CheckLicense(c) \/ LookUpKey(c) \/ InsertInstallation(c) \/ CheckInstallation(c)
    \/ Confirm(c) \/ CheckNonce(c) \/ CheckVersion(c) \/ FindKey(c) \/ StoreLease(c)
    \/ CheckLease(c) \/ Release(c) \/ FindCurrent(c) \/ Demote(c) \/ Mint(c) \/ Install(c)

\* A machine asks for something else than the module under observation; leases and keys
\* are asked for by those who have been registered; operators rotate one at a time.
Others(c) ==
    \/ \E i \in Keys, n \in Nonces :
        /\ Occurs("activate") /\ ~Spent(n) /\ ~\E d \in Calls : call[d].nonce = n
        /\ installation[i] # "none" /\ Request(c, "activate", i, n, FALSE)
    \/ \E i \in Keys : /\ Occurs("dek") /\ installation[i] # "none"
                       /\ Request(c, "dek", i, "none", FALSE)
    \/ /\ Occurs("rotate") /\ ~\E d \in Calls : call[d].op = "rotate"
       /\ Request(c, "rotate", "none", "none", FALSE)

ServerNext ==
    \/ \E c \in Calls : ServerStep(c) \/ Others(c) \/ Lose(c)
    \/ \E i \in Keys : RevokeInstallation(i)
    \/ RefundLicense \/ YankVersion \/ (\E l \in leases : Expire(l))

ServerInit ==
    /\ load \in Workloads
    /\ call = [c \in Calls |-> Idle] /\ faults = load.losses /\ left = load.left
    /\ license = "ACTIVE" /\ yanked = FALSE /\ installation = load.installation
    /\ leases = {} /\ released = {}
    /\ env \in KeyIds /\ serverKeys = [k \in KeyIds |-> IF k = env THEN "ACTIVE" ELSE "none"]
=============================================================================
