------------------------------ MODULE LicenseClient ------------------------------
(***************************************************************************)
(* The module's side of DRM protocol v2 (drm/license_client.cpp,           *)
(* drm/http_client.cpp), one machine against the server.  Its key is kept  *)
(* on disk; its installation id and the lease are not.  A transport        *)
(* failure is retried with the same body; a verdict of the server is       *)
(* final.                                                                  *)
(* The client decodes the canonical text of a lease as base64 before it    *)
(* checks the signature (license_client.cpp:297).  The text begins with a  *)
(* brace, so decoding yields nothing and every lease is rejected: the      *)
(* client's heartbeat and key requests, which need a stored lease, never   *)
(* reach the network and are left out.                                     *)
(***************************************************************************)
EXTENDS DrmServer

CONSTANTS
    Own,          \* the module's installation key
    MaxAttempts   \* HttpClient::Options::max_attempts

ASSUME OwnIsAKey == Own \in Keys

VARIABLE module   \* LicenseClient and the HttpClient it is waiting for

vars == <<serverVars, module>>

Fresh == [step |-> "register", asks |-> "none", nonce |-> "none",
          tries |-> 0, waits |-> "none"]
Asking == module.asks # "none"
Trusted == {k \in KeyIds : serverKeys[k] \in {"ACTIVE", "PREVIOUS"}}

\* The host calls the next step of the protocol; an activation has a nonce of its own.
CallStep ==
    /\ ~Asking /\ module.step # "done"
    /\ \E n \in IF module.step = "activate"
                THEN {m \in Nonces : ~Spent(m) /\ \A d \in Calls : call[d].nonce # m}
                ELSE {"none"} :
        module' = [module EXCEPT !.asks = module.step, !.nonce = n]
    /\ UNCHANGED serverVars

Send(c) ==
    /\ Asking /\ module.waits = "none"
    /\ Request(c, module.asks, Own, module.nonce, TRUE)
    /\ module' = [module EXCEPT !.waits = c, !.tries = @ + 1]
    /\ Carried

Over(m) == [m EXCEPT !.asks = "none", !.nonce = "none", !.tries = 0, !.waits = "none"]

\* The next attempt, or the error is returned.
Retry == module' = IF module.tries < MaxAttempts
                   THEN [module EXCEPT !.waits = "none"] ELSE Over(module)

\* A time-out, or an answer that is lost: the request may still be running.
TimeOut(c) ==
    /\ module.waits = c /\ faults > 0 /\ faults' = faults - 1
    /\ call' = [call EXCEPT ![c] = IF Working(c) THEN [@ EXCEPT !.heard = FALSE] ELSE Idle]
    /\ Retry /\ UNCHANGED <<load, left, drmVars>>

\* The connection broke, or the answer is an error status, which is final.
Broken(c) ==
    /\ module.waits = c /\ At(c, "broken")
    /\ call' = [call EXCEPT ![c] = Idle]
    /\ Retry \/ module' = Over(module)
    /\ Carried /\ UNCHANGED drmVars

\* What a success leaves.  A lease is rejected and not stored, whatever keys are trusted.
Learn(m) == CASE m.asks = "register" -> [m EXCEPT !.step = "verify"]
              [] m.asks = "verify" -> [m EXCEPT !.step = "activate"]
              [] OTHER -> [m EXCEPT !.step = "done"]

\* A refusal leaves the host to call the step again, or to go on to the activation.
Receive(c) ==
    /\ module.waits = c /\ call[c].pc \in {"ok", "refused"}
    /\ \/ At(c, "ok") /\ module' = Over(Learn(module))
       \/ At(c, "refused") /\ module' = Over(module)
       \/ /\ At(c, "refused") /\ module.asks # "register"
          /\ module' = Over([module EXCEPT !.step = "activate"])
    /\ call' = [call EXCEPT ![c] = Idle]
    /\ Carried /\ UNCHANGED drmVars

\* The game server restarts; the key is loaded again from the key store.
Restart ==
    /\ faults > 0 /\ faults' = faults - 1
    /\ module' = Fresh
    /\ call' = [c \in Calls |-> IF module.waits # c THEN call[c]
                                ELSE IF Working(c) THEN [call[c] EXCEPT !.heard = FALSE]
                                     ELSE Idle]
    /\ UNCHANGED <<load, left, drmVars>>

ClientStep == CallStep \/ \E c \in Calls : Send(c) \/ Broken(c) \/ Receive(c)

Next ==
    \/ ServerNext /\ UNCHANGED module
    \/ ClientStep \/ Restart \/ \E c \in Calls : TimeOut(c)

Init == ServerInit /\ module = Fresh

Spec == Init /\ [][Next]_vars
-----------------------------------------------------------------------------
(* Properties *)

\* Neither a lease nor a key is given out to a request made after the license was
\* revoked, the version yanked (leases only) or the installation revoked, unless a
\* verification of it was under way (ADR-001; service.ts:240-247, 564-573).
RevocationBites == \A answer \in leases \union released : ~answer.barred

\* A nonce buys one lease, however often the request is sent (service.ts:213-218).
NonceIsSpentOnce == \A l1, l2 \in leases : l1.nonce = l2.nonce => l1 = l2

\* A lease can be checked with a key that modules are told to trust, unless it was given
\* out between a rotation and the restart with the new key, or the rotation was cut
\* short (service.ts:459-466).
LeasesVerify ==
    \A l \in leases :
        /\ l.key \in Trusted
        /\ l.signedBy = l.key \/ l.rotating \/ faults < load.losses
=============================================================================
