------------------------------- MODULE PlanAccess -------------------------------
(***************************************************************************)
(* The PLAN_PURCHASE entitlements of one user and plan (lib/entitlements.ts*)
(* and the helpers of lib/subscriptions.ts): each helper reads the rows    *)
(* that are not revoked and then writes them one by one, without a lock.   *)
(***************************************************************************)
EXTENDS PlatformOrders

VARIABLE ents     \* Entitlement rows: expiresAt and whether revokedAt is set

Granted == {e \in DOMAIN ents : ~ents[e].revoked}

\* A sweep goes on with its next row, an administrator's call is over.
AfterAccess(c) ==
    IF call[c].by = "sweep" THEN "sweep"
    ELSE IF call[c].by = "admin" \/ Replaying(c) THEN "done" ELSE "settle"

\* grantEntitlement looks for a row, of which grantPlanEntitlement may push the expiry.
LookForGrant(c) ==
    /\ At(c, "grant")
    /\ \/ Granted = {} /\ Continue(c, "insert")
       \/ \E e \in Granted :
            call' = [call EXCEPT ![c].ents = {e},
                ![c].pc = IF ents[e].expires < call[c].end THEN "push" ELSE AfterAccess(c)]
    /\ Carried /\ UNCHANGED <<orderVars, ents>>

InsertGrant(c) ==
    /\ At(c, "insert") /\ Continue(c, AfterAccess(c))
    /\ ents' = Append(ents, [expires |-> call[c].end, revoked |-> FALSE])
    /\ Carried /\ UNCHANGED orderVars

\* The update is unconditional: the expiry may have been pushed further since.
PushExpiry(c) ==
    /\ At(c, "push") /\ Continue(c, AfterAccess(c))
    /\ \E e \in call[c].ents : ents' = [ents EXCEPT ![e].expires = call[c].end]
    /\ Carried /\ UNCHANGED orderVars

\* extendPlanEntitlementExpiry and revokePlanEntitlements: the rows found, in turn.
LookFor(c, now, then, found) ==
    /\ At(c, now)
    /\ call' = [call EXCEPT ![c].ents = found,
                            ![c].pc = IF found = {} THEN AfterAccess(c) ELSE then]
    /\ Carried /\ UNCHANGED <<orderVars, ents>>

NextRow(c, e) ==
    /\ e = Min(call[c].ents)
    /\ call' = [call EXCEPT ![c].ents = @ \ {e},
                            ![c].pc = IF call[c].ents = {e} THEN AfterAccess(c) ELSE @]

LookToExtend(c) ==
    LookFor(c, "extend", "extending", {e \in Granted : ents[e].expires < call[c].end})
ExtendRow(c) ==
    /\ At(c, "extending")
    /\ \E e \in call[c].ents :
        NextRow(c, e) /\ ents' = [ents EXCEPT ![e].expires = call[c].end]
    /\ Carried /\ UNCHANGED orderVars

LookToRevoke(c) == LookFor(c, "revoke", "revoking", Granted)
RevokeRow(c) ==
    /\ At(c, "revoking")
    /\ \E e \in call[c].ents :
        NextRow(c, e) /\ ents' = [ents EXCEPT ![e].revoked = TRUE]
    /\ Carried /\ UNCHANGED orderVars

AccessStep(c) ==
    \/ LookForGrant(c) \/ InsertGrant(c) \/ PushExpiry(c)
    \/ LookToExtend(c) \/ ExtendRow(c) \/ LookToRevoke(c) \/ RevokeRow(c)
=============================================================================
