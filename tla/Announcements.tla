------------------------------ MODULE Announcements ------------------------------
(***************************************************************************)
(* Who hears of a released version (routes/admin.ts, lib/priceAlerts.ts,   *)
(* lib/notify.ts): the moderator's request tells the buyers and followers, *)
(* the worker tells the watchers when it handles the outbox event, and a   *)
(* sweep tells the watchers of what is recent.  The unique dedupKey of a   *)
(* notification is all that the three paths share.                         *)
(***************************************************************************)
EXTENDS Publication

CONSTANTS
    Buyers,       \* buyers and followers of the resource, followers of its seller
    Watchers      \* users with an active VERSION_RELEASED alert on it

VARIABLE told     \* Notification rows for each recipient and version

vars == <<callVars, rowVars, told>>
Recipients == Buyers \union Watchers
Told(v) == {r \in Recipients : told[r][v] > 0}

\* Notification.dedupKey is unique; a second insert is skipped.
InsertNew(r, v) == IF told[r][v] = 0 THEN [told EXCEPT ![r][v] = 1] ELSE told

\* createNotifications inserts one by one; a failure is logged and passed over.
Tell(c) ==
    /\ At(c, "tell")
    /\ \E r \in call[c].who :
        /\ call' = [call EXCEPT ![c].who = @ \ {r},
                                ![c].pc = IF call[c].who = {r} THEN "next" ELSE @]
        /\ \/ told' = InsertNew(r, call[c].on) /\ Carried
           \/ Fault /\ UNCHANGED told
    /\ UNCHANGED rowVars

\* What a query with a limit and no order returns of the users it should: it counts
\* rows of other resources, or of users that are filtered out after it, too.
Taken(query, users) == IF query \in load.crowded THEN SUBSET users ELSE {users}

\* The sets of users a handler may tell.  Those an earlier delivery has reached are left
\* out for watchers; nothing keeps them from being reached before the insert.
Whom(c, v) ==
    CASE call[c].by = "admin" -> Taken("buyers", Buyers)
      [] call[c].by = "worker" -> {users \ Told(v) : users \in Taken("release", Watchers)}
      [] OTHER -> {users \ Told(v) : users \in Taken("alerts", Watchers)}

TellNext(c) ==
    /\ At(c, "next") /\ call[c].todo # {}
    /\ \E v \in call[c].todo : \E users \in Whom(c, v) :
        call' = [call EXCEPT ![c].todo = @ \ {v}, ![c].on = v, ![c].who = users,
                             ![c].pc = IF users = {} THEN "next" ELSE "tell"]
    /\ Carried /\ UNCHANGED <<rowVars, told>>

\* The worker completes the event, the others are done.
Finish(c) ==
    /\ At(c, "next") /\ call[c].todo = {} /\ Return(c)
    /\ outbox' = IF call[c].by = "worker" THEN outbox \ {call[c].on} ELSE outbox
    /\ Carried /\ UNCHANGED <<status, versions, recent, emitted, order, bought, told>>

\* notifyVersionReleases: nobody is told while the resource is not PUBLISHED.
Dispatch(c, v) ==
    /\ v \in outbox /\ ~\E d \in Calls : call[d].by = "worker" /\ call[d].on = v
    /\ Begin(c, [Idle EXCEPT !.pc = "next", !.by = "worker", !.on = v,
                             !.todo = IF status = "PUBLISHED" THEN {v} ELSE {}])
    /\ Carried /\ UNCHANGED <<rowVars, told>>

\* Mutant: the sweep leaves out what the worker has to announce.
SweptUnlessQueued ==
    {v \in recent \ outbox : versions[v].state = "PUBLISHED" /\ emitted[v] = 0}

\* sweepRecentVersionReleases
Swept == {v \in recent : versions[v].state = "PUBLISHED"}

\* The sweep takes the newest versions of all resources.
Reached == {new \in SUBSET Swept : /\ "versions" \notin load.crowded => new = Swept
                                  /\ \A v \in new, w \in Swept : Newer(w, v) => w \in new}

\* A sweep that finds everybody told changes nothing and is left out.
Sweep(c) ==
    /\ status = "PUBLISHED" /\ \E v \in Swept : Watchers \ Told(v) # {}
    /\ ~\E d \in Calls : call[d].by = "sweep"
    /\ \E new \in Reached : Begin(c, [Idle EXCEPT !.pc = "next", !.by = "sweep", !.todo = new])
    /\ Carried /\ UNCHANGED <<rowVars, told>>

CallStep(c) ==
    \/ PublicationStep(c) /\ UNCHANGED told
    \/ Tell(c) \/ TellNext(c) \/ Finish(c)

Next ==
    \/ PublicationNext /\ UNCHANGED told
    \/ \E c \in Calls : Tell(c) \/ TellNext(c) \/ Finish(c) \/ Sweep(c)
                        \/ \E v \in Versions : Dispatch(c, v)

Init == PublicationInit /\ told = [r \in Recipients |-> [v \in Versions |-> 0]]

\* Handlers that run are carried on; the worker polls the outbox and sweeps for ever.
Spec == Init /\ [][Next]_vars
FairSpec ==
    /\ Spec /\ \A c \in Calls : SF_vars(CallStep(c))
    /\ \A v \in Versions : SF_vars(\E c \in Calls : Dispatch(c, v))
    /\ SF_vars(\E c \in Calls : Sweep(c))
-----------------------------------------------------------------------------
(* Properties *)

\* A version that was not validated or not signed does not linger once its request has
\* ended, unless it was bought meanwhile, a call was lost or a statement failed
\* (versions.ts:162-167, 221-224, 363-366).
UnsignedIsTransient ==
    \A v \in Existing : \/ versions[v].signed /\ ~versions[v].failed
                        \/ Handled(v) \/ v \in bought \/ faults < load.losses

\* In the end the watchers have heard of every published version that is still recent,
\* whatever was lost, unless the sweep finds more versions or alerts than it takes, and
\* the buyers of every one that was released, unless a call or an insert was lost or
\* there are more of them than a release tells.
EveryoneIsTold ==
    <>[](\A v \in Versions :
            /\ versions[v].state = "PUBLISHED" /\ status = "PUBLISHED" /\ v \in recent
                    => Watchers \subseteq Told(v) \/ {"alerts", "versions"} \cap load.crowded # {}
            /\ emitted[v] > 0 /\ faults = load.losses
                    => Buyers \subseteq Told(v) \/ "buyers" \in load.crowded)

\* A seller takes a resource out of suspension only with a request that was checked
\* before a moderator suspended it (resources.ts:845-895, moderation.ts:25-29).
SuspensionHolds ==
    [][status = "SUSPENDED" /\ status' # "SUSPENDED" =>
          \E c \in Calls : /\ call'[c] # call[c]
                          /\ (call[c].by = "admin" \/ call[c].seen # "SUSPENDED")]_status
=============================================================================
