------------------------------- MODULE Publication -------------------------------
(***************************************************************************)
(* One resource on its way to the catalogue: the seller's uploads and      *)
(* rollbacks (routes/versions.ts) and edits (routes/resources.ts), and the *)
(* moderators' decisions (routes/admin.ts, lib/moderation.ts), while buyers *)
(* check out its newest version (lib/commerce.ts).  Statuses are read,     *)
(* checked, and written later without a condition; only the transaction    *)
(* that publishes holds the resource's row while it reads.                 *)
(***************************************************************************)
EXTENDS Integers, Sequences, FiniteSets

CONSTANTS
    Calls,        \* handlers in flight at once
    Workloads,    \* the initial resource, the operations that occur, the bounds on
                  \* operations and faults, and the queries that find more than they take
    Versions      \* the version strings in use

ResourceStatus == {"DRAFT", "PENDING_REVIEW", "PUBLISHED", "SUSPENDED"}
VersionRow == [state : {"none", "CANDIDATE", "VERIFIED", "PUBLISHED", "YANKED"},
               signed : BOOLEAN, failed : BOOLEAN]

\* What the catalogue starts with was uploaded, and so validated and signed, before.
ASSUME PublicationAssumption ==
    \A w \in Workloads :
        /\ w.status \in ResourceStatus /\ w.left \in Nat /\ w.losses \in Nat
        /\ w.versions \in [Versions -> VersionRow]
        /\ \A v \in Versions : w.versions[v].state # "none" =>
               w.versions[v].signed /\ ~w.versions[v].failed

VARIABLES
    load,         \* the workload of this behaviour
    call,         \* the local state of each handler in flight
    faults,       \* calls and inserts that may still be lost
    left,         \* operations left that somebody may start
    status,       \* Resource.status
    versions,     \* ResourceVersion rows, their signature and a failed validation
    recent,       \* versions whose publishedAt, the creation time, is less than 24 h ago
    outbox,       \* versions whose RESOURCE_VERSION_PUBLISHED waits for the worker
    emitted,      \* history: how often that event was emitted for each version
    order,        \* the versions as they were created, oldest first (publishedAt)
    bought        \* versions a Purchase row refers to: they cannot be deleted

callVars == <<load, call, faults, left>>
eventVars == <<outbox, emitted>>
rowVars == <<status, versions, recent, eventVars, order, bought>>

Absent == [state |-> "none", signed |-> FALSE, failed |-> FALSE]
Row(s) == [Absent EXCEPT !.state = s]
Existing == {v \in Versions : versions[v].state # "none"}

\* Mutant: a seller may withdraw at any time.
WithdrawAlways == [s \in ResourceStatus |-> IF s = "DRAFT" THEN {"PENDING_REVIEW"} ELSE {"DRAFT"}]

SELLER_TRANSITIONS ==
    [s \in ResourceStatus |-> CASE s = "DRAFT" -> {"PENDING_REVIEW"}
                                [] s = "PENDING_REVIEW" -> {"DRAFT"}
                                [] OTHER -> {}]
ADMIN_TRANSITIONS ==
    [s \in ResourceStatus |->
        CASE s = "PENDING_REVIEW" -> {"PUBLISHED", "DRAFT", "SUSPENDED"}
          [] s = "PUBLISHED" -> {"SUSPENDED"}
          [] s = "SUSPENDED" -> {"PENDING_REVIEW", "DRAFT"}
          [] OTHER -> {}]

Idle == [pc |-> "idle", by |-> "none", on |-> "none", seen |-> "none", to |-> "none",
         todo |-> {}, who |-> {}]
At(c, p) == call[c].pc = p
Begin(c, new) == At(c, "idle") /\ call' = [call EXCEPT ![c] = new]
Continue(c, p) == call' = [call EXCEPT ![c].pc = p]
Return(c) == call' = [call EXCEPT ![c] = Idle]
Occurs(op) == op \in load.ops /\ left > 0 /\ left' = left - 1 /\ UNCHANGED <<load, faults>>
Carried == UNCHANGED <<load, faults, left>>
Fault == faults > 0 /\ faults' = faults - 1 /\ UNCHANGED <<load, left>>
Newer(w, v) == \E i, j \in 1 .. Len(order) : i < j /\ order[i] = v /\ order[j] = w
Created(v) == order' = Append(SelectSeq(order, LAMBDA w : w # v), v)
Handled(v) == \E c \in Calls : call[c].by = "seller" /\ call[c].on = v
-----------------------------------------------------------------------------
(* The seller: POST /:slug/versions, /:slug/rollback, PATCH /:slug *)

Upload(c, v) ==
    /\ Occurs("upload") /\ v \notin Existing /\ ~Handled(v)
    /\ Begin(c, [Idle EXCEPT !.pc = "row", !.by = "seller", !.on = v, !.seen = status])
    /\ UNCHANGED rowVars

CreateRow(c) ==
    /\ At(c, "row") /\ Continue(c, "validate")
    /\ versions' = [versions EXCEPT ![call[c].on] = Row("CANDIDATE")]
    /\ recent' = recent \union {call[c].on} /\ Created(call[c].on)
    /\ Carried /\ UNCHANGED <<status, eventVars, bought>>

\* validateArtifact: passed, failed, or thrown out of.
Validate(c) ==
    /\ At(c, "validate")
    /\ \/ Continue(c, "sign") /\ UNCHANGED versions
       \/ /\ Continue(c, "cleanup")
          /\ \E verdict \in BOOLEAN :
                versions' = [versions EXCEPT ![call[c].on].failed = verdict]
    /\ Carried /\ UNCHANGED <<status, recent, eventVars, order, bought>>

\* signVersionArtifact, which may throw; a rollback has nothing more to do then.
Sign(c) ==
    /\ At(c, "sign")
    /\ \/ /\ IF call[c].to = "rollback" THEN Return(c) ELSE Continue(c, "reenter")
          /\ versions' = [versions EXCEPT ![call[c].on].signed = TRUE]
       \/ Continue(c, "cleanup") /\ UNCHANGED versions
    /\ Carried /\ UNCHANGED <<status, recent, eventVars, order, bought>>

\* Mutant: the half-created row stays.
LeaveRow(c) ==
    /\ At(c, "cleanup") /\ Return(c)
    /\ Carried /\ UNCHANGED rowVars

\* cleanupHalfCreated, whatever has become of the row since.  A delete that fails, as
\* it does once a purchase refers to the row, is swallowed.
Cleanup(c) ==
    /\ At(c, "cleanup") /\ Return(c)
    /\ \/ /\ call[c].on \notin bought
          /\ versions' = [versions EXCEPT ![call[c].on] = Absent] /\ Carried
       \/ call[c].on \in bought /\ UNCHANGED versions /\ Carried
       \/ Fault /\ UNCHANGED versions
    /\ UNCHANGED <<status, recent, eventVars, order, bought>>

\* The publishing transaction holds the resource's row; other writes of it wait.
RowIsFree == ~\E d \in Calls : At(d, "commit")

\* A new version of a resource that was PUBLISHED when the upload began goes back into
\* review.  If that write, or the moderation event after it, throws, the version is
\* removed again, signed as it is.
Reenter(c) ==
    /\ At(c, "reenter")
    /\ \/ call[c].seen # "PUBLISHED" /\ Return(c) /\ Carried /\ UNCHANGED status
       \/ /\ call[c].seen = "PUBLISHED" /\ RowIsFree /\ status' = "PENDING_REVIEW"
          /\ \/ Return(c) /\ Carried
             \/ Continue(c, "cleanup") /\ Fault
       \/ call[c].seen = "PUBLISHED" /\ Continue(c, "cleanup") /\ Fault /\ UNCHANGED status
    /\ UNCHANGED <<versions, recent, eventVars, order, bought>>

\* A rollback publishes a copy of a version that is published, and signs it then.
Rollback(c, v) ==
    /\ Occurs("rollback") /\ v \notin Existing /\ ~Handled(v)
    /\ status = "PUBLISHED" /\ \E t \in Existing : versions[t].state = "PUBLISHED"
    /\ Begin(c, [Idle EXCEPT !.pc = "copy", !.by = "seller", !.on = v, !.to = "rollback"])
    /\ UNCHANGED rowVars

CopyRow(c) ==
    /\ At(c, "copy") /\ Continue(c, "sign")
    /\ versions' = [versions EXCEPT ![call[c].on] = Row("PUBLISHED")]
    /\ recent' = recent \union {call[c].on} /\ Created(call[c].on)
    /\ Carried /\ UNCHANGED <<status, eventVars, bought>>

Patch(c, to) ==
    /\ Occurs("patch") /\ to \in SELLER_TRANSITIONS[status]
    /\ Begin(c, [Idle EXCEPT !.pc = "patch", !.by = "seller", !.seen = status, !.to = to])
    /\ UNCHANGED rowVars

ApplyPatch(c) ==
    /\ At(c, "patch") /\ RowIsFree /\ Return(c)
    /\ status' = call[c].to
    /\ Carried /\ UNCHANGED <<versions, recent, eventVars, order, bought>>
-----------------------------------------------------------------------------
(* Buyers: POST /purchases *)

\* The newest version is taken, released or not; its row must still be there when the
\* purchase is inserted.
Newest(v) == v \in Existing /\ ~\E w \in Existing : Newer(w, v)

Checkout(c, v) ==
    /\ Occurs("buy") /\ status = "PUBLISHED" /\ Newest(v)
    /\ Begin(c, [Idle EXCEPT !.pc = "buy", !.by = "buyer", !.on = v])
    /\ UNCHANGED rowVars

CreatePurchase(c) ==
    /\ At(c, "buy") /\ Return(c)
    /\ bought' = bought \union ({call[c].on} \intersect Existing)
    /\ Carried /\ UNCHANGED <<status, versions, recent, eventVars, order>>
-----------------------------------------------------------------------------
(* Moderators: PATCH /admin/resources/:id/status, /versions/:id/verify, /yank *)

Moderate(c, to) ==
    /\ Occurs("moderate") /\ to \in ADMIN_TRANSITIONS[status]
    /\ Begin(c, [Idle EXCEPT !.pc = IF to = "PUBLISHED" THEN "list" ELSE "begin",
                             !.by = "admin", !.to = to])
    /\ UNCHANGED rowVars

\* The publication gate reads the versions and then looks at each.
ListVersions(c) ==
    /\ At(c, "list")
    /\ call' = [call EXCEPT ![c].pc = "gate", ![c].todo = Existing]
    /\ Carried /\ UNCHANGED rowVars

Gate(c) ==
    /\ At(c, "gate")
    /\ \/ call[c].todo = {} /\ Continue(c, "begin")
       \/ \E v \in call[c].todo :
            IF versions[v].signed /\ ~versions[v].failed
            THEN call' = [call EXCEPT ![c].todo = @ \ {v}] ELSE Return(c)
    /\ Carried /\ UNCHANGED rowVars

Releasable == {"CANDIDATE", "VERIFIED"}

\* The transaction: the resource's row is written and held, the versions are read
\* anew, ...
BeginTransition(c) ==
    /\ At(c, "begin") /\ RowIsFree
    /\ call' = [call EXCEPT ![c].pc = "commit", ![c].todo =
          IF call[c].to = "PUBLISHED"
          THEN {v \in Versions : versions[v].state \in Releasable} ELSE {}]
    /\ Carried /\ UNCHANGED rowVars

\* ... released, each with its event in the outbox, and all is committed.
CommitTransition(c) ==
    LET new == call[c].todo IN
    /\ At(c, "commit")
    /\ status' = call[c].to
    /\ versions' = [v \in Versions |-> IF v \in new \intersect Existing
                                       THEN [versions[v] EXCEPT !.state = "PUBLISHED"]
                                       ELSE versions[v]]
    /\ outbox' = outbox \union new
    /\ emitted' = [v \in Versions |-> IF v \in new THEN emitted[v] + 1 ELSE emitted[v]]
    /\ IF new = {} THEN Return(c) ELSE Continue(c, "next")
    /\ Carried /\ UNCHANGED <<recent, order, bought>>

Verify(c, v) ==
    /\ Occurs("verify") /\ versions[v].state = "CANDIDATE"
    /\ Begin(c, [Idle EXCEPT !.pc = "verify", !.by = "admin", !.on = v])
    /\ UNCHANGED rowVars

ApplyVerify(c) ==
    /\ At(c, "verify") /\ Return(c)
    /\ versions' = IF call[c].on \in Existing
                   THEN [versions EXCEPT ![call[c].on].state = "VERIFIED"] ELSE versions
    /\ Carried /\ UNCHANGED <<status, recent, eventVars, order, bought>>

Yank(v) ==
    /\ Occurs("yank") /\ v \in Existing
    /\ versions' = [versions EXCEPT ![v].state = "YANKED"]
    /\ UNCHANGED <<call, status, recent, eventVars, order, bought>>
-----------------------------------------------------------------------------
Age(v) ==
    /\ "age" \in load.ops /\ v \in recent
    /\ recent' = recent \ {v}
    /\ UNCHANGED <<callVars, status, versions, eventVars, order, bought>>

Lose(c) ==
    /\ ~At(c, "idle") /\ ~At(c, "commit")
    /\ Fault /\ Return(c)
    /\ UNCHANGED rowVars

PublicationStep(c) ==
    \/ CreateRow(c) \/ Validate(c) \/ Sign(c) \/ Cleanup(c) \/ Reenter(c) \/ CopyRow(c)
    \/ ApplyPatch(c) \/ ListVersions(c) \/ Gate(c) \/ BeginTransition(c)
    \/ CommitTransition(c) \/ ApplyVerify(c) \/ CreatePurchase(c)

PublicationNext ==
    \/ \E c \in Calls :
        \/ PublicationStep(c) \/ Lose(c)
        \/ \E v \in Versions : Upload(c, v) \/ Rollback(c, v) \/ Verify(c, v) \/ Checkout(c, v)
        \/ \E to \in ResourceStatus : Patch(c, to) \/ Moderate(c, to)
    \/ \E v \in Versions : Yank(v) \/ Age(v)

\* The first version was uploaded before.
PublicationInit ==
    /\ load \in Workloads
    /\ call = [c \in Calls |-> Idle]
    /\ faults = load.losses /\ left = load.left
    /\ status = load.status /\ versions = load.versions /\ recent = Existing
    /\ outbox = {} /\ emitted = [v \in Versions |-> 0]
    /\ order \in [1 .. Cardinality(Existing) -> Existing]
    /\ Existing = {order[i] : i \in DOMAIN order} /\ bought = {}
=============================================================================
