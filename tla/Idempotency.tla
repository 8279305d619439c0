------------------------------ MODULE Idempotency ------------------------------
(***************************************************************************)
(* lib/idempotency.ts: the wrapper that runs a handler once per            *)
(* Idempotency-Key and replays its stored reply.  One action per await;    *)
(* what the handler itself does is left to the module that extends this    *)
(* one, while a request stands at "run".                                   *)
(***************************************************************************)
EXTENDS Naturals, FiniteSets

CONSTANTS
    Requests,     \* HTTP requests, retries included
    Keys,         \* [operation, Idempotency-Key] pairs
    NoKey,        \* the header is absent
    Replies,      \* what a handler may answer
    MaxLapses     \* bound on records that outlive their 24 hours

\* What the wrapper itself tells a client; a handler's answers are none of these.
OwnReplies == {"none", "conflict", "in_progress", "server_error"}

ASSUME IdempotencyAssumption ==
    /\ NoKey \notin Keys
    /\ MaxLapses \in Nat
    /\ Replies \intersect OwnReplies = {}

VARIABLES
    input,        \* the key, the user and the body of a request
    record,       \* the IdempotencyRecord row of a key
    phase,        \* where each request stands in the wrapper
    stale,        \* the expired record a request is about to delete
    answer,       \* what the client of a request was told
    lapsed        \* requests whose record has passed its expiresAt

KeyOf(r) == input[r].key
PayloadOf(r) == input[r].body       \* of which the record keeps the hash
idempotencyVars == <<input, record, phase, stale, answer, lapsed>>

NoRecord == [by |-> "nobody", status |-> "NONE", body |-> "none"]

To(r, p) == phase' = [phase EXCEPT ![r] = p]
Tell(r, a) == answer' = [answer EXCEPT ![r] = a]
RecordOf(r) == record[KeyOf(r)]
Write(r, rec) == record' = [record EXCEPT ![KeyOf(r)] = rec]
Holds(r) == KeyOf(r) # NoKey /\ RecordOf(r).by = r
-----------------------------------------------------------------------------
\* Without the header the handler runs as it is.
Unwrapped(r) ==
    /\ phase[r] = "idle" /\ KeyOf(r) = NoKey
    /\ To(r, "run")
    /\ UNCHANGED <<input, record, stale, answer, lapsed>>

\* The record is read: an expired one is to be deleted, another payload or a
\* request in progress is refused, a stored reply is replayed, to any user.
Fresh(r) == RecordOf(r) # NoRecord /\ RecordOf(r).by \notin lapsed
SamePayload(r) == PayloadOf(RecordOf(r).by) = PayloadOf(r)

Lookup(r) ==
    /\ phase[r] = "idle" /\ KeyOf(r) # NoKey
    /\ \/ /\ RecordOf(r) = NoRecord
          /\ To(r, "insert") /\ UNCHANGED <<stale, answer>>
       \/ /\ RecordOf(r) # NoRecord /\ ~Fresh(r)
          /\ To(r, "drop") /\ stale' = [stale EXCEPT ![r] = RecordOf(r).by]
          /\ UNCHANGED answer
       \/ /\ Fresh(r) /\ ~SamePayload(r)
          /\ Tell(r, "conflict") /\ To(r, "answered") /\ UNCHANGED stale
       \/ /\ Fresh(r) /\ SamePayload(r) /\ RecordOf(r).status = "COMPLETED"
          /\ Tell(r, RecordOf(r).body) /\ To(r, "answered") /\ UNCHANGED stale
       \/ /\ Fresh(r) /\ SamePayload(r) /\ RecordOf(r).status = "PROCESSING"
          /\ Tell(r, "in_progress") /\ To(r, "answered") /\ UNCHANGED stale
       \/ /\ Fresh(r) /\ SamePayload(r) /\ RecordOf(r).status = "FAILED"
          /\ To(r, "insert") /\ UNCHANGED <<stale, answer>>
    /\ UNCHANGED <<input, record, lapsed>>

\* The expired record is deleted by its id; a failure is swallowed.
Drop(r) ==
    /\ phase[r] = "drop"
    /\ \/ RecordOf(r).by = stale[r] /\ Write(r, NoRecord)
       \/ UNCHANGED record
    /\ To(r, "insert")
    /\ UNCHANGED <<input, stale, answer, lapsed>>

\* The unique [operation, key] pair decides who runs.
Insert(r) ==
    /\ phase[r] = "insert"
    /\ IF RecordOf(r) = NoRecord
       THEN /\ Write(r, [by |-> r, status |-> "PROCESSING", body |-> "none"])
            /\ To(r, "run") /\ UNCHANGED answer
       ELSE Tell(r, "in_progress") /\ To(r, "answered") /\ UNCHANGED record
    /\ UNCHANGED <<input, stale, lapsed>>

\* The handler answers, throws, or ends the response without a body.
Respond(r, reply) ==
    /\ phase[r] = "run"
    /\ Tell(r, reply)
    /\ To(r, IF KeyOf(r) = NoKey THEN "answered" ELSE "store")
    /\ UNCHANGED <<input, record, stale, lapsed>>

Throw(r) ==
    /\ phase[r] = "run" /\ KeyOf(r) # NoKey
    /\ To(r, "fail")
    /\ UNCHANGED <<input, record, stale, answer, lapsed>>

EndWithoutBody(r) ==
    /\ phase[r] = "run" /\ KeyOf(r) # NoKey
    /\ To(r, "erase")
    /\ UNCHANGED <<input, record, stale, answer, lapsed>>

\* Mutant: the outcome is stored under the key, not under the record's own id.
StoreByKey(r) ==
    /\ phase[r] = "store"
    /\ \/ /\ RecordOf(r) # NoRecord
          /\ Write(r, [by |-> RecordOf(r).by, status |-> "COMPLETED", body |-> answer[r]])
       \/ UNCHANGED record
    /\ To(r, "answered")
    /\ UNCHANGED <<input, stale, answer, lapsed>>

\* The reply is stored after it was sent, by id; a failure is logged only.
Store(r) ==
    /\ phase[r] = "store"
    /\ \/ Holds(r) /\ Write(r, [by |-> r, status |-> "COMPLETED", body |-> answer[r]])
       \/ UNCHANGED record
    /\ To(r, "answered")
    /\ UNCHANGED <<input, stale, answer, lapsed>>

Fail(r) ==
    /\ phase[r] = "fail"
    /\ \/ Holds(r) /\ Write(r, [RecordOf(r) EXCEPT !.status = "FAILED"])
       \/ UNCHANGED record
    /\ Tell(r, "server_error")
    /\ To(r, "answered")
    /\ UNCHANGED <<input, stale, lapsed>>

Erase(r) ==
    /\ phase[r] = "erase"
    /\ \/ Holds(r) /\ Write(r, NoRecord)
       \/ UNCHANGED record
    /\ To(r, "erased")
    /\ UNCHANGED <<input, stale, answer, lapsed>>

\* 24 hours after its creation a record no longer counts.
Lapse(r) ==
    /\ Holds(r) /\ r \notin lapsed /\ Cardinality(lapsed) < MaxLapses
    /\ lapsed' = lapsed \union {r}
    /\ UNCHANGED <<input, record, phase, stale, answer>>

\* The process of a request stops.
InFlight(r) == phase[r] \in {"drop", "insert", "run", "store", "fail", "erase"}
Lost(S) ==
    /\ phase' = [r \in Requests |-> IF r \in S /\ InFlight(r) THEN "lost" ELSE phase[r]]
    /\ UNCHANGED <<input, record, stale, answer, lapsed>>

IdempotencyInit ==
    /\ record = [k \in Keys |-> NoRecord]
    /\ phase = [r \in Requests |-> "idle"]
    /\ stale = [r \in Requests |-> r]
    /\ answer = [r \in Requests |-> "none"]
    /\ lapsed = {}

WrapperStep(r) ==
    \/ Unwrapped(r) \/ Lookup(r) \/ Drop(r) \/ Insert(r)
    \/ Store(r) \/ Fail(r) \/ Erase(r)
=============================================================================
