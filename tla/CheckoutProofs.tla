----------------------------- MODULE CheckoutProofs -----------------------------
(***************************************************************************)
(* Proofs about the Idempotency-Key wrapper and the checkout, for every    *)
(* set of requests, keys and processes: whoever is answered under a key is *)
(* told the same, and the discount campaign is counted exactly.            *)
(***************************************************************************)
EXTENDS Checkout, FiniteSetTheorems, TLAPS

-----------------------------------------------------------------------------
(* The wrapper: what a request may do to the records *)

\* One step of the wrapper, of a handler behind it, of time, or of a crash.
WrapperNext ==
    \/ \E r \in Requests :
         \/ WrapperStep(r) \/ Throw(r) \/ EndWithoutBody(r) \/ Lapse(r)
         \/ \E reply : Respond(r, reply)
    \/ \E S \in SUBSET Requests : Lost(S)

\* Completing a purchase answers its free checkout, or leaves the wrapper alone.
LEMMA OutcomeIsWrapped ==
    ASSUME NEW p \in Requests, NEW reply, Outcome(p, reply)
    PROVE  WrapperNext \/ UNCHANGED idempotencyVars
BY Zenon DEF Outcome, Reply, WrapperNext

\* Every step of a handler is one step of the wrapper around it, or none.
LEMMA HandlerIsWrapped ==
    ASSUME NEW r \in Requests, HandlerStep(r)
    PROVE  WrapperNext \/ UNCHANGED idempotencyVars
<1>1. CASE Enter(r)
  BY <1>1, Zenon DEF Enter, WrapperNext
<1>2. CASE Look(r)
  <2>1. (\E i \in 1 .. Len(RowsLike(r)) : \E reply : Respond(r, reply)) \/ UNCHANGED idempotencyVars
    BY <1>2, Zenon DEF Look, Reply
  <2> QED BY <2>1, Zenon DEF WrapperNext
<1>3. CASE Unavailable(r)
  BY <1>3, Zenon DEF Unavailable, Reply, WrapperNext
<1>4. CASE StartService(r)
  BY <1>4, Zenon DEF StartService, WrapperNext
<1>5. CASE Validate(r)
  BY <1>5, Zenon DEF Validate, Reply, WrapperNext
<1>6. CASE CreatePurchase(r)
  BY <1>6, Zenon DEF CreatePurchase, Reply, WrapperNext
<1>7. CASE LoseCreateRace(r)
  BY <1>7, Zenon DEF LoseCreateRace, Reply, WrapperNext
<1>8. CASE Represent(r)
  BY <1>8, Zenon DEF Represent, Reply, WrapperNext
<1>9. CASE CreateService(r)
  BY <1>9, Zenon DEF CreateService, Reply, WrapperNext
<1>10. CASE OtherHandler(r)
  BY <1>10, Zenon DEF OtherHandler, WrapperNext
<1> QED
  BY <1>1, <1>2, <1>3, <1>4, <1>5, <1>6, <1>7, <1>8, <1>9, <1>10, Zenon
     DEF HandlerStep

\* Every step of a completion is one step of the wrapper, or none.
LEMMA CompletionIsWrapped ==
    ASSUME NEW p \in Requests, CompletionStep(p)
    PROVE  WrapperNext \/ UNCHANGED idempotencyVars
<1>1. CASE CompleteWithoutDiscount(p)
  BY <1>1, OutcomeIsWrapped, Zenon DEF CompleteWithoutDiscount
<1>2. CASE ReadCampaign(p)
  BY <1>2, Zenon DEF ReadCampaign, Reply, WrapperNext
<1>3. CASE ConsumeDiscount(p)
  <2>1. Outcome(p, p) \/ Outcome(p, "rejected")
    BY <1>3, Zenon DEF ConsumeDiscount, Consume, Refuse
  <2> QED BY <2>1, OutcomeIsWrapped, Zenon
<1>4. CASE MarkServicePaid(p)
  BY <1>4, Zenon DEF MarkServicePaid
<1> QED BY <1>1, <1>2, <1>3, <1>4, Zenon DEF CompletionStep

\* Every step of the system is one step of the wrapper, or leaves it alone.
LEMMA StepsAreWrapped ==
    ASSUME [CheckoutNext]_vars
    PROVE  WrapperNext \/ UNCHANGED idempotencyVars
<1>1. CASE UNCHANGED vars
  BY <1>1, Zenon DEF vars
<1>2. ASSUME NEW r \in Requests, RequestStep(r)
      PROVE  WrapperNext \/ UNCHANGED idempotencyVars
  BY <1>2, HandlerIsWrapped, Zenon DEF RequestStep, WrapperNext
<1>3. ASSUME NEW r \in Requests,
             Pay(r) \/ Close(r) \/ Refund(r) \/ Freeze(r) \/ Thaw(r) \/ Lapse(r) \/ Toggle
      PROVE  WrapperNext \/ UNCHANGED idempotencyVars
  BY <1>3, Zenon DEF Pay, Close, Refund, Freeze, Thaw, Toggle, WrapperNext
<1>4. ASSUME Toggle
      PROVE  UNCHANGED idempotencyVars
  BY <1>4, Zenon DEF Toggle
<1>5. ASSUME NEW i \in Instances, Crash(i)
      PROVE  WrapperNext
  <2>1. Lost({r \in Requests : input[r].at = i})
    BY <1>5, Zenon DEF Crash
  <2> QED BY <2>1, Zenon DEF WrapperNext
<1> QED BY <1>1, <1>2, <1>3, <1>4, <1>5, CompletionIsWrapped, Zenon DEF CheckoutNext

-----------------------------------------------------------------------------
(* Retries agree *)

Phase == {"idle", "drop", "insert", "run", "store", "fail", "erase",
          "answered", "erased", "lost"}
Keyed(r) == phase[r] \in {"drop", "insert", "store", "fail", "erase"}
Running(r) == phase[r] \in {"run", "store", "fail", "erase"}
Written(k) == record[k].status # "NONE"
\* No record of the key has outlived its 24 hours.
Lasting(k) == \A t \in lapsed : KeyOf(t) # k

WrapperTypeOK ==
    /\ \A r \in Requests : KeyOf(r) \in Keys \union {NoKey}
    /\ DOMAIN record = Keys /\ record = [k \in Keys |-> record[k]]
    /\ \A k \in Keys :
         \/ record[k] = NoRecord
         \/ /\ record[k] = [by |-> record[k].by, status |-> record[k].status,
                            body |-> record[k].body]
            /\ record[k].by \in Requests /\ KeyOf(record[k].by) = k
            /\ record[k].status \in {"PROCESSING", "COMPLETED", "FAILED"}
    /\ phase \in [Requests -> Phase]
    /\ stale \in [Requests -> Requests]
    /\ DOMAIN answer = Requests /\ answer = [r \in Requests |-> answer[r]]
    /\ lapsed \subseteq Requests
    /\ \A r \in Requests : Keyed(r) => KeyOf(r) # NoKey

\* What is about to be deleted has expired.
DropsExpired ==
    \A r \in Requests : phase[r] = "drop" => stale[r] \in lapsed /\ KeyOf(stale[r]) = KeyOf(r)

\* A stored reply is that of a request that is through.
StoredIsAnswered ==
    \A k \in Keys : record[k].status = "COMPLETED" =>
        phase[record[k].by] = "answered" /\ record[k].body = answer[record[k].by]

\* As long as no record of a key expires, the request that runs under the key
\* holds its record, ...
RunnerHolds ==
    \A r \in Requests : KeyOf(r) # NoKey /\ Lasting(KeyOf(r)) /\ Running(r) =>
        RecordOf(r).by = r /\ RecordOf(r).status = "PROCESSING"

\* ... and whoever was answered holds it or was told what it stores.
AnsweredIsRecorded ==
    \A r \in Requests : KeyOf(r) # NoKey /\ Lasting(KeyOf(r)) /\ answer[r] \in Replies =>
        /\ Written(KeyOf(r)) /\ SamePayload(r)
        /\ \/ RecordOf(r).by = r
           \/ RecordOf(r).status = "COMPLETED" /\ RecordOf(r).body = answer[r]

\* Until its handler answers, a request was told nothing.
Before == {"idle", "drop", "insert", "run", "fail", "erase"}
Untold == \A r \in Requests : phase[r] \in Before => answer[r] = "none"

WrapperInv ==
    /\ WrapperTypeOK
    /\ Untold
    /\ DropsExpired
    /\ StoredIsAnswered
    /\ RunnerHolds
    /\ AnsweredIsRecorded

\* The record of a request, as it would be if it were rec.
Answers(r, rec, a) ==
    /\ rec.status # "NONE" /\ PayloadOf(rec.by) = PayloadOf(r)
    /\ \/ rec.by = r
       \/ rec.status = "COMPLETED" /\ rec.body = a

\* Request r moves to q, is told a, remembers d; the records stay.
Moves(r, q, a, d) ==
    /\ UNCHANGED <<input, record, lapsed>>
    /\ phase' = [phase EXCEPT ![r] = q]
    /\ answer' = [answer EXCEPT ![r] = a]
    /\ stale' = [stale EXCEPT ![r] = d]

\* A request that is not through yet may move wherever the invariant lets it.
LEMMA MoveInv ==
    ASSUME WrapperInv, NEW r \in Requests, NEW q \in Phase, NEW a, NEW d \in Requests,
           Moves(r, q, a, d),
           phase[r] # "answered", q \in Before => a = "none",
           q \in {"drop", "insert", "store", "fail", "erase"} => KeyOf(r) # NoKey,
           q = "drop" => d \in lapsed /\ KeyOf(d) = KeyOf(r),
           KeyOf(r) # NoKey /\ Lasting(KeyOf(r)) /\ q \in {"run", "store", "fail", "erase"} =>
               RecordOf(r).by = r /\ RecordOf(r).status = "PROCESSING",
           KeyOf(r) # NoKey /\ Lasting(KeyOf(r)) /\ a \in Replies =>
               Answers(r, RecordOf(r), a)
    PROVE  WrapperInv'
<1>1. /\ \A s \in Requests : KeyOf(s)' = KeyOf(s) /\ PayloadOf(s)' = PayloadOf(s)
      /\ \A k \in Keys : record'[k] = record[k] /\ Lasting(k)' = Lasting(k)
  BY DEF Moves, KeyOf, PayloadOf, Lasting
<1>2. /\ phase'[r] = q /\ answer'[r] = a /\ stale'[r] = d
      /\ \A s \in Requests : s # r =>
           phase'[s] = phase[s] /\ answer'[s] = answer[s] /\ stale'[s] = stale[s]
  BY DEF Moves, WrapperInv, WrapperTypeOK
<1>3. WrapperTypeOK'
  <2>1. /\ phase' \in [Requests -> Phase] /\ stale' \in [Requests -> Requests]
        /\ lapsed' \subseteq Requests
    BY DEF Moves, WrapperInv, WrapperTypeOK
  <2>2. DOMAIN answer' = Requests /\ answer' = [s \in Requests |-> answer'[s]]
    BY DEF Moves, WrapperInv, WrapperTypeOK
  <2>3. \A s \in Requests : Keyed(s)' => KeyOf(s) # NoKey
    BY <1>1, <1>2 DEF WrapperInv, WrapperTypeOK, Keyed
  <2>4. UNCHANGED <<input, record>>
    BY DEF Moves
  <2> QED BY <1>1, <2>1, <2>2, <2>3, <2>4 DEF WrapperInv, WrapperTypeOK, KeyOf
<1>4. DropsExpired'
  BY <1>1, <1>2 DEF Moves, WrapperInv, WrapperTypeOK, DropsExpired
<1>5. StoredIsAnswered'
  BY <1>1, <1>2 DEF Moves, WrapperInv, WrapperTypeOK, StoredIsAnswered, NoRecord
<1>6. RunnerHolds'
  <2> SUFFICES ASSUME NEW s \in Requests,
                      KeyOf(s) # NoKey, Lasting(KeyOf(s)), Running(s)'
               PROVE  RecordOf(s).by = s /\ RecordOf(s).status = "PROCESSING"
    BY <1>1 DEF Moves, RunnerHolds, RecordOf, WrapperInv, WrapperTypeOK
  <2>1. CASE s = r
    BY <1>2, <2>1 DEF Running
  <2>2. CASE s # r
    BY <1>2, <2>2 DEF Running, RunnerHolds, WrapperInv
  <2> QED BY <2>1, <2>2
<1>7. AnsweredIsRecorded'
  <2> SUFFICES ASSUME NEW s \in Requests,
                      KeyOf(s) # NoKey, Lasting(KeyOf(s)), answer'[s] \in Replies
               PROVE  Answers(s, RecordOf(s), answer'[s])
    <3>1. ASSUME NEW t \in Requests, KeyOf(t) # NoKey, Answers(t, RecordOf(t), answer'[t])
          PROVE  Written(KeyOf(t)) /\ RecordOf(t).by \in Requests
      BY <3>1 DEF Answers, Written, RecordOf, WrapperInv, WrapperTypeOK, NoRecord
    <3>2. \A t \in Requests : RecordOf(t)' = RecordOf(t) /\ Written(KeyOf(t))' = Written(KeyOf(t))
      BY <1>1 DEF Moves, RecordOf, Written
    <3>3. ASSUME NEW t \in Requests, PayloadOf(RecordOf(t).by) = PayloadOf(t)
          PROVE  SamePayload(t)'
      BY <1>1, <3>2, <3>3 DEF Moves, SamePayload, PayloadOf
    <3>4. \A t \in Requests : KeyOf(t) # NoKey => KeyOf(t) \in Keys
      BY DEF WrapperInv, WrapperTypeOK
    <3> QED BY <1>1, <3>1, <3>2, <3>3, <3>4 DEF AnsweredIsRecorded, Answers
  <2>1. CASE s = r
    BY <1>2, <2>1
  <2>2. CASE s # r
    BY <1>2, <2>2 DEF AnsweredIsRecorded, Answers, Written, SamePayload, RecordOf, WrapperInv
  <2> QED BY <2>1, <2>2
<1>8. Untold'
  BY <1>2 DEF WrapperInv, WrapperTypeOK, Untold
<1> QED BY <1>3, <1>4, <1>5, <1>6, <1>7, <1>8 DEF WrapperInv

\* Request r writes the record of its key: nobody else runs or was answered under
\* the key, unless a record of it has expired.
LEMMA WriteInv ==
    ASSUME WrapperInv, NEW r \in Requests, NEW q \in Phase \ {"drop"}, NEW a, NEW rec,
           UNCHANGED <<input, stale, lapsed>>,
           phase' = [phase EXCEPT ![r] = q],
           answer' = [answer EXCEPT ![r] = a],
           Write(r, rec),
           phase[r] # "answered", q \in Before => a = "none", KeyOf(r) # NoKey,
           \/ rec = NoRecord
           \/ /\ rec = [by |-> rec.by, status |-> rec.status, body |-> rec.body]
              /\ rec.by = r /\ rec.status \in {"PROCESSING", "COMPLETED", "FAILED"},
           rec.status = "COMPLETED" => q = "answered" /\ rec.body = a,
           Lasting(KeyOf(r)) =>
               \A s \in Requests : s # r /\ KeyOf(s) = KeyOf(r) =>
                   ~Running(s) /\ answer[s] \notin Replies,
           Lasting(KeyOf(r)) /\ q \in {"run", "store", "fail", "erase"} =>
               rec.by = r /\ rec.status = "PROCESSING",
           Lasting(KeyOf(r)) /\ a \in Replies => rec # NoRecord
    PROVE  WrapperInv'
<1>1. /\ \A s \in Requests : KeyOf(s)' = KeyOf(s) /\ PayloadOf(s)' = PayloadOf(s)
      /\ \A k \in Keys : Lasting(k)' = Lasting(k)
      /\ KeyOf(r) \in Keys
  BY DEF KeyOf, PayloadOf, Lasting, WrapperInv, WrapperTypeOK
<1>2. /\ phase'[r] = q /\ answer'[r] = a
      /\ \A s \in Requests : s # r => phase'[s] = phase[s] /\ answer'[s] = answer[s]
      /\ record'[KeyOf(r)] = rec
      /\ \A k \in Keys : k # KeyOf(r) => record'[k] = record[k]
  BY <1>1 DEF Write, WrapperInv, WrapperTypeOK
<1>3. WrapperTypeOK'
  <2>1. /\ DOMAIN record' = Keys /\ record' = [k \in Keys |-> record'[k]]
    BY <1>1 DEF Write, WrapperInv, WrapperTypeOK
  <2>3. phase' \in [Requests -> Phase]
    BY DEF WrapperInv, WrapperTypeOK
  <2>4. DOMAIN answer' = Requests /\ answer' = [s \in Requests |-> answer'[s]]
    BY DEF WrapperInv, WrapperTypeOK
  <2>2. \A k \in Keys :
         \/ record'[k] = NoRecord
         \/ /\ record'[k] = [by |-> record'[k].by, status |-> record'[k].status,
                            body |-> record'[k].body]
            /\ record'[k].by \in Requests /\ KeyOf(record'[k].by) = k
            /\ record'[k].status \in {"PROCESSING", "COMPLETED", "FAILED"}
    BY <1>1, <1>2 DEF WrapperInv, WrapperTypeOK
  <2>5. \A s \in Requests : Keyed(s)' => KeyOf(s) # NoKey
    BY <1>1, <1>2 DEF WrapperInv, WrapperTypeOK, Keyed
  <2> QED BY <1>1, <2>1, <2>2, <2>3, <2>4, <2>5 DEF WrapperInv, WrapperTypeOK, KeyOf
<1>4. DropsExpired'
  BY <1>1, <1>2 DEF WrapperInv, WrapperTypeOK, DropsExpired
<1>5. StoredIsAnswered'
  <2> SUFFICES ASSUME NEW k \in Keys, record'[k].status = "COMPLETED"
               PROVE  phase'[record'[k].by] = "answered" /\ record'[k].body = answer'[record'[k].by]
    BY DEF StoredIsAnswered
  <2>1. CASE k = KeyOf(r)
    BY <1>2, <2>1 DEF NoRecord
  <2>2. CASE k # KeyOf(r)
    BY <1>2, <2>2 DEF WrapperInv, WrapperTypeOK, StoredIsAnswered, NoRecord
  <2> QED BY <2>1, <2>2
<1>6. RunnerHolds'
  <2> SUFFICES ASSUME NEW s \in Requests,
                      KeyOf(s) # NoKey, Lasting(KeyOf(s)), Running(s)'
               PROVE  record'[KeyOf(s)].by = s /\ record'[KeyOf(s)].status = "PROCESSING"
    BY <1>1 DEF RunnerHolds, RecordOf, WrapperInv, WrapperTypeOK
  <2>1. CASE s = r
    BY <1>2, <2>1 DEF Running
  <2>2. CASE s # r /\ KeyOf(s) = KeyOf(r)
    BY <1>2, <2>2 DEF Running
  <2>3. CASE KeyOf(s) # KeyOf(r)
    BY <1>2, <2>3 DEF Running, RunnerHolds, RecordOf, WrapperInv, WrapperTypeOK
  <2> QED BY <2>1, <2>2, <2>3
<1>7. AnsweredIsRecorded'
  <2> SUFFICES ASSUME NEW s \in Requests,
                      KeyOf(s) # NoKey, Lasting(KeyOf(s)), answer'[s] \in Replies
               PROVE  Answers(s, record'[KeyOf(s)], answer'[s])
    <3>1. \A t \in Requests : KeyOf(t) # NoKey /\ Answers(t, record'[KeyOf(t)], answer'[t]) =>
             /\ Written(KeyOf(t))' /\ record'[KeyOf(t)].by \in Requests
             /\ PayloadOf(record'[KeyOf(t)].by) = PayloadOf(t)
             /\ \/ record'[KeyOf(t)].by = t
                \/ record'[KeyOf(t)].status = "COMPLETED" /\ record'[KeyOf(t)].body = answer'[t]
      <4> SUFFICES ASSUME NEW t \in Requests, KeyOf(t) # NoKey,
                          Answers(t, record'[KeyOf(t)], answer'[t])
                   PROVE  Written(KeyOf(t))' /\ record'[KeyOf(t)].by \in Requests
        BY <1>1 DEF Answers
      <4>1. KeyOf(t) \in Keys /\ KeyOf(t)' = KeyOf(t)
        BY <1>1 DEF WrapperInv, WrapperTypeOK
      <4> QED BY <1>3, <4>1 DEF Answers, Written, WrapperTypeOK, NoRecord
    <3>2. \A t \in Requests : KeyOf(t) # NoKey => KeyOf(t) \in Keys
      BY DEF WrapperInv, WrapperTypeOK
    <3> QED BY <1>1, <3>1, <3>2 DEF AnsweredIsRecorded, SamePayload, RecordOf, Written
  <2>1. CASE s = r
    BY <1>2, <2>1 DEF Answers, NoRecord
  <2>2. CASE s # r /\ KeyOf(s) = KeyOf(r)
    BY <1>2, <2>2
  <2>3. CASE KeyOf(s) # KeyOf(r)
    <3>1. answer[s] = answer'[s] /\ record'[KeyOf(s)] = record[KeyOf(s)]
      BY <1>2, <2>3 DEF WrapperInv, WrapperTypeOK
    <3> QED BY <3>1 DEF AnsweredIsRecorded, Answers, Written, SamePayload, RecordOf, WrapperInv
  <2> QED BY <2>1, <2>2, <2>3
<1>8. Untold'
  BY <1>2 DEF WrapperInv, WrapperTypeOK, Untold
<1> QED BY <1>3, <1>4, <1>5, <1>6, <1>7, <1>8 DEF WrapperInv

\* Telling a request what it knows, and remembering what it remembers, is no change.
LEMMA NoChange ==
    ASSUME WrapperTypeOK, NEW r \in Requests
    PROVE  /\ answer = [answer EXCEPT ![r] = answer[r]]
           /\ stale = [stale EXCEPT ![r] = stale[r]]
           /\ stale[r] \in Requests
           /\ KeyOf(r) # NoKey => KeyOf(r) \in Keys
BY DEF WrapperTypeOK

\* What a handler or the wrapper around it makes of a request it runs.
LEMMA RunsOn ==
    ASSUME WrapperInv, NEW r \in Requests, NEW q \in {"store", "fail", "erase", "answered"}, NEW a,
           phase[r] = "run", q # "answered" => KeyOf(r) # NoKey,
           q = "answered" => KeyOf(r) = NoKey, a = answer[r] \/ q = "store" \/ q = "answered",
           Moves(r, q, a, stale[r])
    PROVE  WrapperInv'
<1>1. KeyOf(r) # NoKey /\ Lasting(KeyOf(r)) => RecordOf(r).by = r /\ RecordOf(r).status = "PROCESSING"
  BY DEF WrapperInv, RunnerHolds, Running
<1>2. KeyOf(r) # NoKey /\ Lasting(KeyOf(r)) => Answers(r, RecordOf(r), a)
  BY <1>1 DEF Answers
<1>3. stale[r] \in Requests
  BY NoChange DEF WrapperInv
<1>4. q \in Phase /\ (q \in Before => a = "none")
  BY DEF Phase, WrapperInv, Untold, Before
<1> QED BY <1>1, <1>2, <1>3, <1>4, MoveInv

\* Under a key that lasts, the one that holds the record is alone.
LEMMA HolderIsAlone ==
    ASSUME WrapperInv, NEW r \in Requests, KeyOf(r) # NoKey, Lasting(KeyOf(r)), Running(r)
    PROVE  \A s \in Requests : s # r /\ KeyOf(s) = KeyOf(r) =>
               ~Running(s) /\ answer[s] \notin Replies
<1>1. RecordOf(r).by = r /\ RecordOf(r).status = "PROCESSING"
  BY DEF WrapperInv, RunnerHolds
<1> QED BY <1>1 DEF WrapperInv, RunnerHolds, AnsweredIsRecorded, RecordOf

\* Reading the record leads on, or to an answer that the record accounts for.
LEMMA LookupInv ==
    ASSUME WrapperInv, NEW r \in Requests, Lookup(r)
    PROVE  WrapperInv'
<1> DEFINE rec == RecordOf(r)
<1>1. /\ phase[r] = "idle" /\ KeyOf(r) # NoKey /\ KeyOf(r) \in Keys
      /\ UNCHANGED <<input, record, lapsed>> /\ answer[r] = "none"
  BY NoChange DEF Lookup, WrapperInv, Untold, Before
<1>2. KeyOf(r) # NoKey /\ Lasting(KeyOf(r)) /\ answer[r] \in Replies =>
         Answers(r, RecordOf(r), answer[r])
  BY <1>1 DEF WrapperInv, AnsweredIsRecorded, Answers, Written, SamePayload, RecordOf
<1>3. rec # NoRecord => /\ rec.by \in Requests /\ KeyOf(rec.by) = KeyOf(r)
                        /\ rec.status # "NONE"
  BY <1>1 DEF WrapperInv, WrapperTypeOK, RecordOf
<1>4. CASE To(r, "insert") /\ UNCHANGED <<stale, answer>>
  <2>1. Moves(r, "insert", answer[r], stale[r])
    BY <1>1, <1>4, NoChange DEF Moves, To, WrapperInv
  <2> QED BY <1>1, <1>2, <2>1, NoChange, MoveInv DEF WrapperInv, Phase, Before
<1>5. CASE /\ RecordOf(r) # NoRecord /\ ~Fresh(r)
           /\ To(r, "drop") /\ stale' = [stale EXCEPT ![r] = RecordOf(r).by]
           /\ UNCHANGED answer
  <2>1. Moves(r, "drop", answer[r], rec.by)
    BY <1>1, <1>5, NoChange DEF Moves, To, WrapperInv
  <2>2. rec.by \in lapsed /\ rec.by \in Requests /\ KeyOf(rec.by) = KeyOf(r)
    BY <1>3, <1>5 DEF Fresh
  <2> QED BY <1>1, <1>2, <2>1, <2>2, MoveInv DEF Phase, Before
<1>6. ASSUME NEW a \in {"conflict", "in_progress"},
             Tell(r, a), To(r, "answered"), UNCHANGED stale
      PROVE  WrapperInv'
  <2>1. Moves(r, "answered", a, stale[r])
    BY <1>1, <1>6, NoChange DEF Moves, To, Tell, WrapperInv
  <2>2. a \notin Replies
    BY IdempotencyAssumption DEF OwnReplies
  <2> QED BY <1>1, <2>1, <2>2, NoChange, MoveInv DEF WrapperInv, Phase, Before
<1>7. CASE /\ Fresh(r) /\ SamePayload(r) /\ RecordOf(r).status = "COMPLETED"
           /\ Tell(r, RecordOf(r).body) /\ To(r, "answered") /\ UNCHANGED stale
  <2>1. Moves(r, "answered", rec.body, stale[r])
    BY <1>1, <1>7, NoChange DEF Moves, To, Tell, WrapperInv
  <2>2. Answers(r, rec, rec.body)
    BY <1>7 DEF Answers, SamePayload
  <2> QED BY <1>1, <2>1, <2>2, NoChange, MoveInv DEF WrapperInv, Phase, Before
<1> QED BY <1>4, <1>5, <1>6, <1>7, Zenon DEF Lookup

\* Inserting the record: the first runs, the others are told to wait.
LEMMA InsertInv ==
    ASSUME WrapperInv, NEW r \in Requests, Insert(r)
    PROVE  WrapperInv'
<1>1. /\ phase[r] = "insert" /\ KeyOf(r) # NoKey /\ KeyOf(r) \in Keys
      /\ UNCHANGED <<input, stale, lapsed>> /\ answer[r] = "none"
  BY NoChange DEF Insert, WrapperInv, WrapperTypeOK, Keyed, Untold, Before
<1>2. CASE RecordOf(r) = NoRecord
  <2> DEFINE rec == [by |-> r, status |-> "PROCESSING", body |-> "none"]
  <2>1. /\ Write(r, rec) /\ phase' = [phase EXCEPT ![r] = "run"]
        /\ answer' = [answer EXCEPT ![r] = answer[r]]
    BY <1>1, <1>2, NoChange DEF Insert, To, WrapperInv
  <2>2. Lasting(KeyOf(r)) =>
           \A s \in Requests : KeyOf(s) = KeyOf(r) => ~Running(s) /\ answer[s] \notin Replies
    BY <1>1, <1>2 DEF WrapperInv, RunnerHolds, AnsweredIsRecorded, Written, RecordOf, NoRecord
  <2>3. /\ rec = [by |-> rec.by, status |-> rec.status, body |-> rec.body]
        /\ rec.by = r /\ rec.status = "PROCESSING" /\ rec # NoRecord
    BY DEF NoRecord
  <2>4. "run" \in Phase \ {"drop"}
    BY DEF Phase
  <2> HIDE DEF rec
  <2> QED BY <1>1, <2>1, <2>2, <2>3, <2>4, WriteInv
<1>3. CASE RecordOf(r) # NoRecord
  <2>1. Moves(r, "answered", "in_progress", stale[r])
    BY <1>1, <1>3, NoChange DEF Insert, Moves, To, Tell, WrapperInv
  <2>2. "in_progress" \notin Replies
    BY IdempotencyAssumption DEF OwnReplies
  <2> QED BY <1>1, <2>1, <2>2, NoChange, MoveInv DEF WrapperInv, Phase, Before
<1> QED BY <1>2, <1>3

\* Only an expired record is deleted from under the others.
LEMMA DropInv ==
    ASSUME WrapperInv, NEW r \in Requests, Drop(r)
    PROVE  WrapperInv'
<1>1. /\ phase[r] = "drop" /\ KeyOf(r) # NoKey /\ KeyOf(r) \in Keys
      /\ UNCHANGED <<input, stale, answer, lapsed>>
      /\ phase' = [phase EXCEPT ![r] = "insert"]
      /\ answer' = [answer EXCEPT ![r] = answer[r]] /\ answer[r] = "none"
  BY NoChange DEF Drop, To, WrapperInv, WrapperTypeOK, Keyed, Untold, Before
<1>2. ~Lasting(KeyOf(r))
  BY <1>1 DEF WrapperInv, DropsExpired, Lasting
<1>3. CASE UNCHANGED record
  <2>1. Moves(r, "insert", answer[r], stale[r])
    BY <1>1, <1>3, NoChange DEF Moves, WrapperInv
  <2> QED BY <1>1, <1>2, <2>1, NoChange, MoveInv DEF WrapperInv, Phase, Before
<1>4. CASE Write(r, NoRecord)
  <2>1. "insert" \in Phase \ {"drop"} /\ NoRecord.status # "COMPLETED"
    BY DEF Phase, NoRecord
  <2> QED BY <1>1, <1>2, <1>4, <2>1, WriteInv
<1> QED BY <1>3, <1>4 DEF Drop

\* Storing, failing or erasing: the one that holds the record settles it, or a
\* failed statement leaves it in progress.
LEMMA SettleInv ==
    ASSUME WrapperInv, NEW r \in Requests, Store(r) \/ Fail(r) \/ Erase(r)
    PROVE  WrapperInv'
<1>1. /\ phase[r] \in {"store", "fail", "erase"} /\ KeyOf(r) # NoKey /\ KeyOf(r) \in Keys
      /\ Running(r) /\ UNCHANGED <<input, stale, lapsed>>
  BY NoChange DEF Store, Fail, Erase, WrapperInv, WrapperTypeOK, Keyed, Running
<1>2. PICK q \in {"answered", "erased"}, a \in {answer[r], "server_error"} :
         /\ phase' = [phase EXCEPT ![r] = q]
         /\ answer' = [answer EXCEPT ![r] = a]
         /\ \/ UNCHANGED record
            \/ \E rec : /\ Write(r, rec) /\ Holds(r)
                        /\ \/ rec = NoRecord /\ q = "erased"
                           \/ rec = [by |-> r, status |-> "COMPLETED", body |-> a] /\ q = "answered"
                           \/ rec = [RecordOf(r) EXCEPT !.status = "FAILED"] /\ a = "server_error"
         /\ a = "server_error" \/ phase[r] # "fail"
         /\ q = "erased" => phase[r] = "erase"
  <2>1. CASE Store(r)
    <3>1. /\ phase' = [phase EXCEPT ![r] = "answered"] /\ answer' = [answer EXCEPT ![r] = answer[r]]
          /\ \/ UNCHANGED record
             \/ Holds(r) /\ Write(r, [by |-> r, status |-> "COMPLETED", body |-> answer[r]])
          /\ phase[r] = "store"
      BY <2>1, NoChange DEF Store, To, WrapperInv
    <3> QED BY <3>1, Zenon
  <2>2. CASE Fail(r)
    <3>1. /\ phase' = [phase EXCEPT ![r] = "answered"] /\ answer' = [answer EXCEPT ![r] = "server_error"]
          /\ \/ UNCHANGED record
             \/ Holds(r) /\ Write(r, [RecordOf(r) EXCEPT !.status = "FAILED"])
          /\ phase[r] = "fail"
      BY <2>2 DEF Fail, To, Tell
    <3> QED BY <3>1, Zenon
  <2>3. CASE Erase(r)
    <3>1. /\ phase' = [phase EXCEPT ![r] = "erased"] /\ answer' = [answer EXCEPT ![r] = answer[r]]
          /\ \/ UNCHANGED record
             \/ Holds(r) /\ Write(r, NoRecord)
          /\ phase[r] = "erase"
      BY <2>3, NoChange DEF Erase, To, WrapperInv
    <3> QED BY <3>1, Zenon
  <2> QED BY <2>1, <2>2, <2>3
<1>3. /\ q \in Phase \ {"drop"} /\ q \notin Before
      /\ phase[r] # "answered" /\ q \notin {"insert", "store", "fail", "erase", "run"}
  BY <1>1 DEF Phase, Before
<1>4. /\ Lasting(KeyOf(r)) => RecordOf(r).by = r /\ RecordOf(r).status = "PROCESSING"
      /\ q = "erased" => answer[r] = "none"
  BY <1>1, <1>2 DEF WrapperInv, RunnerHolds, Untold, Before
<1>5. CASE UNCHANGED record
  <2>1. Moves(r, q, a, stale[r])
    BY <1>1, <1>2, <1>5, NoChange DEF Moves, WrapperInv
  <2>2. Lasting(KeyOf(r)) => Answers(r, RecordOf(r), a)
    BY <1>4 DEF Answers
  <2> QED BY <1>1, <1>3, <2>1, <2>2, NoChange, MoveInv DEF WrapperInv
<1>6. ASSUME NEW rec, Write(r, rec), Holds(r),
             \/ rec = NoRecord /\ q = "erased"
             \/ rec = [by |-> r, status |-> "COMPLETED", body |-> a] /\ q = "answered"
             \/ rec = [RecordOf(r) EXCEPT !.status = "FAILED"] /\ a = "server_error"
      PROVE  WrapperInv'
  <2>1. a \in Replies => rec # NoRecord
    <3>1. "none" \notin Replies /\ "server_error" \notin Replies
      BY IdempotencyAssumption DEF OwnReplies
    <3>2. rec = NoRecord => q = "erased" \/ a = "server_error"
      BY <1>6 DEF NoRecord
    <3> QED BY <1>2, <1>4, <3>1, <3>2
  <2>2. \E s, b : RecordOf(r) = [by |-> r, status |-> s, body |-> b]
    BY <1>1, <1>6 DEF Holds, RecordOf, WrapperInv, WrapperTypeOK, NoRecord
  <2>3. \/ rec = NoRecord
        \/ /\ rec = [by |-> rec.by, status |-> rec.status, body |-> rec.body]
           /\ rec.by = r /\ rec.status \in {"PROCESSING", "COMPLETED", "FAILED"}
    <3>1. CASE rec = [RecordOf(r) EXCEPT !.status = "FAILED"]
      <4>1. PICK s, b : RecordOf(r) = [by |-> r, status |-> s, body |-> b]
        BY <2>2
      <4>2. rec = [by |-> r, status |-> "FAILED", body |-> b]
        BY <3>1, <4>1
      <4> QED BY <4>2
    <3>2. CASE rec = [by |-> r, status |-> "COMPLETED", body |-> a]
      BY <3>2
    <3> QED BY <1>6, <3>1, <3>2
  <2>4. rec.status = "COMPLETED" => q = "answered" /\ rec.body = a
    BY <1>6, <2>2 DEF NoRecord
  <2> QED BY <1>1, <1>2, <1>3, <1>6, <2>1, <2>3, <2>4, HolderIsAlone, WriteInv
<1> QED BY <1>2, <1>5, <1>6, Zenon

\* A record that outlives its 24 hours binds nobody any more; a process that
\* stops leaves the records it wrote behind.
LEMMA RestOfWrapperInv ==
    ASSUME WrapperInv,
           \/ \E r \in Requests : Lapse(r)
           \/ \E S \in SUBSET Requests : Lost(S)
    PROVE  WrapperInv'
<1>1. /\ UNCHANGED <<input, record, stale, answer>>
      /\ lapsed \subseteq lapsed' /\ lapsed' \subseteq Requests
  BY DEF Lapse, Lost, WrapperInv, WrapperTypeOK
<1>2. /\ phase' \in [Requests -> Phase]
      /\ \A r \in Requests : /\ phase'[r] # phase[r] => phase'[r] = "lost"
                             /\ phase[r] = "answered" => phase'[r] = "answered"
  BY DEF Lapse, Lost, InFlight, Phase, WrapperInv, WrapperTypeOK
<1>3. /\ \A r \in Requests : KeyOf(r)' = KeyOf(r) /\ PayloadOf(r)' = PayloadOf(r)
      /\ \A k \in Keys : Lasting(k)' => Lasting(k)
  BY <1>1 DEF KeyOf, PayloadOf, Lasting
<1>4. WrapperTypeOK'
  BY <1>1, <1>2, <1>3 DEF WrapperInv, WrapperTypeOK, Keyed, KeyOf
<1>5. DropsExpired' /\ StoredIsAnswered' /\ Untold'
  <2>1. DropsExpired'
    BY <1>1, <1>2 DEF WrapperInv, WrapperTypeOK, DropsExpired, KeyOf
  <2>2. StoredIsAnswered'
    BY <1>1, <1>2 DEF WrapperInv, WrapperTypeOK, StoredIsAnswered, NoRecord
  <2>3. Untold'
    BY <1>1, <1>2 DEF WrapperInv, WrapperTypeOK, Untold, Before
  <2> QED BY <2>1, <2>2, <2>3
<1>6. ASSUME NEW r \in Requests, KeyOf(r) # NoKey, Lasting(KeyOf(r))'
      PROVE  Lasting(KeyOf(r)) /\ KeyOf(r) \in Keys
  BY <1>1, <1>6 DEF Lasting, KeyOf, WrapperInv, WrapperTypeOK
<1>7. RunnerHolds'
  BY <1>1, <1>2, <1>3, <1>6 DEF WrapperInv, RunnerHolds, Running, RecordOf
<1>8. AnsweredIsRecorded'
  <2>1. \A r \in Requests : /\ Written(KeyOf(r))' = Written(KeyOf(r))
                            /\ SamePayload(r)' = SamePayload(r) /\ RecordOf(r)' = RecordOf(r)
    BY <1>1 DEF Written, SamePayload, RecordOf, KeyOf, PayloadOf
  <2> QED BY <1>1, <1>3, <1>6, <2>1 DEF WrapperInv, AnsweredIsRecorded
<1> QED BY <1>4, <1>5, <1>7, <1>8 DEF WrapperInv

\* Every step of the wrapper keeps the invariant.
LEMMA WrapperStepInv ==
    ASSUME WrapperInv, WrapperNext
    PROVE  WrapperInv'
<1>1. ASSUME NEW r \in Requests, Unwrapped(r)
      PROVE  WrapperInv'
  <2>1. /\ phase[r] = "idle" /\ KeyOf(r) = NoKey /\ answer[r] = "none" /\ stale[r] \in Requests
        /\ Moves(r, "run", answer[r], stale[r])
    BY <1>1, NoChange DEF Unwrapped, To, Moves, WrapperInv, Untold, Before
  <2> QED BY <2>1, MoveInv DEF Phase
<1>2. ASSUME NEW r \in Requests, Throw(r) \/ EndWithoutBody(r)
      PROVE  WrapperInv'
  <2>1. /\ phase[r] = "run" /\ KeyOf(r) # NoKey
        /\ \E q \in {"fail", "erase"} : Moves(r, q, answer[r], stale[r])
    BY <1>2, NoChange DEF Throw, EndWithoutBody, To, Moves, WrapperInv
  <2> QED BY <2>1, RunsOn
<1>3. ASSUME NEW r \in Requests, NEW reply, Respond(r, reply)
      PROVE  WrapperInv'
  <2>1. CASE KeyOf(r) = NoKey
    <3>1. phase[r] = "run" /\ Moves(r, "answered", reply, stale[r])
      BY <1>3, <2>1, NoChange DEF Respond, Tell, To, Moves, WrapperInv
    <3> QED BY <2>1, <3>1, RunsOn
  <2>2. CASE KeyOf(r) # NoKey
    <3>1. phase[r] = "run" /\ Moves(r, "store", reply, stale[r])
      BY <1>3, <2>2, NoChange DEF Respond, Tell, To, Moves, WrapperInv
    <3> QED BY <2>2, <3>1, RunsOn
  <2> QED BY <2>1, <2>2
<1>4. ASSUME NEW r \in Requests, WrapperStep(r)
      PROVE  WrapperInv'
  BY <1>1, <1>4, LookupInv, DropInv, InsertInv, SettleInv, Zenon DEF WrapperStep
<1> QED BY <1>2, <1>3, <1>4, RestOfWrapperInv, Zenon DEF WrapperNext

\* Before anybody asks.
LEMMA WrapperInit == CheckoutInit => WrapperInv
<1> SUFFICES ASSUME CheckoutInit
             PROVE  WrapperInv
  OBVIOUS
<1>1. \A r \in Requests : KeyOf(r) \in Keys \union {NoKey}
  BY CheckoutAssumption DEF CheckoutInit, KeyOf
<1> QED
  BY <1>1, IdempotencyAssumption DEF CheckoutInit, IdempotencyInit, WrapperInv, WrapperTypeOK,
     Untold, Before, DropsExpired, StoredIsAnswered, RunnerHolds, AnsweredIsRecorded, Keyed,
     Running, Phase, NoRecord, OwnReplies

\* The records of the wrapper, in every reachable state.
THEOREM WrapperInvariant == CheckoutSpec => []WrapperInv
<1>1. WrapperInv /\ [CheckoutNext]_vars => WrapperInv'
  <2> SUFFICES ASSUME WrapperInv, [CheckoutNext]_vars
               PROVE  WrapperInv'
    OBVIOUS
  <2>1. CASE UNCHANGED idempotencyVars
    BY <2>1 DEF idempotencyVars, WrapperInv, WrapperTypeOK, Untold, DropsExpired,
       StoredIsAnswered, RunnerHolds, AnsweredIsRecorded, Keyed, Running, Lasting, Written,
       SamePayload, RecordOf, KeyOf, PayloadOf
  <2> QED BY <2>1, StepsAreWrapped, WrapperStepInv
<1> QED BY <1>1, WrapperInit, PTL DEF CheckoutSpec

\* What is stored under a key is what its client was told, and whoever is answered
\* by the handler under a key, retry or original, is told the same and asked the
\* same, unless a record of the key has outlived its 24 hours - however many
\* retries overlap, crash, or lose the statement that stores the reply.
THEOREM RetriesAlwaysAgree == CheckoutSpec => []RetriesAgree
<1>1. WrapperInv => RetriesAgree
  <2> SUFFICES ASSUME WrapperInv
               PROVE  RetriesAgree
    OBVIOUS
  <2>1. \A k \in Keys : record[k].status = "COMPLETED" => record[k].body = answer[record[k].by]
    BY DEF WrapperInv, StoredIsAnswered
  <2>2. ASSUME NEW r \in Requests, NEW s \in Requests,
               KeyOf(r) = KeyOf(s), KeyOf(r) # NoKey,
               {answer[r], answer[s]} \subseteq Replies,
               \A t \in lapsed : KeyOf(t) # KeyOf(r)
        PROVE  answer[r] = answer[s] /\ PayloadOf(r) = PayloadOf(s)
    <3>1. Lasting(KeyOf(r)) /\ RecordOf(r) = RecordOf(s) /\ KeyOf(r) \in Keys
      BY <2>2 DEF Lasting, RecordOf, WrapperInv, WrapperTypeOK
    <3>2. PayloadOf(r) = PayloadOf(s)
      BY <2>2, <3>1 DEF WrapperInv, AnsweredIsRecorded, SamePayload
    <3>3. RecordOf(r).status = "COMPLETED" => RecordOf(r).body = answer[RecordOf(r).by]
      BY <2>1, <3>1 DEF RecordOf
    <3>4. /\ \/ RecordOf(r).by = r
             \/ RecordOf(r).status = "COMPLETED" /\ RecordOf(r).body = answer[r]
          /\ \/ RecordOf(r).by = s
             \/ RecordOf(r).status = "COMPLETED" /\ RecordOf(r).body = answer[s]
      BY <2>2, <3>1 DEF WrapperInv, AnsweredIsRecorded
    <3> QED BY <3>2, <3>3, <3>4
  <2> QED BY <2>1, <2>2 DEF RetriesAgree
<1> QED BY <1>1, WrapperInvariant, PTL

-----------------------------------------------------------------------------
(* The discount campaign is counted exactly *)

Status == {"NONE", "PENDING", "COMPLETED", "FAILED", "REFUNDED", "IN_PROGRESS", "DISPUTED"}
Place == {"start", "look", "validate", "create", "represent", "complete", "out"}

CheckoutTypeOK ==
    /\ step \in [Requests -> Place]
    /\ rows \in Seq(Requests)
    /\ status \in [Requests -> Status]
    /\ paid \subseteq Requests
    /\ campaign \in [active : BOOLEAN, limit : Nat, used : Nat]
    /\ usages \subseteq Requests /\ IsFiniteSet(usages)
    /\ attempt \in [Requests -> Nat \union {NoAttempt}]

\* A request has its row once it is past the insertion, and only then.
RowsAreCreated == \A p \in ToSet(rows) : step[p] \in {"complete", "out"}
\* Only a free purchase is completed by its own request.
CompletesFree == \A p \in Requests : step[p] = "complete" => Line(p).free
\* An open completion transaction holds a pending purchase nobody else may end.
AttemptHoldsRow ==
    \A p \in Requests : attempt[p] # NoAttempt =>
        /\ p \in ToSet(rows) /\ ~IsService(p) /\ Line(p).coupon
        /\ status[p] = "PENDING"
        /\ p \in paid \/ Line(p).free

CampaignInv ==
    /\ CheckoutTypeOK
    /\ RowsAreCreated
    /\ CompletesFree
    /\ AttemptHoldsRow
    /\ UsageIsExact

\* Every purchase row belongs to a request.
LEMMA RowsAreRequests ==
    ASSUME CheckoutTypeOK
    PROVE  ToSet(rows) \subseteq Requests
BY DEF CheckoutTypeOK, ToSet

\* Inserting a row adds it to the rows.
LEMMA AddedRow ==
    ASSUME CheckoutTypeOK, NEW r \in Requests, rows' = Append(rows, r)
    PROVE  rows' \in Seq(Requests) /\ ToSet(rows)' = ToSet(rows) \union {r}
<1>1. rows \in Seq(Requests)
  BY DEF CheckoutTypeOK
<1>2. /\ rows' \in Seq(Requests) /\ Len(rows') = Len(rows) + 1 /\ Len(rows) \in Nat
      /\ \A i \in 1 .. Len(rows) : rows'[i] = rows[i]
      /\ rows'[Len(rows) + 1] = r
  BY <1>1
<1>3. /\ ToSet(rows) = {rows[i] : i \in 1 .. Len(rows)}
      /\ ToSet(rows)' = {rows'[i] : i \in 1 .. Len(rows')}
  BY <1>1, <1>2 DEF ToSet
<1>4. ToSet(rows)' \subseteq ToSet(rows) \union {r}
  BY <1>2, <1>3
<1>5. r \in ToSet(rows)' /\ ToSet(rows) \subseteq ToSet(rows)'
  BY <1>2, <1>3
<1> QED BY <1>2, <1>4, <1>5

\* No step changes what the requests carry.
LEMMA InputIsFixed ==
    ASSUME [CheckoutNext]_vars
    PROVE  input' = input
<1>1. WrapperNext => input' = input
  BY Zenon DEF WrapperNext, WrapperStep, Unwrapped, Lookup, Drop, Insert, Store, Fail, Erase,
     Throw, EndWithoutBody, Lapse, Respond, Lost
<1> QED BY <1>1, StepsAreWrapped DEF idempotencyVars

\* The purchases that carry a usage.
Used(p) == ~IsService(p) /\ Line(p).coupon /\ status[p] \in {"COMPLETED", "DISPUTED", "REFUNDED"}

\* A step that neither inserts a row nor touches campaign, usages and attempts,
\* and moves requests only on, keeps the invariant if it changes no usage.
LEMMA FrameInv ==
    ASSUME CampaignInv, UNCHANGED <<input, rows, campaign, usages>>,
           paid \subseteq paid', paid' \subseteq Requests,
           step' \in [Requests -> Place], status' \in [Requests -> Status],
           attempt' \in [Requests -> Nat \union {NoAttempt}],
           \A p \in Requests :
             /\ step[p] \in {"complete", "out"} => step'[p] \in {"complete", "out"}
             /\ step'[p] = "complete" => step[p] = "complete"
             /\ attempt'[p] = attempt[p] \/ attempt'[p] = NoAttempt
             /\ attempt'[p] # NoAttempt => status'[p] = status[p]
             /\ p \in ToSet(rows) => (Used(p)' <=> Used(p))
    PROVE  CampaignInv'
<1>1. /\ \A p \in Requests : Line(p)' = Line(p) /\ IsService(p)' = IsService(p)
      /\ ToSet(rows)' = ToSet(rows) /\ ToSet(rows) \subseteq Requests
  BY RowsAreRequests DEF Line, IsService, ToSet, CampaignInv
<1>2. CheckoutTypeOK' /\ RowsAreCreated' /\ CompletesFree'
  <2>1. CheckoutTypeOK'
    BY DEF CampaignInv, CheckoutTypeOK
  <2>2. RowsAreCreated'
    BY <1>1 DEF CampaignInv, RowsAreCreated
  <2>3. CompletesFree'
    BY <1>1 DEF CampaignInv, CompletesFree
  <2> QED BY <2>1, <2>2, <2>3
<1>3. AttemptHoldsRow'
  BY <1>1 DEF CampaignInv, AttemptHoldsRow
<1>4. UsageIsExact'
  <2>1. UsageIsExact
    BY DEF CampaignInv
  <2>2. usages = {p \in ToSet(rows) : Used(p)}
    BY <2>1 DEF UsageIsExact, Used
  <2>3. usages' = {p \in ToSet(rows)' : Used(p)'}
    BY <1>1, <2>2
  <2>4. \A r \in Requests : UsedBy(Buyer(r))' = UsedBy(Buyer(r))
    BY <1>1 DEF UsedBy, Buyer, CampaignInv, CheckoutTypeOK
  <2> QED BY <1>1, <2>1, <2>3, <2>4 DEF UsageIsExact, Used
<1> QED BY <1>2, <1>3, <1>4 DEF CampaignInv

\* A handler that moves on without inserting a row.
LEMMA GoesOn ==
    ASSUME CampaignInv, NEW r \in Requests, NEW s \in Place \ {"complete"},
           UNCHANGED <<input, rows, status, paid, campaign, usages, attempt>>,
           Goto(r, s), step[r] \notin {"complete", "out"}
    PROVE  CampaignInv'
<1>1. /\ step' \in [Requests -> Place] /\ step'[r] = s
      /\ \A p \in Requests : p # r => step'[p] = step[p]
  BY DEF Goto, CampaignInv, CheckoutTypeOK
<1>2. \A p \in Requests : Used(p)' <=> Used(p)
  BY DEF Used, Line, IsService
<1>3. /\ status' \in [Requests -> Status] /\ paid \subseteq paid' /\ paid' \subseteq Requests
      /\ attempt' \in [Requests -> Nat \union {NoAttempt}]
  BY DEF CampaignInv, CheckoutTypeOK
<1> QED BY <1>1, <1>2, <1>3, FrameInv

\* A handler that inserts the row of its request.
LEMMA RowIsAdded ==
    ASSUME CampaignInv, NEW r \in Requests, NEW s \in {"complete", "out"},
           NEW new \in {"PENDING", "IN_PROGRESS"},
           UNCHANGED <<input, paid, campaign, usages, attempt>>,
           Goto(r, s), AddRow(r, new), step[r] \notin {"complete", "out"},
           s = "complete" => Line(r).free
    PROVE  CampaignInv'
<1>1. /\ step' \in [Requests -> Place] /\ step'[r] = s
      /\ \A p \in Requests : p # r => step'[p] = step[p]
  BY DEF Goto, CampaignInv, CheckoutTypeOK, Place
<1>2. /\ status' \in [Requests -> Status] /\ status'[r] = new
      /\ \A p \in Requests : p # r => status'[p] = status[p]
  BY DEF AddRow, SetStatus, CampaignInv, CheckoutTypeOK, Status
<1>3. /\ rows' \in Seq(Requests) /\ ToSet(rows)' = ToSet(rows) \union {r}
      /\ ToSet(rows) \subseteq Requests /\ r \notin ToSet(rows)
  BY AddedRow, RowsAreRequests DEF AddRow, CampaignInv, RowsAreCreated
<1>4. \A p \in Requests : Line(p)' = Line(p) /\ IsService(p)' = IsService(p)
  BY DEF Line, IsService
<1>5. CheckoutTypeOK'
  BY <1>1, <1>2, <1>3 DEF CampaignInv, CheckoutTypeOK
<1>6. RowsAreCreated' /\ CompletesFree'
  BY <1>1, <1>3, <1>4 DEF CampaignInv, RowsAreCreated, CompletesFree
<1>7. AttemptHoldsRow'
  BY <1>2, <1>3, <1>4 DEF CampaignInv, AttemptHoldsRow
<1>8. UsageIsExact'
  <2>1. UsageIsExact
    BY DEF CampaignInv
  <2>2. usages = {p \in ToSet(rows) : Used(p)}
    BY <2>1 DEF UsageIsExact, Used
  <2>3. \A p \in Requests : p # r => (Used(p)' <=> Used(p))
    BY <1>2, <1>4 DEF Used
  <2>4. ~Used(r)'
    BY <1>2 DEF Used
  <2>5. usages' = {p \in ToSet(rows)' : Used(p)'}
    BY <1>3, <2>2, <2>3, <2>4
  <2>6. \A q \in Requests : UsedBy(Buyer(q))' = UsedBy(Buyer(q))
    BY <1>4 DEF UsedBy, Buyer, CampaignInv, CheckoutTypeOK
  <2> QED BY <1>4, <2>1, <2>5, <2>6 DEF UsageIsExact, Used
<1> QED BY <1>5, <1>6, <1>7, <1>8 DEF CampaignInv

\* Every step of a handler keeps the invariant.
LEMMA HandlerCounts ==
    ASSUME CampaignInv, NEW r \in Requests, HandlerStep(r), UNCHANGED input
    PROVE  CampaignInv'
<1>1. CASE /\ \E s \in Place \ {"complete"} : Goto(r, s)
           /\ step[r] \notin {"complete", "out"}
           /\ UNCHANGED <<rows, status, paid, campaign, usages, attempt>>
  BY <1>1, GoesOn
<1>2. CASE /\ \E s \in {"complete", "out"}, new \in {"PENDING", "IN_PROGRESS"} :
                Goto(r, s) /\ AddRow(r, new) /\ (s = "complete" => Line(r).free)
           /\ step[r] \notin {"complete", "out"}
           /\ UNCHANGED <<paid, campaign, usages, attempt>>
  BY <1>2, RowIsAdded
<1>3. CASE UNCHANGED checkoutVars
  <2>1. \A p \in Requests : Used(p)' <=> Used(p)
    BY <1>3 DEF Used, Line, IsService, checkoutVars
  <2> QED BY <1>3, <2>1, FrameInv DEF checkoutVars, CampaignInv, CheckoutTypeOK
<1>4. CASE Enter(r) \/ StartService(r) \/ Validate(r)
  BY <1>1, <1>4 DEF Enter, StartService, Validate, ToPrice, Reply, RowVars, Place
<1>5. CASE Look(r)
  <2>1. /\ \E s \in {"validate", "create", "out"} : Goto(r, s)
        /\ step[r] = "look" /\ UNCHANGED RowVars
    BY <1>5, Zenon DEF Look, ToPrice, Reply
  <2> QED BY <1>1, <2>1 DEF RowVars, Place
<1>6. CASE Unavailable(r) \/ Represent(r) \/ LoseCreateRace(r)
  BY <1>1, <1>6 DEF Unavailable, Represent, LoseCreateRace, Reply, RowVars, Place
<1>7. CASE CreatePurchase(r) \/ CreateService(r)
  BY <1>2, <1>7 DEF CreatePurchase, CreateService, Reply
<1>8. CASE OtherHandler(r)
  BY <1>3, <1>8 DEF OtherHandler
<1> QED BY <1>4, <1>5, <1>6, <1>7, <1>8, Zenon DEF HandlerStep

\* An outcome moves a completing request out, or nobody.
LEMMA OutcomeMoves ==
    ASSUME CampaignInv, NEW p \in Requests, NEW reply, Outcome(p, reply)
    PROVE  /\ step' \in [Requests -> Place]
           /\ \A q \in Requests :
                 step'[q] = step[q] \/ (step[q] = "complete" /\ step'[q] = "out")
BY DEF Outcome, Reply, Goto, CampaignInv, CheckoutTypeOK, Place

\* One buyer's usages, with one more.
LEMMA OneMoreUsage ==
    ASSUME CheckoutTypeOK, NEW p \in Requests \ usages,
           UNCHANGED input, usages' = usages \union {p}
    PROVE  /\ IsFiniteSet(usages') /\ Cardinality(usages') = Cardinality(usages) + 1
           /\ \A b : /\ b # Buyer(p) => UsedBy(b)' = UsedBy(b)
                     /\ b = Buyer(p) => /\ Cardinality(UsedBy(b)') = Cardinality(UsedBy(b)) + 1
                                             /\ Cardinality(UsedBy(b)) \in Nat
<1>1. IsFiniteSet(usages) /\ p \notin usages
  BY DEF CheckoutTypeOK
<1>2. IsFiniteSet(usages') /\ Cardinality(usages') = Cardinality(usages) + 1
  BY <1>1, FS_AddElement
<1>3. ASSUME NEW b
      PROVE  /\ b # Buyer(p) => UsedBy(b)' = UsedBy(b)
             /\ b = Buyer(p) => UsedBy(b)' = UsedBy(b) \union {p}
             /\ UsedBy(b) \subseteq usages
  BY DEF UsedBy, Buyer
<1>4. ASSUME NEW b, b = Buyer(p)
      PROVE  /\ Cardinality(UsedBy(b)') = Cardinality(UsedBy(b)) + 1
             /\ Cardinality(UsedBy(b)) \in Nat
  <2>1. IsFiniteSet(UsedBy(b)) /\ p \notin UsedBy(b)
    BY <1>1, <1>3, FS_Subset
  <2> QED BY <1>3, <1>4, <2>1, FS_AddElement, FS_CardinalityType
<1> QED BY <1>2, <1>3, <1>4

\* A completion that consumes the discount counts it once, for a buyer who had none.
LEMMA ConsumeCounts ==
    ASSUME CampaignInv, NEW p \in Requests, UNCHANGED input,
           attempt[p] # NoAttempt, campaign.used = attempt[p],
           Cardinality(UsedBy(Buyer(p))) < PerUserLimit,
           Consume(p), Finished(p)
    PROVE  CampaignInv'
<1>1. /\ campaign' = [campaign EXCEPT !.used = attempt[p] + 1]
      /\ usages' = usages \union {p}
      /\ UNCHANGED <<rows, paid>>
      /\ attempt' = [attempt EXCEPT ![p] = NoAttempt]
      /\ status' = [status EXCEPT ![p] = "COMPLETED"]
  BY DEF Consume, Finished, SetStatus
<1>2. /\ p \in ToSet(rows) /\ ~IsService(p) /\ Line(p).coupon /\ status[p] = "PENDING"
      /\ ToSet(rows)' = ToSet(rows) /\ ToSet(rows) \subseteq Requests
  BY <1>1, RowsAreRequests DEF CampaignInv, AttemptHoldsRow, ToSet
<1>3. /\ UsageIsExact /\ usages = {q \in ToSet(rows) : Used(q)}
      /\ p \notin usages
  BY <1>2 DEF CampaignInv, UsageIsExact, Used
<1>4. \A q \in Requests : Line(q)' = Line(q) /\ IsService(q)' = IsService(q)
  BY DEF Line, IsService
<1>5. /\ status' \in [Requests -> Status] /\ status'[p] = "COMPLETED"
      /\ \A q \in Requests : q # p => status'[q] = status[q]
      /\ attempt' \in [Requests -> Nat \union {NoAttempt}] /\ attempt'[p] = NoAttempt
      /\ \A q \in Requests : q # p => attempt'[q] = attempt[q]
  BY <1>1 DEF CampaignInv, CheckoutTypeOK, Status
<1>6. /\ campaign' \in [active : BOOLEAN, limit : Nat, used : Nat]
      /\ campaign'.used = campaign.used + 1
  BY <1>1 DEF CampaignInv, CheckoutTypeOK
<1>7. /\ step' \in [Requests -> Place]
      /\ \A q \in Requests :
            step'[q] = step[q] \/ (step[q] = "complete" /\ step'[q] = "out")
  BY OutcomeMoves DEF Consume
<1>8. /\ IsFiniteSet(usages') /\ Cardinality(usages') = Cardinality(usages) + 1
      /\ \A b : /\ b # Buyer(p) => UsedBy(b)' = UsedBy(b)
                /\ b = Buyer(p) => /\ Cardinality(UsedBy(b)') = Cardinality(UsedBy(b)) + 1
                                        /\ Cardinality(UsedBy(b)) \in Nat
  BY <1>1, <1>3, OneMoreUsage DEF CampaignInv
<1>9. CheckoutTypeOK'
  BY <1>1, <1>5, <1>6, <1>7, <1>8 DEF CampaignInv, CheckoutTypeOK
<1>10. RowsAreCreated' /\ CompletesFree'
  BY <1>2, <1>4, <1>7 DEF CampaignInv, RowsAreCreated, CompletesFree
<1>11. AttemptHoldsRow'
  BY <1>1, <1>2, <1>4, <1>5 DEF CampaignInv, AttemptHoldsRow
<1>12. UsageIsExact'
  <2>1. campaign'.used = Cardinality(usages')
    BY <1>3, <1>6, <1>8 DEF UsageIsExact
  <2>2. ASSUME NEW q \in Requests, NEW b, b = Buyer(q)
        PROVE  Cardinality(UsedBy(b)') <= PerUserLimit
    <3>1. CASE b = Buyer(p)
      BY <1>8, <3>1 DEF PerUserLimit
    <3>2. CASE b # Buyer(p)
      BY <1>3, <1>8, <2>2, <3>2 DEF UsageIsExact
    <3> QED BY <3>1, <3>2
  <2>3. ASSUME NEW q \in Requests
        PROVE  Cardinality(UsedBy(Buyer(q)))' <= PerUserLimit
    <3>1. PICK b : b = Buyer(q)
      OBVIOUS
    <3>2. UsedBy(Buyer(q))' = UsedBy(b)'
      BY <3>1 DEF UsedBy, Buyer
    <3> QED BY <2>2, <3>1, <3>2
  <2>4. Used(p)' /\ \A q \in Requests : q # p => (Used(q)' <=> Used(q))
    BY <1>2, <1>4, <1>5 DEF Used
  <2>5. usages' = {q \in ToSet(rows)' : Used(q)'}
    BY <1>1, <1>2, <1>3, <2>4
  <2> QED BY <2>1, <2>3, <2>5 DEF UsageIsExact, Used
<1> QED BY <1>9, <1>10, <1>11, <1>12 DEF CampaignInv

\* Every step of a completion keeps the invariant.
LEMMA CompletionCounts ==
    ASSUME CampaignInv, NEW p \in Requests, CompletionStep(p), UNCHANGED input
    PROVE  CampaignInv'
<1>1. /\ paid \subseteq Requests /\ status \in [Requests -> Status]
      /\ attempt \in [Requests -> Nat \union {NoAttempt}] /\ campaign.used \in Nat
      /\ step \in [Requests -> Place]
  BY DEF CampaignInv, CheckoutTypeOK
<1>2. CASE CompleteWithoutDiscount(p)
  <2>1. /\ status' = [status EXCEPT ![p] = "COMPLETED"] /\ Outcome(p, p) /\ ~Line(p).coupon
        /\ attempt[p] = NoAttempt
        /\ UNCHANGED <<rows, paid, campaign, usages, attempt>>
    BY <1>2 DEF CompleteWithoutDiscount, SetStatus, MayComplete
  <2>2. /\ status' \in [Requests -> Status]
        /\ \A q \in Requests : q # p => status'[q] = status[q]
    BY <1>1, <2>1 DEF Status
  <2>3. \A q \in Requests : Used(q)' <=> Used(q)
    BY <2>1, <2>2 DEF Used, Line, IsService
  <2> QED BY <1>1, <2>1, <2>2, <2>3, OutcomeMoves, FrameInv
<1>3. CASE ReadCampaign(p)
  <2>1. /\ MayComplete(p) /\ Line(p).coupon
        /\ attempt' = attempt \/ attempt' = [attempt EXCEPT ![p] = campaign.used]
        /\ step' = step \/ (step[p] = "complete" /\ Goto(p, "out"))
        /\ UNCHANGED <<rows, status, paid, campaign, usages>>
    BY <1>3, Zenon DEF ReadCampaign, Reply
  <2>2. /\ step' \in [Requests -> Place]
        /\ \A q \in Requests : step'[q] = step[q] \/ (step[q] = "complete" /\ step'[q] = "out")
    BY <1>1, <2>1 DEF Goto, Place
  <2>3. /\ attempt' \in [Requests -> Nat \union {NoAttempt}]
        /\ \A q \in Requests : attempt'[q] = attempt[q] \/ q = p
    BY <1>1, <2>1
  <2>4. /\ p \in ToSet(rows) /\ ~IsService(p) /\ Line(p).coupon /\ status[p] = "PENDING"
        /\ p \in paid \/ Line(p).free
    BY <2>1 DEF MayComplete, CampaignInv, CompletesFree
  <2>5. /\ \A q \in Requests : Line(q)' = Line(q) /\ IsService(q)' = IsService(q)
        /\ ToSet(rows)' = ToSet(rows) /\ ToSet(rows) \subseteq Requests
    BY <2>1, RowsAreRequests DEF Line, IsService, ToSet, CampaignInv
  <2>6. AttemptHoldsRow'
    BY <2>1, <2>3, <2>4, <2>5 DEF CampaignInv, AttemptHoldsRow
  <2>7. CheckoutTypeOK'
    BY <2>1, <2>2, <2>3 DEF CampaignInv, CheckoutTypeOK
  <2>8. RowsAreCreated' /\ CompletesFree'
    BY <2>2, <2>5 DEF CampaignInv, RowsAreCreated, CompletesFree
  <2>9. UsageIsExact'
    <3>1. UNCHANGED <<campaign, usages, rows, status, input>>
      BY <2>1
    <3> QED BY <3>1 DEF CampaignInv, UsageIsExact, UsedBy, Buyer, Line, IsService, ToSet
  <2> QED BY <2>6, <2>7, <2>8, <2>9 DEF CampaignInv
<1>4. CASE ConsumeDiscount(p)
  <2>1. CASE /\ campaign.used = attempt[p]
             /\ Cardinality(UsedBy(Buyer(p))) < PerUserLimit
    BY <1>4, <2>1, ConsumeCounts DEF ConsumeDiscount
  <2>2. CASE ~(/\ campaign.used = attempt[p]
               /\ Cardinality(UsedBy(Buyer(p))) < PerUserLimit)
    <3>1. /\ Outcome(p, "rejected") /\ attempt' = [attempt EXCEPT ![p] = NoAttempt]
          /\ UNCHANGED <<rows, paid, campaign, usages, status>>
      BY <1>4, <2>2 DEF ConsumeDiscount, Refuse, Finished
    <3>2. /\ attempt' \in [Requests -> Nat \union {NoAttempt}]
          /\ \A q \in Requests : attempt'[q] = attempt[q] \/ attempt'[q] = NoAttempt
      BY <1>1, <3>1
    <3>3. \A q \in Requests : Used(q)' <=> Used(q)
      BY <3>1 DEF Used, Line, IsService
    <3> QED BY <1>1, <3>1, <3>2, <3>3, OutcomeMoves, FrameInv
  <2> QED BY <2>1, <2>2
<1>5. CASE MarkServicePaid(p)
  <2>1. /\ status' = [status EXCEPT ![p] = "IN_PROGRESS"] /\ IsService(p)
        /\ UNCHANGED <<step, rows, paid, campaign, usages, attempt>>
    BY <1>5 DEF MarkServicePaid, SetStatus
  <2>2. /\ status' \in [Requests -> Status]
        /\ \A q \in Requests : q # p => status'[q] = status[q]
    BY <1>1, <2>1 DEF Status
  <2>3. attempt[p] = NoAttempt
    BY <2>1 DEF CampaignInv, AttemptHoldsRow
  <2>4. \A q \in Requests : Used(q)' <=> Used(q)
    BY <2>1, <2>2 DEF Used, Line, IsService
  <2> QED BY <1>1, <2>1, <2>2, <2>3, <2>4, FrameInv
<1> QED BY <1>2, <1>3, <1>4, <1>5 DEF CompletionStep

\* So do the provider, the seller and a process that stops.
LEMMA WorldCounts ==
    ASSUME CampaignInv, UNCHANGED input,
           \/ \E p \in Requests : Pay(p) \/ Close(p) \/ Refund(p) \/ Freeze(p) \/ Thaw(p)
           \/ Toggle
           \/ \E i \in Instances : Crash(i)
    PROVE  CampaignInv'
<1>1. /\ paid \subseteq Requests /\ status \in [Requests -> Status]
      /\ attempt \in [Requests -> Nat \union {NoAttempt}]
      /\ step \in [Requests -> Place]
  BY DEF CampaignInv, CheckoutTypeOK
<1>2. ASSUME NEW p \in Requests, Pay(p)
      PROVE  CampaignInv'
  <2>1. /\ paid' = paid \union {p}
        /\ UNCHANGED <<step, rows, status, campaign, usages, attempt>>
    BY <1>2 DEF Pay
  <2>2. \A q \in Requests : Used(q)' <=> Used(q)
    BY <2>1 DEF Used, Line, IsService
  <2> QED BY <1>1, <2>1, <2>2, FrameInv
<1>3. ASSUME NEW p \in Requests, Close(p) \/ Refund(p) \/ Freeze(p) \/ Thaw(p)
      PROVE  CampaignInv'
  <2>1. /\ \/ Close(p) /\ status[p] = "PENDING" /\ status' = [status EXCEPT ![p] = "FAILED"]
           \/ Refund(p) /\ status[p] = "COMPLETED" /\ status' = [status EXCEPT ![p] = "REFUNDED"]
           \/ Freeze(p) /\ status[p] = "COMPLETED" /\ status' = [status EXCEPT ![p] = "DISPUTED"]
           \/ Thaw(p) /\ status[p] = "DISPUTED" /\ status' = [status EXCEPT ![p] = "COMPLETED"]
        /\ UNCHANGED <<step, rows, paid, campaign, usages, attempt>>
    BY <1>3 DEF Close, Refund, Freeze, Thaw, SetStatus
  <2>2. /\ status' \in [Requests -> Status]
        /\ \A q \in Requests : q # p => status'[q] = status[q]
    BY <1>1, <2>1 DEF Status
  <2>3. attempt[p] = NoAttempt
    BY <2>1 DEF Close, CampaignInv, AttemptHoldsRow
  <2>4. \A q \in Requests : Used(q)' <=> Used(q)
    <3>1. Used(p)' <=> Used(p)
      BY <1>1, <2>1 DEF Used, Line, IsService
    <3>2. \A q \in Requests : q # p => (Used(q)' <=> Used(q))
      BY <2>2 DEF Used, Line, IsService
    <3> QED BY <3>1, <3>2
  <2> QED BY <1>1, <2>1, <2>2, <2>3, <2>4, FrameInv
<1>4. CASE Toggle
  <2>1. /\ campaign' = [campaign EXCEPT !.active = ~@]
        /\ UNCHANGED <<step, rows, status, paid, usages, attempt>>
    BY <1>4 DEF Toggle
  <2>2. /\ campaign' \in [active : BOOLEAN, limit : Nat, used : Nat]
        /\ campaign'.used = campaign.used
    BY <2>1 DEF CampaignInv, CheckoutTypeOK
  <2>3. CheckoutTypeOK'
    BY <2>1, <2>2 DEF CampaignInv, CheckoutTypeOK
  <2>4. RowsAreCreated' /\ CompletesFree' /\ AttemptHoldsRow'
    BY <2>1 DEF CampaignInv, RowsAreCreated, CompletesFree, AttemptHoldsRow, Line, IsService, ToSet
  <2>5. UsageIsExact'
    BY <2>1, <2>2 DEF CampaignInv, UsageIsExact, UsedBy, Buyer, Line, IsService, ToSet
  <2> QED BY <2>3, <2>4, <2>5 DEF CampaignInv
<1>5. ASSUME NEW i \in Instances, Crash(i)
      PROVE  CampaignInv'
  <2>1. /\ UNCHANGED <<step, rows, status, paid, campaign, usages>>
        /\ attempt' \in [Requests -> Nat \union {NoAttempt}]
        /\ \A q \in Requests : attempt'[q] = attempt[q] \/ attempt'[q] = NoAttempt
    BY <1>1, <1>5 DEF Crash
  <2>2. \A q \in Requests : Used(q)' <=> Used(q)
    BY <2>1 DEF Used, Line, IsService
  <2> QED BY <1>1, <2>1, <2>2, FrameInv
<1> QED BY <1>2, <1>3, <1>4, <1>5

\* Before anybody buys.
LEMMA CampaignInit == CheckoutInit => CampaignInv
<1> SUFFICES ASSUME CheckoutInit
             PROVE  CampaignInv
  OBVIOUS
<1>1. CheckoutTypeOK
  BY FS_EmptySet, CheckoutAssumption DEF CheckoutInit, CheckoutTypeOK, Place, Status
<1>2. ToSet(rows) = {} /\ usages = {} /\ campaign.used = 0
  BY DEF CheckoutInit, ToSet
<1>3. RowsAreCreated /\ CompletesFree /\ AttemptHoldsRow
  BY <1>2 DEF CheckoutInit, RowsAreCreated, CompletesFree, AttemptHoldsRow
<1>4. UsageIsExact
  <2>1. \A r \in Requests : UsedBy(Buyer(r)) = {}
    BY <1>2 DEF UsedBy
  <2> QED BY <1>2, <2>1, FS_EmptySet DEF UsageIsExact, PerUserLimit
<1> QED BY <1>1, <1>3, <1>4 DEF CampaignInv

\* The campaign's books, in every reachable state.
THEOREM CampaignInvariant == CheckoutSpec => []CampaignInv
<1>1. CampaignInv /\ [CheckoutNext]_vars => CampaignInv'
  <2> SUFFICES ASSUME CampaignInv, [CheckoutNext]_vars
               PROVE  CampaignInv'
    OBVIOUS
  <2>1. input' = input
    BY InputIsFixed
  <2>2. CASE UNCHANGED checkoutVars
    <3>1. \A p \in Requests : Used(p)' <=> Used(p)
      BY <2>1, <2>2 DEF Used, Line, IsService, checkoutVars
    <3> QED BY <2>1, <2>2, <3>1, FrameInv DEF checkoutVars, CampaignInv, CheckoutTypeOK
  <2>3. UNCHANGED vars => UNCHANGED checkoutVars
    BY DEF vars, checkoutVars
  <2> QED BY <2>1, <2>2, <2>3, HandlerCounts, CompletionCounts, WorldCounts, Zenon
          DEF CheckoutNext, RequestStep
<1> QED BY <1>1, CampaignInit, PTL DEF CheckoutSpec

\* The counter of the campaign, the usage rows and the completed discounted
\* purchases agree, and no buyer uses the campaign twice, however many completion
\* transactions overlap, abort or are cut off, in any number of processes.
THEOREM UsageIsAlwaysExact == CheckoutSpec => []UsageIsExact
<1>1. CampaignInv => UsageIsExact
  BY DEF CampaignInv
<1> QED BY <1>1, CampaignInvariant, PTL
=============================================================================
