---------------------------- MODULE PublicationProofs ----------------------------
(***************************************************************************)
(* Proofs about the way of a resource to the catalogue, for every set of   *)
(* versions and handlers: no unsigned version lingers, and a suspension is *)
(* lifted by moderators or by requests that were checked before it.        *)
(***************************************************************************)
EXTENDS Announcements, TLAPS

\* Where a handler may be: making a version, deciding as a moderator, announcing.
Making == {"row", "copy", "validate", "sign", "cleanup", "reenter"}
Deciding == {"list", "gate", "begin", "commit"}
Pc == Making \union Deciding \union {"idle", "patch", "verify", "buy", "next", "tell"}

CallType ==
    [pc : Pc, by : {"none", "seller", "admin", "buyer", "worker", "sweep"},
     on : Versions \union {"none"}, seen : ResourceStatus \union {"none"},
     to : ResourceStatus \union {"none", "rollback"},
     todo : SUBSET Versions, who : SUBSET Recipients]

\* What the local state of a handler says about itself.
CallOK(r) ==
    /\ r \in CallType
    /\ r.pc \in Making => r.by = "seller" /\ r.on \in Versions
    /\ r.pc \in Deciding => r.by = "admin" /\ r.to \in ResourceStatus
    /\ r.pc = "patch" => r.seen # "SUSPENDED" /\ r.to \in ResourceStatus
    /\ r.pc \in {"verify", "buy", "tell"} => r.on \in Versions

PublicationTypeOK ==
    /\ call = [c \in Calls |-> call[c]] /\ \A c \in Calls : CallOK(call[c])
    /\ load \in Workloads /\ faults \in Int /\ faults <= load.losses
    /\ status \in ResourceStatus
    /\ versions \in [Versions -> VersionRow]

\* A version is made by one request at a time, ...
OneMaker ==
    \A c, d \in Calls : c # d /\ call[c].pc \in Making /\ call[d].pc \in Making =>
        call[c].on # call[d].on
\* ... which goes on to sign it only as long as its validation has not failed, ...
PassesUntilSigned ==
    \A c \in Calls : call[c].pc \in {"validate", "sign"} => ~versions[call[c].on].failed
\* ... and leaves it signed or removes it, unless it was bought, a call was lost or a
\* statement failed.
Unsigned(v) == versions[v].state # "none" /\ ~(versions[v].signed /\ ~versions[v].failed)
Settling == {"validate", "sign", "cleanup"}
Settles(c, v) == call[c].pc \in Settling /\ call[c].on = v
UnsignedIsSettled ==
    \A v \in Versions : Unsigned(v) =>
        v \in bought \/ faults < load.losses \/ \E c \in Calls : Settles(c, v)

\* What is recent was made before.
RecentOK == recent \subseteq Versions

PublicationInv ==
    /\ PublicationTypeOK
    /\ OneMaker
    /\ PassesUntilSigned
    /\ UnsignedIsSettled

\* A step of one handler that leaves every version signed, or in the hands of the
\* request that makes it.
LEMMA HandlerMoves ==
    ASSUME PublicationInv, NEW c \in Calls, NEW new, CallOK(new),
           call' = [call EXCEPT ![c] = new],
           load' = load, faults' = faults \/ faults' = faults - 1, bought \subseteq bought',
           status' \in ResourceStatus, versions' \in [Versions -> VersionRow],
           new.pc \in Making =>
               ~Handled(new.on) \/ (call[c].pc \in Making /\ new.on = call[c].on),
           new.pc \in {"validate", "sign"} => ~versions'[new.on].failed,
           \A v \in Versions :
             /\ versions'[v].failed # versions[v].failed =>
                    call[c].pc \in Making /\ v = call[c].on
             /\ Unsigned(v)' =>
                    \/ Unsigned(v) /\ ~Settles(c, v)
                    \/ v \in bought'
                    \/ new.pc \in Settling /\ new.on = v
                    \/ faults' = faults - 1
    PROVE  PublicationInv'
<1>1. /\ call'[c] = new /\ \A d \in Calls : d # c => call'[d] = call[d]
      /\ call' = [d \in Calls |-> call'[d]]
  BY DEF PublicationInv, PublicationTypeOK
<1>2. PublicationTypeOK' /\ (faults' = faults - 1 => faults' < load.losses)
  BY <1>1, PublicationAssumption DEF PublicationInv, PublicationTypeOK, CallOK, CallType, Recipients
<1>3. OneMaker'
  <2>1. \A d \in Calls : call[d].pc \in Making => Handled(call[d].on)
    BY DEF PublicationInv, PublicationTypeOK, CallOK, Handled
  <2> QED BY <1>1, <2>1 DEF PublicationInv, OneMaker
<1>4. PassesUntilSigned'
  <2> SUFFICES ASSUME NEW d \in Calls, call'[d].pc \in {"validate", "sign"}
               PROVE  ~versions'[call'[d].on].failed
    BY DEF PassesUntilSigned
  <2>1. CASE d # c
    <3>1. /\ call'[d] = call[d] /\ call[d].pc \in Making /\ call[d].on \in Versions
          /\ ~versions[call[d].on].failed
      BY <1>1, <2>1 DEF PublicationInv, PublicationTypeOK, CallOK, PassesUntilSigned, Making
    <3>2. ~(call[c].pc \in Making /\ call[d].on = call[c].on)
      BY <2>1, <3>1 DEF PublicationInv, OneMaker
    <3>3. versions'[call[d].on].failed = versions[call[d].on].failed
      BY <3>1, <3>2
    <3> QED BY <3>1, <3>3
  <2> QED BY <1>1, <2>1
<1>5. UnsignedIsSettled'
  <2> SUFFICES ASSUME NEW v \in Versions, Unsigned(v)', faults' = faults,
                      v \notin bought', ~(faults < load.losses)
               PROVE  \E d \in Calls : Settles(d, v)'
    BY <1>2 DEF UnsignedIsSettled
  <2>1. CASE new.pc \in Settling /\ new.on = v
    BY <1>1, <2>1 DEF Settles
  <2>2. CASE Unsigned(v) /\ ~Settles(c, v)
    <3>1. PICK d \in Calls : Settles(d, v)
      BY <2>2 DEF PublicationInv, UnsignedIsSettled
    <3> QED BY <1>1, <2>2, <3>1 DEF Settles
  <2>3. faults' # faults - 1
    BY DEF PublicationInv, PublicationTypeOK
  <2> QED BY <2>1, <2>2, <2>3
<1> QED BY <1>2, <1>3, <1>4, <1>5 DEF PublicationInv

\* A step of a handler that touches no version.
LEMMA VersionsStay ==
    ASSUME PublicationInv, NEW c \in Calls, NEW new, CallOK(new),
           call' = [call EXCEPT ![c] = new],
           load' = load, faults' = faults \/ faults' = faults - 1, bought \subseteq bought',
           status' \in ResourceStatus, versions' = versions,
           new.pc \in Making =>
               ~Handled(new.on) \/ (call[c].pc \in Making /\ new.on = call[c].on),
           new.pc \in {"validate", "sign"} => call[c].pc = "validate",
           call[c].pc \in Settling => new.pc \in Settling,
           new.pc \in Settling => call[c].pc \in Settling /\ new.on = call[c].on
    PROVE  PublicationInv'
<1>1. call[c].pc = "validate" => ~versions[call[c].on].failed
  BY DEF PublicationInv, PassesUntilSigned
<1>2. \A v \in Versions : Unsigned(v)' =>
         \/ Unsigned(v) /\ ~Settles(c, v)
         \/ new.pc \in Settling /\ new.on = v
  BY DEF Unsigned, Settles
<1>3. versions' \in [Versions -> VersionRow]
  BY DEF PublicationInv, PublicationTypeOK
<1>4. new.pc \in {"validate", "sign"} => ~versions'[new.on].failed
  BY <1>1 DEF Settling
<1>5. \A v \in Versions : versions'[v].failed = versions[v].failed
  OBVIOUS
<1> QED BY <1>2, <1>3, <1>4, <1>5, HandlerMoves

\* The rows of one version, changed.
LEMMA OneVersion ==
    ASSUME PublicationTypeOK, NEW v \in Versions, NEW row \in VersionRow,
           versions' = [versions EXCEPT ![v] = row]
    PROVE  /\ versions' \in [Versions -> VersionRow] /\ versions'[v] = row
           /\ \A u \in Versions : u # v =>
                 versions'[u] = versions[u] /\ Unsigned(u)' = Unsigned(u)
BY DEF PublicationTypeOK, Unsigned

\* A handler goes on to p.
LEMMA GoingOn ==
    ASSUME PublicationTypeOK, NEW c \in Calls, NEW p \in Pc, Continue(c, p)
    PROVE  \E new \in CallType :
             /\ call' = [call EXCEPT ![c] = new]
             /\ new.pc = p /\ new.by = call[c].by /\ new.on = call[c].on
             /\ new.seen = call[c].seen /\ new.to = call[c].to /\ new.todo = call[c].todo
             /\ new.who = call[c].who
<1> DEFINE new == [call[c] EXCEPT !.pc = p]
<1>1. call[c] \in CallType
  BY DEF PublicationTypeOK, CallOK
<1>2. /\ new \in CallType
      /\ new.pc = p /\ new.by = call[c].by /\ new.on = call[c].on
      /\ new.seen = call[c].seen /\ new.to = call[c].to /\ new.todo = call[c].todo
      /\ new.who = call[c].who
  BY <1>1 DEF CallType
<1>3. call' = [call EXCEPT ![c] = new]
  BY DEF Continue
<1> QED BY <1>2, <1>3

\* A handler that has nothing to do.
LEMMA IdleIsOK == CallOK(Idle) /\ Idle.pc = "idle" /\ Idle.pc \notin Making \union Settling
BY DEF CallOK, Idle, CallType, Pc, Making, Deciding, Settling

\* The seller's requests
LEMMA UploadInv ==
    ASSUME PublicationInv, NEW c \in Calls, NEW v \in Versions,
           Upload(c, v) \/ Rollback(c, v)
    PROVE  PublicationInv'
<1>1. PICK new : /\ call' = [call EXCEPT ![c] = new]
                 /\ \/ new = [Idle EXCEPT !.pc = "row", !.by = "seller", !.on = v, !.seen = status]
                    \/ new = [Idle EXCEPT !.pc = "copy", !.by = "seller", !.on = v, !.to = "rollback"]
                 /\ ~Handled(v) /\ call[c].pc = "idle" /\ UNCHANGED <<load, faults, rowVars>>
  BY DEF Upload, Rollback, Begin, At, Occurs
<1>2. \E p \in {"row", "copy"}, seen \in ResourceStatus \union {"none"},
        to \in {"none", "rollback"} :
         new = [pc |-> p, by |-> "seller", on |-> v, seen |-> seen, to |-> to,
                todo |-> {}, who |-> {}]
  BY <1>1 DEF Idle, PublicationInv, PublicationTypeOK
<1>3. CallOK(new) /\ new.on = v /\ new.pc \notin Settling
  BY <1>2 DEF CallOK, CallType, Pc, Making, Deciding, Settling
<1> QED BY <1>1, <1>3, VersionsStay DEF rowVars, Settling, PublicationInv, PublicationTypeOK

\* The row of an uploaded version, or of the copy a rollback publishes.
LEMMA CreateRowInv ==
    ASSUME PublicationInv, NEW c \in Calls, CreateRow(c) \/ CopyRow(c)
    PROVE  PublicationInv'
<1>1. PICK p \in {"validate", "sign"}, s \in {"CANDIDATE", "PUBLISHED"} :
         /\ call[c].pc \in {"row", "copy"} /\ Continue(c, p)
         /\ versions' = [versions EXCEPT ![call[c].on] = Row(s)]
         /\ UNCHANGED <<load, faults, status, bought>>
  BY DEF CreateRow, CopyRow, At, Carried
<1>2. PICK new \in CallType : /\ call' = [call EXCEPT ![c] = new]
                              /\ new.pc = p /\ new.by = call[c].by /\ new.on = call[c].on
  BY <1>1, GoingOn DEF PublicationInv, Pc, Making
<1>3. PICK v \in Versions : call[c].on = v /\ call[c].by = "seller"
  BY <1>1 DEF PublicationInv, PublicationTypeOK, CallOK, Making
<1>4. CallOK(new)
  BY <1>2, <1>3 DEF CallOK, Deciding, Making
<1>5. Row(s) \in VersionRow /\ ~Row(s).failed
  BY DEF Row, Absent, VersionRow
<1>6. /\ versions' \in [Versions -> VersionRow] /\ versions'[v] = Row(s)
      /\ \A u \in Versions : u # v => versions'[u] = versions[u] /\ Unsigned(u)' = Unsigned(u)
  BY <1>1, <1>3, <1>5, OneVersion DEF PublicationInv
<1> QED BY <1>1, <1>2, <1>3, <1>4, <1>5, <1>6, HandlerMoves
        DEF Making, Settling, Settles, PublicationInv, PublicationTypeOK

\* A handler that makes a version: it is the only one, and knows which.
LEMMA Maker ==
    ASSUME PublicationInv, NEW c \in Calls, call[c].pc \in Making
    PROVE  \E v \in Versions :
             /\ call[c].on = v /\ call[c].by = "seller" /\ versions[v] \in VersionRow
             /\ call[c].pc \in {"validate", "sign"} => ~versions[v].failed
BY DEF PublicationInv, PublicationTypeOK, CallOK, PassesUntilSigned

\* A row with one field changed is a row.
LEMMA ChangedRow ==
    ASSUME NEW row \in VersionRow, NEW b \in BOOLEAN
    PROVE  /\ [row EXCEPT !.signed = b] \in VersionRow
           /\ [row EXCEPT !.signed = b].failed = row.failed
           /\ [row EXCEPT !.signed = b].signed = b
           /\ [row EXCEPT !.failed = b] \in VersionRow
           /\ \A s \in {"CANDIDATE", "VERIFIED", "PUBLISHED", "YANKED"} :
                 /\ [row EXCEPT !.state = s] \in VersionRow
                 /\ [row EXCEPT !.state = s].signed = row.signed
                 /\ [row EXCEPT !.state = s].failed = row.failed
BY DEF VersionRow

\* Validation passes, fails or throws.
LEMMA ValidateInv ==
    ASSUME PublicationInv, NEW c \in Calls, Validate(c)
    PROVE  PublicationInv'
<1>1. call[c].pc = "validate" /\ UNCHANGED <<load, faults, status, bought>>
  BY DEF Validate, At, Carried
<1>2. PICK v \in Versions : /\ call[c].on = v /\ call[c].by = "seller"
                            /\ versions[v] \in VersionRow /\ ~versions[v].failed
  BY <1>1, Maker DEF Making
<1>3. CASE Continue(c, "sign") /\ UNCHANGED versions
  <2>1. PICK new \in CallType : /\ call' = [call EXCEPT ![c] = new]
                                /\ new.pc = "sign" /\ new.by = "seller" /\ new.on = v
    BY <1>2, <1>3, GoingOn DEF PublicationInv, Pc, Making
  <2>2. CallOK(new)
    BY <2>1 DEF CallOK, Deciding
  <2> QED BY <1>1, <1>2, <1>3, <2>1, <2>2, VersionsStay
          DEF Settling, Making, PublicationInv, PublicationTypeOK
<1>4. CASE /\ Continue(c, "cleanup")
           /\ \E verdict \in BOOLEAN :
                versions' = [versions EXCEPT ![call[c].on].failed = verdict]
  <2>1. PICK new \in CallType : /\ call' = [call EXCEPT ![c] = new]
                                /\ new.pc = "cleanup" /\ new.by = "seller" /\ new.on = v
    BY <1>2, <1>4, GoingOn DEF PublicationInv, Pc, Making
  <2>2. CallOK(new)
    BY <2>1 DEF CallOK, Deciding
  <2>3. PICK row \in VersionRow : versions' = [versions EXCEPT ![v] = row]
    <3>1. PICK b \in BOOLEAN : versions' = [versions EXCEPT ![v].failed = b]
      BY <1>2, <1>4
    <3>2. versions' = [versions EXCEPT ![v] = [versions[v] EXCEPT !.failed = b]]
      BY <3>1
    <3>3. [versions[v] EXCEPT !.failed = b] \in VersionRow
      BY <1>2, ChangedRow
    <3> QED BY <3>2, <3>3
  <2>4. /\ versions' \in [Versions -> VersionRow]
        /\ \A u \in Versions : u # v => versions'[u] = versions[u] /\ Unsigned(u)' = Unsigned(u)
    BY <2>3, OneVersion DEF PublicationInv
  <2> QED BY <1>1, <1>2, <2>1, <2>2, <2>4, HandlerMoves
          DEF Settling, Settles, Making, PublicationInv, PublicationTypeOK
<1> QED BY <1>3, <1>4 DEF Validate

\* Signing ends a rollback, leads an upload on, or throws.
LEMMA SignInv ==
    ASSUME PublicationInv, NEW c \in Calls, Sign(c)
    PROVE  PublicationInv'
<1>1. call[c].pc = "sign" /\ UNCHANGED <<load, faults, status, bought>>
  BY DEF Sign, At, Carried
<1>2. PICK v \in Versions : /\ call[c].on = v /\ call[c].by = "seller"
                            /\ versions[v] \in VersionRow /\ ~versions[v].failed
  BY <1>1, Maker DEF Making
<1>3. CASE Continue(c, "cleanup") /\ UNCHANGED versions
  <2>1. PICK new \in CallType : /\ call' = [call EXCEPT ![c] = new]
                                /\ new.pc = "cleanup" /\ new.by = "seller" /\ new.on = v
    BY <1>2, <1>3, GoingOn DEF PublicationInv, Pc, Making
  <2>2. CallOK(new)
    BY <2>1 DEF CallOK, Deciding
  <2> QED BY <1>1, <1>2, <1>3, <2>1, <2>2, VersionsStay
          DEF Settling, Making, PublicationInv, PublicationTypeOK
<1>4. CASE /\ IF call[c].to = "rollback" THEN Return(c) ELSE Continue(c, "reenter")
           /\ versions' = [versions EXCEPT ![call[c].on].signed = TRUE]
  <2>1. PICK new : /\ call' = [call EXCEPT ![c] = new] /\ CallOK(new)
                   /\ new.pc \notin Settling
                   /\ new.pc \in Making => new.on = v
    <3>1. CASE Return(c)
      BY <3>1, IdleIsOK DEF Return
    <3>2. CASE Continue(c, "reenter")
      <4>1. PICK new \in CallType : /\ call' = [call EXCEPT ![c] = new]
                                    /\ new.pc = "reenter" /\ new.by = "seller" /\ new.on = v
        BY <1>2, <3>2, GoingOn DEF PublicationInv, Pc, Making
      <4> QED BY <4>1 DEF CallOK, Deciding, Settling
    <3> QED BY <1>4, <3>1, <3>2
  <2>2. PICK row \in VersionRow : /\ versions' = [versions EXCEPT ![v] = row]
                                  /\ row.signed /\ ~row.failed
    <3>1. versions' = [versions EXCEPT ![v] = [versions[v] EXCEPT !.signed = TRUE]]
      BY <1>2, <1>4
    <3>2. /\ [versions[v] EXCEPT !.signed = TRUE] \in VersionRow
          /\ [versions[v] EXCEPT !.signed = TRUE].signed
          /\ ~[versions[v] EXCEPT !.signed = TRUE].failed
      BY <1>2, ChangedRow
    <3> QED BY <3>1, <3>2
  <2>3. /\ versions' \in [Versions -> VersionRow] /\ versions'[v] = row
        /\ \A u \in Versions : u # v => versions'[u] = versions[u] /\ Unsigned(u)' = Unsigned(u)
    BY <2>2, OneVersion DEF PublicationInv
  <2>4. \A u \in Versions : Unsigned(u)' => Unsigned(u) /\ ~Settles(c, u)
    BY <1>2, <2>2, <2>3 DEF Unsigned, Settles
  <2> QED BY <1>1, <1>2, <2>1, <2>2, <2>3, <2>4, HandlerMoves
          DEF Making, Settling, PublicationInv, PublicationTypeOK
<1> QED BY <1>3, <1>4 DEF Sign

\* What was made and did not pass is removed, unless the row was bought or its delete
\* fails.
LEMMA CleanupInv ==
    ASSUME PublicationInv, NEW c \in Calls, Cleanup(c)
    PROVE  PublicationInv'
<1>1. /\ call[c].pc = "cleanup" /\ UNCHANGED <<load, status, bought>>
      /\ call' = [call EXCEPT ![c] = Idle]
  BY DEF Cleanup, At, Carried, Fault, Return
<1>2. PICK v \in Versions : call[c].on = v
  BY <1>1, Maker DEF Making
<1>3. CASE versions' = [versions EXCEPT ![call[c].on] = Absent] /\ faults' = faults
  <2>1. Absent \in VersionRow /\ Absent.state = "none"
    BY DEF Absent, VersionRow
  <2>2. /\ versions' \in [Versions -> VersionRow] /\ versions'[v] = Absent
        /\ \A u \in Versions : u # v => versions'[u] = versions[u] /\ Unsigned(u)' = Unsigned(u)
    BY <1>2, <1>3, <2>1, OneVersion DEF PublicationInv
  <2>3. \A u \in Versions : Unsigned(u)' => Unsigned(u) /\ ~Settles(c, u)
    BY <1>2, <2>1, <2>2 DEF Unsigned, Settles
  <2> QED BY <1>1, <1>2, <1>3, <2>2, <2>3, IdleIsOK, HandlerMoves
          DEF Making, PublicationInv, PublicationTypeOK
<1>4. CASE versions' = versions /\ ((v \in bought /\ faults' = faults) \/ faults' = faults - 1)
  <2>1. \A u \in Versions : Unsigned(u)' =>
           (Unsigned(u) /\ ~Settles(c, u)) \/ u \in bought' \/ faults' = faults - 1
    BY <1>1, <1>2, <1>4 DEF Unsigned, Settles
  <2> QED BY <1>1, <1>2, <1>4, <2>1, IdleIsOK, HandlerMoves
          DEF Making, PublicationInv, PublicationTypeOK
<1> QED BY <1>2, <1>3, <1>4 DEF Cleanup, Carried, Fault

\* A handler that is done, or starts to decide, touches no version.
LEMMA Bystander ==
    ASSUME PublicationInv, NEW c \in Calls, NEW new, CallOK(new),
           call' = [call EXCEPT ![c] = new], UNCHANGED <<load, faults, versions>>,
           bought \subseteq bought', status' \in ResourceStatus,
           call[c].pc \notin Settling, new.pc \notin Making
    PROVE  PublicationInv'
<1>1. Settling \subseteq Making /\ {"validate", "sign"} \subseteq Making
  BY DEF Making, Settling
<1> QED BY <1>1, VersionsStay

\* The end of an upload and of an edit, and the beginnings.
LEMMA SellerInv ==
    ASSUME PublicationInv, NEW c \in Calls,
           \/ Reenter(c) \/ ApplyPatch(c)
           \/ \E to \in ResourceStatus : Patch(c, to)
    PROVE  PublicationInv'
<1>1. CASE Return(c) /\ Carried /\ (Reenter(c) \/ ApplyPatch(c))
  <2>1. /\ call' = [call EXCEPT ![c] = Idle] /\ UNCHANGED <<load, faults, versions, bought>>
        /\ call[c].pc \in {"reenter", "patch"}
        /\ \/ status' = status \/ status' = "PENDING_REVIEW"
           \/ call[c].pc = "patch" /\ status' = call[c].to
    BY <1>1 DEF Reenter, ApplyPatch, Return, Carried, At
  <2>2. status' \in ResourceStatus
    BY <2>1 DEF PublicationInv, PublicationTypeOK, CallOK, ResourceStatus
  <2> QED BY <2>1, <2>2, IdleIsOK, Bystander DEF Settling
<1>3. CASE Reenter(c) /\ Continue(c, "cleanup") /\ Fault
  <2>1. /\ call[c].pc = "reenter" /\ faults' = faults - 1
        /\ UNCHANGED <<load, versions, bought>> /\ status' \in ResourceStatus
    BY <1>3 DEF Reenter, At, Fault, PublicationInv, PublicationTypeOK, ResourceStatus
  <2>2. PICK v \in Versions : call[c].on = v /\ call[c].by = "seller"
    BY <2>1, Maker DEF Making
  <2>3. PICK new \in CallType : /\ call' = [call EXCEPT ![c] = new]
                                /\ new.pc = "cleanup" /\ new.by = "seller" /\ new.on = v
    BY <1>3, <2>2, GoingOn DEF PublicationInv, Pc, Making
  <2>4. CallOK(new)
    BY <2>3 DEF CallOK, Deciding
  <2> QED BY <2>1, <2>2, <2>3, <2>4, HandlerMoves
          DEF Making, PublicationInv, PublicationTypeOK
<1>2. ASSUME NEW to \in ResourceStatus, Patch(c, to)
      PROVE  PublicationInv'
  <2>1. PICK new :
          /\ call' = [call EXCEPT ![c] = new]
          /\ new = [Idle EXCEPT !.pc = "patch", !.by = "seller", !.seen = status, !.to = to]
          /\ UNCHANGED <<load, faults, versions, status, bought>>
          /\ call[c].pc = "idle" /\ to \in SELLER_TRANSITIONS[status]
    BY <1>2 DEF Patch, Begin, At, Occurs, rowVars
  <2>2. \E seen \in {status} :
          new = [pc |-> "patch", by |-> "seller", on |-> "none", seen |-> seen,
                 to |-> to, todo |-> {}, who |-> {}]
    BY <2>1 DEF Idle
  <2>3. status \in ResourceStatus /\ status # "SUSPENDED"
    <3>1. SELLER_TRANSITIONS["SUSPENDED"] = {}
      BY DEF SELLER_TRANSITIONS, ResourceStatus
    <3> QED BY <2>1, <3>1 DEF PublicationInv, PublicationTypeOK
  <2>4. CallOK(new) /\ new.pc = "patch"
    BY <2>2, <2>3 DEF CallOK, CallType, Pc, Making, Deciding
  <2> QED BY <2>1, <2>3, <2>4, Bystander DEF Making, Settling
<1> QED BY <1>1, <1>2, <1>3 DEF Reenter, ApplyPatch

\* The record of a call whose versions to look at were written.
LEMMA TodoField ==
    ASSUME NEW r \in CallType, NEW T \in SUBSET Versions
    PROVE  /\ [r EXCEPT !.todo = T] \in CallType
           /\ [r EXCEPT !.todo = T].pc = r.pc
           /\ [r EXCEPT !.todo = T].by = r.by
           /\ [r EXCEPT !.todo = T].to = r.to
BY DEF CallType

\* Moderators look at the versions of a resource one by one before they publish it.
LEMMA GateInv ==
    ASSUME PublicationInv, NEW c \in Calls,
           ListVersions(c) \/ Gate(c) \/ BeginTransition(c)
    PROVE  PublicationInv'
<1>1. /\ call[c].pc \in Deciding /\ call[c].pc \notin Settling
      /\ call[c] \in CallType /\ call[c].by = "admin" /\ call[c].to \in ResourceStatus
      /\ UNCHANGED <<load, faults, versions, status, bought>> /\ status \in ResourceStatus
  BY DEF ListVersions, Gate, BeginTransition, At, Carried, rowVars, Deciding, Settling,
     PublicationInv, PublicationTypeOK, CallOK
<1>2. \A new \in CallType :
         /\ call' = [call EXCEPT ![c] = new] /\ new.pc \in Deciding
         /\ new.by = call[c].by /\ new.to = call[c].to
         => PublicationInv'
  <2> SUFFICES ASSUME NEW new \in CallType,
                      call' = [call EXCEPT ![c] = new], new.pc \in Deciding,
                      new.by = call[c].by, new.to = call[c].to
               PROVE  PublicationInv'
    OBVIOUS
  <2>1. CallOK(new) /\ new.pc \notin Making
    BY <1>1 DEF CallOK, Making, Deciding
  <2> QED BY <1>1, <2>1, Bystander
<1>3. CASE Return(c)
  BY <1>1, <1>3, IdleIsOK, Bystander DEF Return
<1>4. CASE Continue(c, "begin")
  <2>1. PICK new \in CallType : /\ call' = [call EXCEPT ![c] = new] /\ new.pc = "begin"
                                /\ new.by = call[c].by /\ new.to = call[c].to
    BY <1>4, GoingOn DEF PublicationInv, Pc, Deciding
  <2> QED BY <1>2, <2>1 DEF Deciding
<1>5. ASSUME NEW T \in SUBSET Versions, NEW p \in {"gate", "commit"},
             call' = [call EXCEPT ![c] = [call[c] EXCEPT !.pc = p, !.todo = T]]
      PROVE  PublicationInv'
  <2>1. /\ [call[c] EXCEPT !.pc = p, !.todo = T] \in CallType
        /\ [call[c] EXCEPT !.pc = p, !.todo = T].pc = p
        /\ [call[c] EXCEPT !.pc = p, !.todo = T].by = call[c].by
        /\ [call[c] EXCEPT !.pc = p, !.todo = T].to = call[c].to
    <3>1. p \in Pc
      BY DEF Pc, Deciding
    <3>2. PICK r \in CallType : r = call[c]
      BY <1>1
    <3>3. /\ [r EXCEPT !.pc = p, !.todo = T] \in CallType
          /\ [r EXCEPT !.pc = p, !.todo = T].pc = p
          /\ [r EXCEPT !.pc = p, !.todo = T].by = r.by
          /\ [r EXCEPT !.pc = p, !.todo = T].to = r.to
      BY <3>1 DEF CallType
    <3> QED BY <3>2, <3>3
  <2> QED BY <1>2, <1>5, <2>1 DEF Deciding
<1>6. ASSUME NEW T \in SUBSET Versions,
             call' = [call EXCEPT ![c] = [call[c] EXCEPT !.todo = T]]
      PROVE  PublicationInv'
  <2>1. /\ [call[c] EXCEPT !.todo = T] \in CallType
        /\ [call[c] EXCEPT !.todo = T].pc = call[c].pc
        /\ [call[c] EXCEPT !.todo = T].by = call[c].by
        /\ [call[c] EXCEPT !.todo = T].to = call[c].to
    BY <1>1, TodoField
  <2> QED BY <1>1, <1>2, <1>6, <2>1
<1>7. CASE ListVersions(c)
  <2>1. call' = [call EXCEPT ![c] = [call[c] EXCEPT !.pc = "gate", !.todo = Existing]]
    BY <1>7 DEF ListVersions
  <2> QED BY <1>5, <2>1 DEF Existing
<1>8. CASE BeginTransition(c)
  <2>1. PICK T \in SUBSET Versions :
           call' = [call EXCEPT ![c] = [call[c] EXCEPT !.pc = "commit", !.todo = T]]
    <3>1. call' = [call EXCEPT ![c] = [call[c] EXCEPT !.pc = "commit", !.todo =
                     IF call[c].to = "PUBLISHED"
                     THEN {v \in Versions : versions[v].state \in Releasable} ELSE {}]]
      BY <1>8 DEF BeginTransition
    <3> QED BY <3>1
  <2> QED BY <1>5, <2>1
<1>9. CASE Gate(c)
  <2>1. \/ Continue(c, "begin") \/ Return(c)
        \/ \E v \in call[c].todo : call' = [call EXCEPT ![c].todo = @ \ {v}]
    BY <1>9 DEF Gate
  <2>2. ASSUME NEW v, call' = [call EXCEPT ![c].todo = @ \ {v}]
        PROVE  PublicationInv'
    <3>1. call' = [call EXCEPT ![c] = [call[c] EXCEPT !.todo = call[c].todo \ {v}]]
      BY <2>2
    <3>2. call[c].todo \ {v} \in SUBSET Versions
      BY <1>1 DEF CallType
    <3> QED BY <1>6, <3>1, <3>2
  <2> QED BY <1>3, <1>4, <2>1, <2>2
<1> QED BY <1>7, <1>8, <1>9

\* A release changes the state of versions, and of nothing that was validated or signed.
LEMMA CommitInv ==
    ASSUME PublicationInv, NEW c \in Calls, CommitTransition(c)
    PROVE  PublicationInv'
<1>1. /\ call[c].pc = "commit" /\ status' = call[c].to
      /\ UNCHANGED <<load, faults, bought>>
      /\ (Return(c) \/ Continue(c, "next"))
  BY DEF CommitTransition, At, Carried
<1>2. status' \in ResourceStatus
  BY <1>1 DEF PublicationInv, PublicationTypeOK, CallOK, Deciding
<1>3. /\ versions' \in [Versions -> VersionRow]
      /\ \A v \in Versions : /\ versions'[v].failed = versions[v].failed
                             /\ Unsigned(v)' <=> Unsigned(v)
  <2>1. PICK S \in SUBSET Existing :
           versions' = [v \in Versions |-> IF v \in S THEN [versions[v] EXCEPT !.state = "PUBLISHED"]
                                                     ELSE versions[v]]
    <3>1. versions' = [v \in Versions |-> IF v \in call[c].todo \intersect Existing
                                          THEN [versions[v] EXCEPT !.state = "PUBLISHED"]
                                          ELSE versions[v]]
      BY DEF CommitTransition
    <3>2. call[c].todo \intersect Existing \in SUBSET Existing
      OBVIOUS
    <3> QED BY <3>1, <3>2
  <2>2. \A v \in Versions : versions[v] \in VersionRow
    BY DEF PublicationInv, PublicationTypeOK
  <2>3. ASSUME NEW v \in Versions
        PROVE  /\ versions'[v] \in VersionRow /\ versions'[v].failed = versions[v].failed
               /\ Unsigned(v)' <=> Unsigned(v)
    <3>1. CASE v \in S
      <4>1. versions'[v] = [versions[v] EXCEPT !.state = "PUBLISHED"] /\ versions[v].state # "none"
        BY <2>1, <3>1 DEF Existing
      <4>2. versions'[v].state = "PUBLISHED"
        BY <2>2, <4>1 DEF VersionRow
      <4>3. /\ versions'[v] \in VersionRow /\ versions'[v].signed = versions[v].signed
            /\ versions'[v].failed = versions[v].failed
        <5>1. versions[v] \in VersionRow
          BY <2>2
        <5>2. /\ [versions[v] EXCEPT !.state = "PUBLISHED"] \in VersionRow
              /\ [versions[v] EXCEPT !.state = "PUBLISHED"].signed = versions[v].signed
              /\ [versions[v] EXCEPT !.state = "PUBLISHED"].failed = versions[v].failed
          BY <5>1, ChangedRow
        <5> QED BY <4>1, <5>2
      <4> QED BY <4>1, <4>2, <4>3 DEF Unsigned
    <3>2. CASE v \notin S
      BY <2>1, <2>2, <3>2 DEF Unsigned
    <3> QED BY <3>1, <3>2
  <2> QED BY <2>1, <2>3
<1>4. PICK new : call' = [call EXCEPT ![c] = new] /\ CallOK(new) /\ new.pc \notin Making
  <2>1. CASE Return(c)
    BY <2>1, IdleIsOK DEF Return
  <2>2. CASE Continue(c, "next")
    <3>1. PICK new \in CallType : call' = [call EXCEPT ![c] = new] /\ new.pc = "next"
      BY <2>2, GoingOn DEF PublicationInv, Pc
    <3> QED BY <3>1 DEF CallOK, Making, Deciding
  <2> QED BY <1>1, <2>1, <2>2
<1>5. \A v \in Versions : ~Settles(c, v)
  BY <1>1 DEF Settles, Settling
<1>6. new.pc \notin {"validate", "sign"}
  BY <1>4 DEF Making
<1> QED BY <1>1, <1>2, <1>3, <1>4, <1>5, <1>6, HandlerMoves

\* The other decisions of moderators.
LEMMA ModeratorInv ==
    ASSUME PublicationInv, NEW c \in Calls,
           \/ ApplyVerify(c)
           \/ \E v \in Versions : Verify(c, v)
           \/ \E to \in ResourceStatus : Moderate(c, to)
    PROVE  PublicationInv'
<1>1. CASE ApplyVerify(c)
  <2>1. /\ call[c].pc = "verify" /\ call' = [call EXCEPT ![c] = Idle]
        /\ UNCHANGED <<load, faults, status, bought>>
        /\ versions' = IF call[c].on \in Existing
                       THEN [versions EXCEPT ![call[c].on].state = "VERIFIED"] ELSE versions
    BY <1>1 DEF ApplyVerify, At, Return, Carried
  <2>2. PICK v \in Versions : call[c].on = v
    BY <2>1 DEF PublicationInv, PublicationTypeOK, CallOK
  <2>3. CASE versions' = versions
    BY <2>1, <2>3, IdleIsOK, Bystander DEF Settling, PublicationInv, PublicationTypeOK
  <2>4. CASE v \in Existing /\ versions' = [versions EXCEPT ![v].state = "VERIFIED"]
    <3> DEFINE row == [versions[v] EXCEPT !.state = "VERIFIED"]
    <3>1. versions[v] \in VersionRow /\ versions[v].state # "none"
      BY <2>4 DEF Existing, PublicationInv, PublicationTypeOK
    <3>2. row \in VersionRow /\ row.signed = versions[v].signed /\ row.failed = versions[v].failed
      BY <3>1, ChangedRow
    <3>3. versions' = [versions EXCEPT ![v] = row]
      BY <2>4
    <3> HIDE DEF row
    <3>4. /\ versions' \in [Versions -> VersionRow] /\ versions'[v] = row
          /\ \A u \in Versions : u # v => versions'[u] = versions[u] /\ Unsigned(u)' = Unsigned(u)
      BY <3>2, <3>3, OneVersion DEF PublicationInv
    <3>5. \A u \in Versions : /\ versions'[u].failed = versions[u].failed
                              /\ Unsigned(u)' => Unsigned(u) /\ ~Settles(c, u)
      BY <2>1, <3>1, <3>2, <3>4 DEF Unsigned, Settles, Settling
    <3>6. Idle.pc \notin {"validate", "sign"}
      BY DEF Idle
    <3> QED BY <2>1, <3>4, <3>5, <3>6, IdleIsOK, HandlerMoves DEF PublicationInv, PublicationTypeOK
  <2> QED BY <2>1, <2>2, <2>3, <2>4
<1>2. ASSUME NEW v \in Versions, Verify(c, v)
      PROVE  PublicationInv'
  <2>1. PICK new : /\ call' = [call EXCEPT ![c] = new]
                   /\ new = [Idle EXCEPT !.pc = "verify", !.by = "admin", !.on = v]
                   /\ UNCHANGED <<load, faults, versions, status, bought>> /\ call[c].pc = "idle"
    BY <1>2 DEF Verify, Begin, At, Occurs, rowVars
  <2>2. new = [pc |-> "verify", by |-> "admin", on |-> v, seen |-> "none", to |-> "none",
               todo |-> {}, who |-> {}]
    BY <2>1 DEF Idle
  <2>3. CallOK(new) /\ new.pc = "verify"
    BY <2>2 DEF CallOK, CallType, Pc, Making, Deciding
  <2> QED BY <2>1, <2>3, Bystander DEF Making, Settling, PublicationInv, PublicationTypeOK
<1>3. ASSUME NEW to \in ResourceStatus, Moderate(c, to)
      PROVE  PublicationInv'
  <2>1. PICK p \in {"list", "begin"} :
                   call' = [call EXCEPT ![c] = [Idle EXCEPT !.pc = p, !.by = "admin", !.to = to]]
    <3>1. call' = [call EXCEPT ![c] = [Idle EXCEPT !.pc = IF to = "PUBLISHED" THEN "list" ELSE "begin",
                                                   !.by = "admin", !.to = to]]
      BY <1>3 DEF Moderate, Begin
    <3>2. CASE to = "PUBLISHED"
      BY <3>1, <3>2
    <3>3. CASE to # "PUBLISHED"
      BY <3>1, <3>3
    <3> QED BY <3>2, <3>3
  <2>0. UNCHANGED <<load, faults, versions, status, bought>> /\ call[c].pc = "idle"
    BY <1>3 DEF Moderate, Begin, At, Occurs, rowVars
  <2>4. PICK new : /\ call' = [call EXCEPT ![c] = new]
                   /\ new = [Idle EXCEPT !.pc = p, !.by = "admin", !.to = to]
    BY <2>1
  <2>2. new = [pc |-> p, by |-> "admin", on |-> "none", seen |-> "none", to |-> to,
               todo |-> {}, who |-> {}]
    BY <2>4 DEF Idle
  <2>3. CallOK(new) /\ new.pc = p
    BY <2>2 DEF CallOK, CallType, Pc, Making, Deciding
  <2> QED BY <2>0, <2>4, <2>3, Bystander DEF Making, Settling, PublicationInv, PublicationTypeOK
<1> QED BY <1>1, <1>2, <1>3

\* A checkout adds to what was bought.
LEMMA BuyerInv ==
    ASSUME PublicationInv, NEW c \in Calls,
           CreatePurchase(c) \/ \E v \in Versions : Checkout(c, v)
    PROVE  PublicationInv'
<1>1. CASE CreatePurchase(c)
  <2>1. /\ call[c].pc = "buy" /\ call' = [call EXCEPT ![c] = Idle]
        /\ UNCHANGED <<load, faults, versions, status>> /\ bought \subseteq bought'
    BY <1>1 DEF CreatePurchase, At, Return, Carried
  <2> QED BY <2>1, IdleIsOK, Bystander DEF Settling, PublicationInv, PublicationTypeOK
<1>2. ASSUME NEW v \in Versions, Checkout(c, v)
      PROVE  PublicationInv'
  <2>1. PICK new : /\ call' = [call EXCEPT ![c] = new]
                   /\ new = [Idle EXCEPT !.pc = "buy", !.by = "buyer", !.on = v]
                   /\ UNCHANGED <<load, faults, versions, status, bought>> /\ call[c].pc = "idle"
    BY <1>2 DEF Checkout, Begin, At, Occurs, rowVars
  <2>2. new = [pc |-> "buy", by |-> "buyer", on |-> v, seen |-> "none", to |-> "none",
               todo |-> {}, who |-> {}]
    BY <2>1 DEF Idle
  <2>3. CallOK(new) /\ new.pc = "buy"
    BY <2>2 DEF CallOK, CallType, Pc, Making, Deciding
  <2> QED BY <2>1, <2>3, Bystander DEF Making, Settling, PublicationInv, PublicationTypeOK
<1> QED BY <1>1, <1>2

\* A lost call, or a lost insert.
LEMMA Loss ==
    ASSUME PublicationInv, NEW c \in Calls, NEW new, CallOK(new),
           call' = [call EXCEPT ![c] = new], UNCHANGED <<load, status, versions, bought>>,
           faults' = faults - 1, new.pc \notin Making
    PROVE  PublicationInv'
<1>1. /\ call'[c] = new /\ \A d \in Calls : d # c => call'[d] = call[d]
      /\ call' = [d \in Calls |-> call'[d]]
  BY DEF PublicationInv, PublicationTypeOK
<1>2. faults' \in Int /\ faults' < load.losses /\ faults' <= load.losses
  BY PublicationAssumption DEF PublicationInv, PublicationTypeOK
<1>3. PublicationTypeOK'
  BY <1>1, <1>2 DEF PublicationInv, PublicationTypeOK, CallOK, CallType, Recipients
<1>4. OneMaker'
  BY <1>1 DEF PublicationInv, OneMaker
<1>5. PassesUntilSigned'
  BY <1>1 DEF PublicationInv, PassesUntilSigned, Making
<1>6. UnsignedIsSettled'
  BY <1>2 DEF UnsignedIsSettled
<1> QED BY <1>3, <1>4, <1>5, <1>6 DEF PublicationInv

\* The announcements: Tell, TellNext, Finish and the beginnings of Dispatch and Sweep
\* write no version; a moderator who yanks one leaves it as signed as it was.
LEMMA TellInv ==
    ASSUME PublicationInv, NEW c \in Calls, Tell(c)
    PROVE  PublicationInv'
<1>1. /\ call[c].pc = "tell" /\ UNCHANGED <<load, versions, status, bought>>
      /\ faults' = faults \/ faults' = faults - 1
      /\ call[c] \in CallType /\ call[c].on \in Versions
  BY DEF Tell, At, Fault, Carried, rowVars, PublicationInv, PublicationTypeOK, CallOK
<1>2. PICK rr \in call[c].who, p \in {"next", "tell"} :
         call' = [call EXCEPT ![c] = [call[c] EXCEPT !.who = call[c].who \ {rr}, !.pc = p]]
  <2>1. PICK rr \in call[c].who :
           call' = [call EXCEPT ![c].who = @ \ {rr},
                                ![c].pc = IF call[c].who = {rr} THEN "next" ELSE @]
    BY DEF Tell
  <2>2. call[c].who = {rr} => call' = [call EXCEPT ![c].who = @ \ {rr}, ![c].pc = "next"]
    BY <2>1
  <2>3. call[c].who # {rr} => call' = [call EXCEPT ![c].who = @ \ {rr}, ![c].pc = "tell"]
    BY <1>1, <2>1
  <2> QED BY <2>2, <2>3
<1>3. PICK new \in CallType : /\ call' = [call EXCEPT ![c] = new]
                              /\ new.pc \in {"next", "tell"} /\ new.on = call[c].on
  <2>1. PICK r \in CallType : r = call[c]
    BY <1>1
  <2>2. p \in Pc /\ r.who \ {rr} \in SUBSET Recipients
    BY DEF Pc, CallType
  <2>3. /\ [r EXCEPT !.who = r.who \ {rr}, !.pc = p] \in CallType
        /\ [r EXCEPT !.who = r.who \ {rr}, !.pc = p].pc = p
        /\ [r EXCEPT !.who = r.who \ {rr}, !.pc = p].on = r.on
    BY <2>2 DEF CallType
  <2> QED BY <1>2, <2>1, <2>3
<1>4. CallOK(new)
  BY <1>1, <1>3 DEF CallOK, Making, Deciding
<1> QED BY <1>1, <1>3, <1>4, Bystander, Loss
        DEF Making, Settling, PublicationInv, PublicationTypeOK

LEMMA TellNextInv ==
    ASSUME PublicationInv, NEW c \in Calls, TellNext(c)
    PROVE  PublicationInv'
<1>1. /\ call[c].pc = "next" /\ UNCHANGED <<load, faults, versions, status, bought>>
      /\ call[c] \in CallType /\ call[c].todo \in SUBSET Versions
  BY DEF TellNext, At, Carried, rowVars, PublicationInv, PublicationTypeOK, CallOK, CallType
<1>2. PICK v \in call[c].todo, W \in SUBSET Recipients, p \in {"next", "tell"} :
         call' = [call EXCEPT ![c] = [call[c] EXCEPT !.todo = call[c].todo \ {v}, !.on = v,
                                                    !.who = W, !.pc = p]]
  <2>1. PICK v \in call[c].todo :
           \E users \in Whom(c, v) :
             call' = [call EXCEPT ![c].todo = @ \ {v}, ![c].on = v, ![c].who = users,
                                  ![c].pc = IF users = {} THEN "next" ELSE "tell"]
    BY DEF TellNext
  <2>2. Whom(c, v) \subseteq SUBSET Recipients
    BY DEF Whom, Taken, Recipients
  <2>4. PICK W \in SUBSET Recipients :
           call' = [call EXCEPT ![c].todo = @ \ {v}, ![c].on = v, ![c].who = W,
                                ![c].pc = IF W = {} THEN "next" ELSE "tell"]
    BY <2>1, <2>2
  <2>5. PICK p \in {"next", "tell"} : p = IF W = {} THEN "next" ELSE "tell"
    OBVIOUS
  <2>6. call' = [call EXCEPT ![c].todo = @ \ {v}, ![c].on = v, ![c].who = W, ![c].pc = p]
    BY <2>4, <2>5
  <2> QED BY <2>6
<1>3. PICK new \in CallType : /\ call' = [call EXCEPT ![c] = new]
                              /\ new.pc \in {"next", "tell"} /\ new.on = v
  <2>1. PICK r \in CallType : r = call[c]
    BY <1>1
  <2>2. p \in Pc /\ r.todo \ {v} \in SUBSET Versions /\ v \in Versions
    BY <1>1, <2>1 DEF Pc
  <2>3. /\ [r EXCEPT !.todo = r.todo \ {v}, !.on = v, !.who = W, !.pc = p] \in CallType
        /\ [r EXCEPT !.todo = r.todo \ {v}, !.on = v, !.who = W, !.pc = p].pc = p
        /\ [r EXCEPT !.todo = r.todo \ {v}, !.on = v, !.who = W, !.pc = p].on = v
    BY <2>2 DEF CallType
  <2> QED BY <1>2, <2>1, <2>3
<1>4. CallOK(new)
  BY <1>1, <1>3 DEF CallOK, Making, Deciding
<1> QED BY <1>1, <1>3, <1>4, Bystander
        DEF Making, Settling, PublicationInv, PublicationTypeOK

LEMMA AnnouncerInv ==
    ASSUME PublicationInv, RecentOK, NEW c \in Calls,
           Finish(c) \/ Sweep(c) \/ \E v \in Versions : Dispatch(c, v)
    PROVE  PublicationInv'
<1>1. UNCHANGED <<load, faults, versions, status, bought>> /\ call[c].pc \in {"next", "idle"}
  BY DEF Finish, Sweep, Dispatch, Begin, At, Carried, rowVars
<1>2. ASSUME NEW new, call' = [call EXCEPT ![c] = new], CallOK(new), new.pc \notin Making
      PROVE  PublicationInv'
  BY <1>1, <1>2, Bystander DEF Settling, PublicationInv, PublicationTypeOK
<1>3. CASE Finish(c)
  BY <1>2, <1>3, IdleIsOK DEF Finish, Return
<1>4. CASE Sweep(c)
  <2>1. PICK T \in Reached :
           call' = [call EXCEPT ![c] = [Idle EXCEPT !.pc = "next", !.by = "sweep", !.todo = T]]
    BY <1>4 DEF Sweep, Begin
  <2>2. T \in SUBSET Versions
    BY DEF Reached, Swept, RecentOK
  <2>0. PICK new : /\ call' = [call EXCEPT ![c] = new]
                   /\ new = [Idle EXCEPT !.pc = "next", !.by = "sweep", !.todo = T]
    BY <2>1
  <2>3. new = [pc |-> "next", by |-> "sweep", on |-> "none", seen |-> "none", to |-> "none",
               todo |-> T, who |-> {}]
    BY <2>0 DEF Idle
  <2>4. CallOK(new) /\ new.pc \notin Making
    BY <2>2, <2>3 DEF CallOK, CallType, Pc, Making, Deciding
  <2> QED BY <1>2, <2>0, <2>4
<1>5. ASSUME NEW v \in Versions, Dispatch(c, v)
      PROVE  PublicationInv'
  <2>1. PICK new : /\ call' = [call EXCEPT ![c] = new]
                   /\ new = [Idle EXCEPT !.pc = "next", !.by = "worker", !.on = v,
                                 !.todo = IF status = "PUBLISHED" THEN {v} ELSE {}]
    BY <1>5 DEF Dispatch, Begin
  <2>2. PICK T \in SUBSET Versions : T = IF status = "PUBLISHED" THEN {v} ELSE {}
    OBVIOUS
  <2>3. new = [pc |-> "next", by |-> "worker", on |-> v, seen |-> "none", to |-> "none",
               todo |-> T, who |-> {}]
    BY <2>1, <2>2 DEF Idle
  <2>4. CallOK(new) /\ new.pc \notin Making
    BY <2>3 DEF CallOK, CallType, Pc, Making, Deciding
  <2> QED BY <1>2, <2>1, <2>4
<1> QED BY <1>3, <1>4, <1>5

\* Only versions that were made are recent.
LEMMA RecentStays ==
    ASSUME PublicationInv, RecentOK, [Next]_vars
    PROVE  RecentOK'
<1>1. CASE \E c \in Calls : CreateRow(c) \/ CopyRow(c)
  <2>1. PICK c \in Calls : /\ call[c].pc \in {"row", "copy"}
                           /\ recent' = recent \union {call[c].on}
    BY <1>1 DEF CreateRow, CopyRow, At
  <2>2. call[c].on \in Versions
    BY <2>1, Maker DEF Making
  <2> QED BY <2>1, <2>2 DEF RecentOK
<1>2. CASE recent' \subseteq recent
  BY <1>2 DEF RecentOK
<1>3. (\E c \in Calls : CreateRow(c) \/ CopyRow(c)) \/ recent' \subseteq recent
  BY DEF Next, vars, PublicationNext, PublicationStep, Validate, Sign, Cleanup, Reenter,
     ApplyPatch, ListVersions, Gate, BeginTransition, CommitTransition, ApplyVerify, Lose,
     CreatePurchase, Checkout, Upload, Rollback, Verify, Patch, Moderate, Yank, Age, Tell, TellNext, Finish, Sweep,
     Dispatch, rowVars
<1> QED BY <1>1, <1>2, <1>3

LEMMA YankInv ==
    ASSUME PublicationInv, NEW v \in Versions, Yank(v)
    PROVE  PublicationInv'
<1>1. /\ versions[v] \in VersionRow /\ versions[v].state # "none"
      /\ UNCHANGED <<load, faults, call, status, bought>>
      /\ versions' = [versions EXCEPT ![v] = [versions[v] EXCEPT !.state = "YANKED"]]
  BY DEF Yank, Occurs, Existing, PublicationInv, PublicationTypeOK
<1>2. PICK row \in VersionRow : /\ versions' = [versions EXCEPT ![v] = row]
                                /\ row.signed = versions[v].signed
                                /\ row.failed = versions[v].failed
  BY <1>1, ChangedRow
<1>3. /\ versions' \in [Versions -> VersionRow] /\ versions'[v] = row
      /\ \A u \in Versions : u # v => versions'[u] = versions[u] /\ Unsigned(u)' = Unsigned(u)
  BY <1>2, OneVersion DEF PublicationInv
<1>4. \A u \in Versions : versions'[u].failed = versions[u].failed /\ (Unsigned(u)' => Unsigned(u))
  BY <1>1, <1>2, <1>3 DEF Unsigned
<1>5. PublicationTypeOK' /\ OneMaker'
  BY <1>1, <1>3 DEF PublicationInv, PublicationTypeOK, CallOK, CallType, Recipients, OneMaker
<1>6. PassesUntilSigned'
  BY <1>1, <1>4 DEF PublicationInv, PublicationTypeOK, CallOK, PassesUntilSigned, Making
<1>7. UnsignedIsSettled'
  BY <1>1, <1>4 DEF PublicationInv, UnsignedIsSettled, Settles
<1> QED BY <1>5, <1>6, <1>7 DEF PublicationInv

\* A lost call leaves the rest of its work undone.
LEMMA LoseInv ==
    ASSUME PublicationInv, NEW c \in Calls, Lose(c)
    PROVE  PublicationInv'
BY IdleIsOK, Loss DEF Lose, Fault, Return, rowVars, Making

LEMMA InitialPublication ==
    ASSUME Init
    PROVE  PublicationInv
<1>1. /\ load \in Workloads /\ call = [c \in Calls |-> Idle] /\ faults = load.losses
      /\ status = load.status /\ versions = load.versions
  BY DEF Init, PublicationInit
<1>2. PublicationTypeOK
  BY <1>1, IdleIsOK, PublicationAssumption DEF PublicationTypeOK
<1>3. \A v \in Versions : ~Unsigned(v)
  BY <1>1, PublicationAssumption DEF Unsigned
<1> QED BY <1>1, <1>2, <1>3, IdleIsOK
        DEF PublicationInv, OneMaker, PassesUntilSigned, UnsignedIsSettled, Making

\* The inductive invariant of the catalogue, for every set of versions and handlers.
THEOREM PublicationInvariant == Spec => [](PublicationInv /\ RecentOK)
<1>1. Init => PublicationInv /\ RecentOK
  BY InitialPublication DEF Init, PublicationInit, RecentOK, Existing
<1>2. PublicationInv /\ RecentOK /\ [Next]_vars => PublicationInv' /\ RecentOK'
  <2> SUFFICES ASSUME PublicationInv, RecentOK, [Next]_vars
               PROVE  PublicationInv'
    BY RecentStays
  <2>1. CASE UNCHANGED vars
    <3>1. UNCHANGED <<load, call, faults, status, versions, bought>>
      BY <2>1 DEF vars, callVars, rowVars
    <3> QED BY <3>1 DEF PublicationInv, PublicationTypeOK, CallOK, CallType, Recipients,
                        OneMaker, PassesUntilSigned, UnsignedIsSettled, Unsigned, Settles
  <2>2. ASSUME NEW c \in Calls, PublicationStep(c)
        PROVE  PublicationInv'
    BY <2>2, CreateRowInv, ValidateInv, SignInv, CleanupInv, SellerInv, GateInv, CommitInv,
       ModeratorInv, BuyerInv DEF PublicationStep
  <2>3. ASSUME NEW c \in Calls, NEW v \in Versions, Upload(c, v) \/ Rollback(c, v)
                    \/ Verify(c, v) \/ Checkout(c, v)
        PROVE  PublicationInv'
    BY <2>3, UploadInv, ModeratorInv, BuyerInv
  <2>4. ASSUME NEW c \in Calls, NEW to \in ResourceStatus, Patch(c, to) \/ Moderate(c, to)
        PROVE  PublicationInv'
    BY <2>4, SellerInv, ModeratorInv
  <2>5. ASSUME NEW v \in Versions, Age(v)
        PROVE  PublicationInv'
    <3>1. UNCHANGED <<load, call, faults, status, versions, bought>>
      BY <2>5 DEF Age, callVars
    <3> QED BY <3>1 DEF PublicationInv, PublicationTypeOK, CallOK, CallType, Recipients,
                        OneMaker, PassesUntilSigned, UnsignedIsSettled, Unsigned, Settles
  <2> QED BY <2>1, <2>2, <2>3, <2>4, <2>5, LoseInv, YankInv, TellInv, TellNextInv,
             AnnouncerInv, Zenon DEF Next, PublicationNext
<1> QED BY <1>1, <1>2, PTL DEF Spec

\* Announcements.UnsignedIsTransient, for every set of versions and handlers
\* (versions.ts:162-167, 221-224, 363-366).
THEOREM UnsignedNeverLingers == Spec => []UnsignedIsTransient
<1>1. PublicationInv => UnsignedIsTransient
  <2> SUFFICES ASSUME PublicationInv, NEW v \in Versions, Unsigned(v), v \notin bought,
                      ~(faults < load.losses)
               PROVE  Handled(v)
    BY DEF UnsignedIsTransient, Existing, Unsigned
  <2>1. PICK c \in Calls : Settles(c, v)
    BY DEF PublicationInv, UnsignedIsSettled
  <2>2. call[c].by = "seller" /\ call[c].on = v
    BY <2>1 DEF PublicationInv, PublicationTypeOK, CallOK, Settles, Settling, Making
  <2> QED BY <2>2 DEF Handled
<1> QED BY <1>1, PublicationInvariant, PTL

\* Announcements.SuspensionHolds, for every set of versions and handlers
\* (resources.ts:845-895, moderation.ts:25-29): only three steps write the status.
THEOREM SuspensionAlwaysHolds == Spec => SuspensionHolds
<1>1. PublicationInv /\ [Next]_vars =>
        [status = "SUSPENDED" /\ status' # "SUSPENDED" =>
          \E c \in Calls : /\ call'[c] # call[c]
                          /\ (call[c].by = "admin" \/ call[c].seen # "SUSPENDED")]_status
  <2> SUFFICES ASSUME PublicationInv, Next, status = "SUSPENDED", status' # "SUSPENDED"
               PROVE  \E c \in Calls : /\ call'[c] # call[c]
                                       /\ (call[c].by = "admin" \/ call[c].seen # "SUSPENDED")
    BY DEF vars, rowVars
  <2>1. PICK c \in Calls : Reenter(c) \/ ApplyPatch(c) \/ CommitTransition(c)
    BY DEF Next, PublicationNext, PublicationStep, CreateRow, Validate, Sign, Cleanup, CopyRow,
       ListVersions, Gate, BeginTransition, ApplyVerify, Lose, CreatePurchase, Checkout, Upload, Rollback, Verify,
       Patch, Moderate, Yank, Age, Tell, TellNext, Finish, Sweep, Dispatch, rowVars
  <2>2. CASE Reenter(c)
    <3>1. /\ call[c].seen = "PUBLISHED" /\ call[c].pc = "reenter"
          /\ (Return(c) \/ Continue(c, "cleanup"))
      BY <2>2 DEF Reenter, At
    <3>2. call'[c].pc # "reenter"
      <4>1. CASE Return(c)
        BY <4>1, IdleIsOK DEF Return, PublicationInv, PublicationTypeOK
      <4>2. CASE Continue(c, "cleanup")
        <5>1. PICK new \in CallType : call' = [call EXCEPT ![c] = new] /\ new.pc = "cleanup"
          BY <4>2, GoingOn DEF PublicationInv, Pc, Making
        <5> QED BY <5>1 DEF PublicationInv, PublicationTypeOK
      <4> QED BY <3>1, <4>1, <4>2
    <3> QED BY <3>1, <3>2
  <2>3. CASE ApplyPatch(c)
    <3>1. call[c].seen # "SUSPENDED" /\ call[c].pc = "patch" /\ call'[c] = Idle
      BY <2>3 DEF ApplyPatch, At, Return, PublicationInv, PublicationTypeOK, CallOK
    <3> QED BY <3>1, IdleIsOK
  <2>4. CASE CommitTransition(c)
    <3>1. /\ call[c].by = "admin" /\ call[c].pc = "commit"
          /\ (Return(c) \/ Continue(c, "next"))
      BY <2>4 DEF CommitTransition, At, PublicationInv, PublicationTypeOK, CallOK, Deciding
    <3>2. call'[c].pc # "commit"
      <4>1. CASE Return(c)
        BY <4>1, IdleIsOK DEF Return, PublicationInv, PublicationTypeOK
      <4>2. CASE Continue(c, "next")
        <5>1. PICK new \in CallType : call' = [call EXCEPT ![c] = new] /\ new.pc = "next"
          BY <4>2, GoingOn DEF PublicationInv, Pc
        <5> QED BY <5>1 DEF PublicationInv, PublicationTypeOK
      <4> QED BY <3>1, <4>1, <4>2
    <3> QED BY <3>1, <3>2
  <2> QED BY <2>1, <2>2, <2>3, <2>4
<1> QED BY <1>1, PublicationInvariant, PTL DEF Spec, SuspensionHolds
=============================================================================
