--------------------------- MODULE DevicesProofs ---------------------------
(***************************************************************************)
(* What holds of Devices for any number of requests under way, sessions,   *)
(* users and faults.                                                       *)
(***************************************************************************)
EXTENDS Devices, SequenceTheorems, TLAPS

(* The statements of the sessions table *)

LEMMA InsertType ==
    ASSUME NEW t \in Seq(SessionRow), NEW k \in Keys, NEW now \in Clock, NEW b \in BOOLEAN
    PROVE  /\ InsertSession(t, k, now, b) \in Seq(SessionRow)
           /\ ~ b => Len(InsertSession(t, k, now, b)) = 1
<1> DEFINE row == [key |-> k, created |-> now, revoked |-> FALSE]
<1>1. row \in SessionRow
  BY DEF SessionRow
<1>2. CASE b
  BY <1>1, <1>2 DEF InsertSession
<1>3. CASE ~ b
  BY <1>1, <1>3 DEF InsertSession
<1> QED
  BY <1>2, <1>3

LEMMA RevokeType ==
    ASSUME NEW t \in Seq(SessionRow), NEW k \in Keys
    PROVE  /\ Revoke(t, k) \in Seq(SessionRow)
           /\ Len(Revoke(t, k)) = Len(t)
<1>1. Revoke(t, k) \in [1 .. Len(t) -> SessionRow]
  <2>1. ASSUME NEW i \in 1 .. Len(t)
        PROVE  t[i] \in SessionRow /\ [t[i] EXCEPT !.revoked = TRUE] \in SessionRow
    <3>1. t[i] \in SessionRow
      BY <2>1
    <3> QED
      BY <3>1 DEF SessionRow
  <2>2. DOMAIN t = 1 .. Len(t)
    OBVIOUS
  <2> QED
    BY <2>1, <2>2 DEF Revoke
<1>2. Len(t) \in Nat
  OBVIOUS
<1>3. Revoke(t, k) \in Seq(SessionRow)
  BY <1>1, <1>2, SeqDef
<1>4. DOMAIN Revoke(t, k) = 1 .. Len(t)
  BY DEF Revoke
<1> QED
  BY <1>2, <1>3, <1>4

LEMMA PruneType ==
    ASSUME NEW t \in Seq(SessionRow)
    PROVE  /\ PruneSessions(t) \in Seq(SessionRow)
           /\ Len(PruneSessions(t)) <= 1
<1> DEFINE newest == {i \in DOMAIN t : \A n \in DOMAIN t \ {i} : Before(t, n, i)}
<1>1. CASE newest = {}
  <2>1. PruneSessions(t) = <<>>
    BY <1>1 DEF PruneSessions
  <2> QED
    BY <2>1
<1>2. CASE newest # {}
  <2> DEFINE last == CHOOSE i \in newest : TRUE
  <2>1. last \in newest
    BY <1>2
  <2>2. t[last] \in SessionRow
    BY <2>1
  <2>3. PruneSessions(t) = <<t[last]>>
    BY <1>2 DEF PruneSessions
  <2> QED
    BY <2>2, <2>3
<1> QED
  BY <1>1, <1>2

(* A table of one row has one candidate for the latest key. *)
LEMMA OneRowIsLatest ==
    ASSUME NEW t \in Seq(SessionRow), Len(t) <= 1, NEW k \in Keys, Finds(t, k)
    PROVE  Latest(t) = {k}
<1>1. PICK i \in DOMAIN t : t[i].key = k /\ ~ t[i].revoked
  BY DEF Finds
<1>2. DOMAIN t = {i}
  <2>1. DOMAIN t = 1 .. Len(t) /\ Len(t) \in Nat
    OBVIOUS
  <2>2. Len(t) = 1
    BY <1>1, <2>1
  <2> QED
    BY <1>1, <2>1, <2>2
<1> QED
  BY <1>1, <1>2 DEF Latest

(* The statements of the other tables *)

LEMMA TransitionTypes ==
    ASSUME NEW t \in Transitions
    PROVE  BoundRow(t) \in [known : BOOLEAN, bound : BOOLEAN, user : Users \cup {NoUser}]
  BY DEF Transitions, BoundRow

LEMMA PruneEventsType ==
    ASSUME NEW e \in Seq(Transitions)
    PROVE  /\ PruneEvents(e) \in Seq(Transitions)
           /\ e # <<>> => PruneEvents(e) # <<>>
                          /\ PruneEvents(e)[Len(PruneEvents(e))] = e[Len(e)]
  BY DEF PruneEvents

LEMMA StoredType ==
    ASSUME NEW e \in Seq(Transitions), NEW t \in Transitions, NEW b \in BOOLEAN
    PROVE  /\ Stored(e, t, b) \in Seq(Transitions)
           /\ Stored(e, t, b) # <<>>
           /\ Stored(e, t, b)[Len(Stored(e, t, b))] = t
  BY DEF Stored

-----------------------------------------------------------------------------
(* The inductive invariant *)

TidyIsSingle == tidy => ~ history /\ Len(sessions) <= 1

DownIsQuiet == ~ up => \A h \in Slots : req[h].at = "free"

WholeIsRecorded ==
    \A h \in Slots :
        req[h].at = "event" /\ req[h].whole => device = BoundRow(req[h].change)

DevicesInv ==
    /\ DevicesTypeOK
    /\ TidyIsSingle
    /\ DownIsQuiet
    /\ WholeIsRecorded
    /\ BindIsRemembered

\* A step of the requests under way that makes none of them whole.
KeepsWhole ==
    \A g \in Slots : req'[g].at = "event" /\ req'[g].whole
        => req[g].at = "event" /\ req[g].whole /\ req'[g].change = req[g].change

LEMMA NoRequestType == NoRequest \in Request /\ NoRequest.at = "free" /\ ~ NoRequest.whole
  BY DEF NoRequest, Request, Steps, Kinds, Cookies, Answers, Transitions, Unbound, Absent

LEMMA OneRequest ==
    ASSUME DevicesTypeOK, NEW h \in Slots, NEW r \in Request, req' = [req EXCEPT ![h] = r],
           r.at # "event" \/ ~ r.whole
    PROVE  req' \in [Slots -> Request] /\ KeepsWhole
  BY DEF DevicesTypeOK, KeepsWhole

LEMMA GoesType ==
    ASSUME DevicesTypeOK, NEW h \in Slots, NEW step \in Steps, step # "event", Goes(h, step)
    PROVE  req' \in [Slots -> Request] /\ KeepsWhole
<1>1. [req[h] EXCEPT !.at = step] \in Request /\ [req[h] EXCEPT !.at = step].at # "event"
  BY DEF DevicesTypeOK, Request
<1>2. req' = [req EXCEPT ![h] = [req[h] EXCEPT !.at = step]]
  BY DEF Goes
<1> QED
  BY <1>1, <1>2, OneRequest

LEMMA RepliesType ==
    ASSUME DevicesTypeOK, NEW h \in Slots, NEW answer \in Answers, Replies(h, answer)
    PROVE  req' \in [Slots -> Request] /\ KeepsWhole
<1> DEFINE r == [req[h] EXCEPT !.at = "answer", !.answer = answer]
<1>1. r \in Request /\ r.at # "event"
  BY DEF DevicesTypeOK, Request, Steps
<1>2. CASE waits = h
  <2>1. req' = [req EXCEPT ![h] = r]
    BY <1>2 DEF Replies
  <2> QED
    BY <1>1, <2>1, OneRequest
<1>3. CASE waits # h
  <2>1. req' = [req EXCEPT ![h] = NoRequest]
    BY <1>3 DEF Replies
  <2> QED
    BY NoRequestType, <2>1, OneRequest
<1> QED
  BY <1>2, <1>3

LEMMA GoesOnType ==
    ASSUME DevicesTypeOK, NEW h \in Slots, GoesOn(h)
    PROVE  req' \in [Slots -> Request] /\ KeepsWhole
<1>1. req[h].kind \in Kinds
  BY DEF DevicesTypeOK, Request
<1>2. CASE req[h].kind = "register"
  <2>1. Goes(h, "mint")
    BY <1>2 DEF GoesOn
  <2> QED
    BY <2>1, GoesType DEF Steps
<1>3. CASE req[h].kind = "bind"
  <2>1. Goes(h, "record")
    BY <1>3 DEF GoesOn
  <2> QED
    BY <2>1, GoesType DEF Steps
<1>4. CASE req[h].kind = "ask"
  <2>1. Replies(h, "ok")
    BY <1>4 DEF GoesOn
  <2> QED
    BY <2>1, RepliesType DEF Answers
<1> QED
  BY <1>1, <1>2, <1>3, <1>4 DEF Kinds

LEMMA UnansweredType ==
    ASSUME DevicesTypeOK, req' = Unanswered
    PROVE  req' \in [Slots -> Request] /\ KeepsWhole
  BY NoRequestType DEF DevicesTypeOK, Unanswered, KeepsWhole

LEMMA FailsType ==
    ASSUME DevicesTypeOK, Fails
    PROVE  faults' \in 0 .. MaxFaults
  BY DevicesAssumption DEF DevicesTypeOK, Fails

\* A step that leaves the tables and what is remembered of them alone.
LEMMA QuietStep ==
    ASSUME DevicesInv, KeepsWhole, DevicesTypeOK',
           up \/ \A h \in Slots : req[h].at = "free" => req'[h].at = "free",
           UNCHANGED <<up, history, sessions, device, events, tidy, settled>>
    PROVE  DevicesInv'
<1>1. TidyIsSingle' /\ DownIsQuiet'
  BY DEF DevicesInv, TidyIsSingle, DownIsQuiet
<1>2. WholeIsRecorded'
  BY DEF DevicesInv, WholeIsRecorded, KeepsWhole
<1>3. BindIsRemembered'
  BY DEF DevicesInv, BindIsRemembered
<1> QED
  BY <1>1, <1>2, <1>3 DEF DevicesInv

-----------------------------------------------------------------------------
(* Every step keeps it *)

LEMMA GateServesStep ==
    ASSUME DevicesInv, NEW h \in Slots, GateServes(h)
    PROVE  DevicesInv'
<1>1. DevicesTypeOK
  BY DEF DevicesInv
<1>3. req' \in [Slots -> Request] /\ KeepsWhole
  BY <1>1, GoesType DEF GateServes, Steps
<1>4. DevicesTypeOK'
  BY <1>1, <1>3 DEF DevicesTypeOK, GateServes, serverVars, robotVars
<1> QED
  BY <1>3, <1>4, QuietStep DEF GateServes, At, serverVars, robotVars

LEMMA ChecksStep ==
    ASSUME DevicesInv, NEW h \in Slots, Checks(h)
    PROVE  DevicesInv'
<1>1. DevicesTypeOK
  BY DEF DevicesInv
<1>3. req' \in [Slots -> Request] /\ KeepsWhole
  BY <1>1, GoesType DEF Checks, Steps
<1>4. DevicesTypeOK'
  BY <1>1, <1>3 DEF DevicesTypeOK, Checks, serverVars, robotVars
<1> QED
  BY <1>3, <1>4, QuietStep DEF Checks, At, serverVars, robotVars

LEMMA GateFailsStep ==
    ASSUME DevicesInv, NEW h \in Slots, GateFails(h)
    PROVE  DevicesInv'
<1>1. DevicesTypeOK
  BY DEF DevicesInv
<1>2. faults' \in 0 .. MaxFaults
  BY <1>1, FailsType DEF GateFails
<1>3. req' \in [Slots -> Request] /\ KeepsWhole
  BY <1>1, GoesType DEF GateFails, Steps
<1>4. DevicesTypeOK'
  BY <1>1, <1>3, <1>2 DEF DevicesTypeOK, GateFails, serverVars, robotVars
<1> QED
  BY <1>3, <1>4, QuietStep DEF GateFails, At, serverVars, robotVars

LEMMA GateRefusesStep ==
    ASSUME DevicesInv, NEW h \in Slots, GateRefuses(h)
    PROVE  DevicesInv'
<1>1. DevicesTypeOK
  BY DEF DevicesInv
<1>3. req' \in [Slots -> Request] /\ KeepsWhole
  BY <1>1, RepliesType DEF GateRefuses, Answers
<1>4. DevicesTypeOK'
  BY <1>1, <1>3 DEF DevicesTypeOK, GateRefuses, serverVars, robotVars
<1> QED
  BY <1>3, <1>4, QuietStep DEF GateRefuses, At, serverVars, robotVars

LEMMA RefusesStep ==
    ASSUME DevicesInv, NEW h \in Slots, Refuses(h)
    PROVE  DevicesInv'
<1>1. DevicesTypeOK
  BY DEF DevicesInv
<1>2. faults' \in 0 .. MaxFaults
  BY <1>1, FailsType DEF Refuses, DevicesTypeOK
<1>3. req' \in [Slots -> Request] /\ KeepsWhole
  BY <1>1, RepliesType DEF Refuses, Answers
<1>4. DevicesTypeOK'
  BY <1>1, <1>3, <1>2 DEF DevicesTypeOK, Refuses, serverVars, robotVars
<1> QED
  BY <1>3, <1>4, QuietStep DEF Refuses, At, serverVars, robotVars

LEMMA AdoptsNotStep ==
    ASSUME DevicesInv, NEW h \in Slots, AdoptsNot(h)
    PROVE  DevicesInv'
<1>1. DevicesTypeOK
  BY DEF DevicesInv
<1>2. faults' \in 0 .. MaxFaults
  BY <1>1, FailsType DEF AdoptsNot, DevicesTypeOK
<1>3. req' \in [Slots -> Request] /\ KeepsWhole
  BY <1>1, GoesOnType DEF AdoptsNot
<1>4. DevicesTypeOK'
  BY <1>1, <1>3, <1>2 DEF DevicesTypeOK, AdoptsNot, serverVars, robotVars
<1> QED
  BY <1>3, <1>4, QuietStep DEF AdoptsNot, At, serverVars, robotVars

LEMMA MintFailsStep ==
    ASSUME DevicesInv, NEW h \in Slots, MintFails(h)
    PROVE  DevicesInv'
<1>1. DevicesTypeOK
  BY DEF DevicesInv
<1>2. faults' \in 0 .. MaxFaults
  BY <1>1, FailsType DEF MintFails, DevicesTypeOK
<1>3. req' \in [Slots -> Request] /\ KeepsWhole
  BY <1>1, RepliesType DEF MintFails, Answers
<1>4. DevicesTypeOK'
  BY <1>1, <1>3, <1>2 DEF DevicesTypeOK, MintFails, serverVars, robotVars
<1> QED
  BY <1>3, <1>4, QuietStep DEF MintFails, At, serverVars, robotVars

LEMMA StoreFailsStep ==
    ASSUME DevicesInv, NEW h \in Slots, StoreFails(h)
    PROVE  DevicesInv'
<1>1. DevicesTypeOK
  BY DEF DevicesInv
<1>2. faults' \in 0 .. MaxFaults
  BY <1>1, FailsType DEF StoreFails
<1>3. req' \in [Slots -> Request] /\ KeepsWhole
  BY <1>1, RepliesType DEF StoreFails, Answers
<1>4. DevicesTypeOK'
  BY <1>1, <1>3, <1>2 DEF DevicesTypeOK, StoreFails, serverVars, robotVars
<1> QED
  BY <1>3, <1>4, QuietStep DEF StoreFails, At, serverVars, robotVars

LEMMA GateRevokesStep ==
    ASSUME DevicesInv, NEW h \in Slots, GateRevokes(h)
    PROVE  DevicesInv'
<1>1. DevicesTypeOK
  BY DEF DevicesInv
<1>2. sessions' \in Seq(SessionRow) /\ Len(sessions') = Len(sessions)
  BY <1>1, RevokeType DEF GateRevokes, DevicesTypeOK
<1>3. req' \in [Slots -> Request] /\ KeepsWhole
  BY <1>1, RepliesType DEF GateRevokes, Answers
<1>4. DevicesTypeOK'
  BY <1>1, <1>2, <1>3 DEF DevicesTypeOK, GateRevokes, robotVars
<1>5. TidyIsSingle' /\ DownIsQuiet'
  BY <1>2 DEF DevicesInv, TidyIsSingle, DownIsQuiet, GateRevokes, At
<1>6. WholeIsRecorded'
  BY <1>3 DEF DevicesInv, WholeIsRecorded, KeepsWhole, GateRevokes
<1>7. BindIsRemembered'
  BY DEF DevicesInv, BindIsRemembered, GateRevokes
<1> QED
  BY <1>4, <1>5, <1>6, <1>7 DEF DevicesInv

LEMMA AdoptsStep ==
    ASSUME DevicesInv, NEW h \in Slots, Adopts(h)
    PROVE  DevicesInv'
<1>1. DevicesTypeOK
  BY DEF DevicesInv
<1>2. req' \in [Slots -> Request] /\ KeepsWhole
  BY <1>1, GoesOnType DEF Adopts
<1>3. device' \in [known : BOOLEAN, bound : BOOLEAN, user : Users \cup {NoUser}]
  BY <1>1 DEF Adopts, DevicesTypeOK
<1>4. ASSUME NEW t, device = BoundRow(t)
      PROVE  device' = BoundRow(t)
  <2>1. device' = [BoundRow(t) EXCEPT !.known = TRUE]
    BY <1>4 DEF Adopts
  <2> QED
    BY <2>1 DEF BoundRow
<1>5. DevicesTypeOK'
  BY <1>1, <1>2, <1>3 DEF DevicesTypeOK, Adopts, robotVars
<1>6. TidyIsSingle' /\ DownIsQuiet'
  BY DEF DevicesInv, TidyIsSingle, DownIsQuiet, Adopts, At
<1>7. WholeIsRecorded'
  BY <1>2, <1>4 DEF DevicesInv, WholeIsRecorded, KeepsWhole
<1>8. BindIsRemembered'
  BY <1>4 DEF DevicesInv, BindIsRemembered, Adopts
<1> QED
  BY <1>5, <1>6, <1>7, <1>8 DEF DevicesInv

LEMMA VersionCheckStep ==
    ASSUME DevicesInv, VersionCheck
    PROVE  DevicesInv'
<1>1. DevicesTypeOK
  BY DEF DevicesInv
<1>2. device' \in [known : BOOLEAN, bound : BOOLEAN, user : Users \cup {NoUser}]
  BY <1>1 DEF VersionCheck, DevicesTypeOK
<1>3. ASSUME NEW t, device = BoundRow(t)
      PROVE  device' = BoundRow(t)
  <2>1. device' = [BoundRow(t) EXCEPT !.known = TRUE]
    BY <1>3 DEF VersionCheck
  <2> QED
    BY <2>1 DEF BoundRow
<1>4. DevicesTypeOK'
  BY <1>1, <1>2 DEF DevicesTypeOK, VersionCheck, robotVars
<1>5. TidyIsSingle' /\ DownIsQuiet'
  BY DEF DevicesInv, TidyIsSingle, DownIsQuiet, VersionCheck
<1>6. WholeIsRecorded' /\ BindIsRemembered'
  BY <1>3 DEF DevicesInv, WholeIsRecorded, BindIsRemembered, VersionCheck
<1> QED
  BY <1>4, <1>5, <1>6 DEF DevicesInv

LEMMA MintsStep ==
    ASSUME DevicesInv, NEW h \in Slots, Mints(h)
    PROVE  DevicesInv'
<1>1. DevicesTypeOK
  BY DEF DevicesInv
<1>2. Fresh \in Keys
  BY DEF Mints, CanMint, Fresh
<1>3. /\ sessions' \in Seq(SessionRow)
      /\ ~ history => Len(sessions') = 1
  BY <1>1, <1>2, InsertType DEF Mints, DevicesTypeOK
<1>4. req' \in [Slots -> Request] /\ KeepsWhole
  BY <1>1, <1>2, RepliesType DEF Mints, Answers
<1>5. DevicesTypeOK'
  BY <1>1, <1>3, <1>4 DEF DevicesTypeOK, Mints, robotVars
<1>6. TidyIsSingle'
  <2>1. CASE history
    <3>1. ~ tidy
      BY <2>1 DEF DevicesInv, TidyIsSingle
    <3>2. ~ tidy'
      BY <2>1, <3>1 DEF Mints
    <3> QED
      BY <3>2 DEF TidyIsSingle
  <2>2. CASE ~ history
    BY <1>3, <2>2 DEF TidyIsSingle, Mints
  <2> QED
    BY <2>1, <2>2
<1>7. DownIsQuiet' /\ WholeIsRecorded' /\ BindIsRemembered'
  BY <1>4 DEF DevicesInv, DownIsQuiet, WholeIsRecorded, KeepsWhole, BindIsRemembered, Mints, At
<1> QED
  BY <1>5, <1>6, <1>7 DEF DevicesInv

LEMMA RecordsStep ==
    ASSUME DevicesInv, NEW h \in Slots, Records(h)
    PROVE  DevicesInv'
<1>1. DevicesTypeOK
  BY DEF DevicesInv
<1>2. req[h].change \in Transitions
  BY <1>1 DEF DevicesTypeOK, Request
<1>3. /\ device' \in [known : BOOLEAN, bound : BOOLEAN, user : Users \cup {NoUser}]
      /\ device.known => device' = BoundRow(req[h].change)
  BY <1>1, <1>2, TransitionTypes DEF Records, DevicesTypeOK, BoundAs
<1>4. ASSUME NEW g \in Slots
      PROVE  /\ req'[g] \in Request
             /\ req'[g].at = "event" /\ req'[g].whole
                  => device.known /\ req'[g].change = req[h].change
  <2>1. req[g] \in Request /\ device.known \in BOOLEAN
    BY <1>1 DEF DevicesTypeOK
  <2>2. CASE g = h
    <3>1. req'[g] = [req[g] EXCEPT !.at = "event", !.whole = device.known]
      BY <2>2 DEF Records
    <3> QED
      BY <2>1, <2>2, <3>1 DEF Request, Steps
  <2>3. CASE g # h
    <3>1. req'[g] = [req[g] EXCEPT !.whole = FALSE]
      BY <2>3 DEF Records
    <3> QED
      BY <2>1, <3>1 DEF Request
  <2> QED
    BY <2>2, <2>3
<1>5. req' \in [Slots -> Request]
  BY <1>4 DEF Records
<1>6. DevicesTypeOK'
  BY <1>1, <1>3, <1>5 DEF DevicesTypeOK, Records, robotVars
<1>7. TidyIsSingle' /\ DownIsQuiet'
  BY DEF DevicesInv, TidyIsSingle, DownIsQuiet, Records, At
<1>8. WholeIsRecorded'
  BY <1>3, <1>4 DEF WholeIsRecorded
<1>9. BindIsRemembered'
  BY DEF BindIsRemembered, Records
<1> QED
  BY <1>6, <1>7, <1>8, <1>9 DEF DevicesInv

LEMMA RecordFailsStep ==
    ASSUME DevicesInv, NEW h \in Slots, RecordFails(h)
    PROVE  DevicesInv'
<1>1. DevicesTypeOK
  BY DEF DevicesInv
<1>2. faults' \in 0 .. MaxFaults
  BY <1>1, FailsType DEF RecordFails
<1> DEFINE r == [req[h] EXCEPT !.at = "event", !.whole = FALSE]
<1>3. r \in Request /\ ~ r.whole
  BY <1>1 DEF DevicesTypeOK, Request, Steps
<1>4. req' = [req EXCEPT ![h] = r]
  BY DEF RecordFails
<1>5. req' \in [Slots -> Request] /\ KeepsWhole
  BY <1>1, <1>3, <1>4, OneRequest
<1>6. DevicesTypeOK'
  BY <1>1, <1>2, <1>5 DEF DevicesTypeOK, RecordFails, serverVars, robotVars
<1> QED
  BY <1>5, <1>6, QuietStep DEF RecordFails, At, serverVars

LEMMA StoresStep ==
    ASSUME DevicesInv, NEW h \in Slots, Stores(h)
    PROVE  DevicesInv'
<1>1. DevicesTypeOK
  BY DEF DevicesInv
<1>2. req[h].change \in Transitions
  BY <1>1 DEF DevicesTypeOK, Request
<1>3. /\ events' \in Seq(Transitions)
      /\ events' # <<>>
      /\ events'[Len(events')] = req[h].change
  BY <1>1, <1>2, StoredType DEF Stores, DevicesTypeOK
<1>4. req' \in [Slots -> Request] /\ KeepsWhole
  BY <1>1, RepliesType DEF Stores, Answers
<1>5. settled' \in SUBSET Transitions
  BY <1>2 DEF Stores
<1>6. DevicesTypeOK'
  BY <1>1, <1>3, <1>4, <1>5 DEF DevicesTypeOK, Stores, robotVars
<1>7. TidyIsSingle' /\ DownIsQuiet'
  BY DEF DevicesInv, TidyIsSingle, DownIsQuiet, Stores, At
<1>8. WholeIsRecorded'
  BY <1>4 DEF DevicesInv, WholeIsRecorded, KeepsWhole, Stores
<1>9. BindIsRemembered'
  <2>1. CASE req[h].whole
    <3>1. device = BoundRow(req[h].change)
      BY <2>1 DEF DevicesInv, WholeIsRecorded, Stores, At
    <3>2. settled' = {req[h].change} /\ device' = device
      BY <2>1 DEF Stores
    <3> QED
      BY <1>3, <3>1, <3>2 DEF BindIsRemembered
  <2>2. CASE ~ req[h].whole
    BY <2>2 DEF BindIsRemembered, Stores
  <2> QED
    BY <2>1, <2>2
<1> QED
  BY <1>6, <1>7, <1>8, <1>9 DEF DevicesInv

LEMMA SendsStep ==
    ASSUME DevicesInv, NEW h \in Slots, Sends(h)
    PROVE  DevicesInv'
<1>1. DevicesTypeOK
  BY DEF DevicesInv
<1> DEFINE r1 == [NoRequest EXCEPT !.kind = "register", !.at = "exists"]
           r2 == [NoRequest EXCEPT !.kind = "bind", !.at = "gate", !.cookie = key,
                                   !.change = asked]
           r3 == [NoRequest EXCEPT !.at = "gate", !.cookie = key]
<1>2. r1 \in Request /\ ~ r1.whole
  BY NoRequestType DEF Request, Steps, Kinds
<1>3. r2 \in Request /\ ~ r2.whole
  BY <1>1, NoRequestType DEF Request, Steps, Kinds, DevicesTypeOK
<1>4. r3 \in Request /\ ~ r3.whole
  BY <1>1, NoRequestType DEF Request, Steps, DevicesTypeOK
<1>5. \/ req' = [req EXCEPT ![h] = r1]
      \/ req' = [req EXCEPT ![h] = r2]
      \/ req' = [req EXCEPT ![h] = r3]
  BY DEF Sends
<1>6. req' \in [Slots -> Request] /\ KeepsWhole
  <2>1. CASE req' = [req EXCEPT ![h] = r1]
    BY <1>1, <1>2, <2>1, OneRequest
  <2>2. CASE req' = [req EXCEPT ![h] = r2]
    BY <1>1, <1>3, <2>2, OneRequest
  <2>3. CASE req' = [req EXCEPT ![h] = r3]
    BY <1>1, <1>4, <2>3, OneRequest
  <2> QED
    BY <1>5, <2>1, <2>2, <2>3
<1>7. DevicesTypeOK'
  BY <1>1, <1>6 DEF DevicesTypeOK, Sends, serverVars
<1> QED
  BY <1>6, <1>7, QuietStep DEF Sends, serverVars

LEMMA HearsStep ==
    ASSUME DevicesInv, NEW h \in Slots, Hears(h)
    PROVE  DevicesInv'
<1>1. DevicesTypeOK
  BY DEF DevicesInv
<1>2. req' \in [Slots -> Request] /\ KeepsWhole
  BY <1>1, NoRequestType, OneRequest DEF Hears
<1>3. req[h].answer \in Answers
  BY <1>1 DEF DevicesTypeOK, Request
<1>4. key' \in Cookies
  BY <1>1, <1>3 DEF Hears, Answers, Cookies, DevicesTypeOK
<1>5. must' \in BOOLEAN
  BY <1>1 DEF Hears, DevicesTypeOK
<1>6. done' \in BOOLEAN
  BY DEF Hears
<1>7. DevicesTypeOK'
  BY <1>1, <1>2, <1>4, <1>5, <1>6 DEF DevicesTypeOK, Hears, serverVars
<1> QED
  BY <1>2, <1>7, QuietStep DEF Hears, At, serverVars

LEMMA GivesUpStep ==
    ASSUME DevicesInv, GivesUp
    PROVE  DevicesInv'
<1>1. DevicesTypeOK
  BY DEF DevicesInv
<1>2. req' \in [Slots -> Request] /\ KeepsWhole
  BY <1>1, UnansweredType DEF GivesUp
<1>3. faults' \in 0 .. MaxFaults
  BY <1>1, FailsType DEF GivesUp
<1>4. calm' \in BOOLEAN
  BY DEF GivesUp
<1>5. DevicesTypeOK'
  BY <1>1, <1>2, <1>3, <1>4 DEF DevicesTypeOK, GivesUp, serverVars
<1>6. \A h \in Slots : req[h].at = "free" => req'[h].at = "free"
  BY DEF GivesUp, Unanswered
<1> QED
  BY <1>2, <1>5, <1>6, QuietStep DEF GivesUp, serverVars

LEMMA RebootsStep ==
    ASSUME DevicesInv, Reboots
    PROVE  DevicesInv'
<1>1. DevicesTypeOK
  BY DEF DevicesInv
<1>2. req' \in [Slots -> Request] /\ KeepsWhole
  BY <1>1, UnansweredType DEF Reboots
<1>3. faults' \in 0 .. MaxFaults
  BY <1>1, FailsType DEF Reboots
<1>4. calm' \in BOOLEAN
  BY DEF Reboots
<1>5. DevicesTypeOK'
  BY <1>1, <1>2, <1>3, <1>4 DEF DevicesTypeOK, Reboots, serverVars
<1>6. \A h \in Slots : req[h].at = "free" => req'[h].at = "free"
  BY DEF Reboots, Unanswered
<1> QED
  BY <1>2, <1>5, <1>6, QuietStep DEF Reboots, serverVars

LEMMA WantsStep ==
    ASSUME DevicesInv, Wants
    PROVE  DevicesInv'
<1>1. DevicesTypeOK
  BY DEF DevicesInv
<1>2. wishes' \in 0 .. MaxWishes /\ asked' \in Transitions
  BY <1>1, DevicesAssumption DEF Wants, DevicesTypeOK, Clock
<1>3. DevicesTypeOK'
  BY <1>1, <1>2 DEF DevicesTypeOK, Wants, serverVars, robotVars
<1>4. UNCHANGED req
  BY DEF Wants
<1>5. KeepsWhole /\ \A h \in Slots : req[h].at = "free" => req'[h].at = "free"
  BY <1>4 DEF KeepsWhole
<1> QED
  BY <1>3, <1>5, QuietStep DEF Wants, serverVars

LEMMA TimePassesStep ==
    ASSUME DevicesInv, TimePasses
    PROVE  DevicesInv'
<1>1. DevicesTypeOK
  BY DEF DevicesInv
<1>2. clock' \in Clock
  BY <1>1, SessionAssumption DEF TimePasses, DevicesTypeOK, Clock
<1>3. DevicesTypeOK'
  BY <1>1, <1>2 DEF DevicesTypeOK, TimePasses, serverVars, robotVars
<1>4. UNCHANGED req
  BY DEF TimePasses
<1>5. KeepsWhole /\ \A h \in Slots : req[h].at = "free" => req'[h].at = "free"
  BY <1>4 DEF KeepsWhole
<1> QED
  BY <1>3, <1>5, QuietStep DEF TimePasses, serverVars

LEMMA ClockIsSetBackStep ==
    ASSUME DevicesInv, ClockIsSetBack
    PROVE  DevicesInv'
<1>1. DevicesTypeOK
  BY DEF DevicesInv
<1>2. clock' \in Clock /\ faults' \in 0 .. MaxFaults
  BY <1>1, FailsType DEF ClockIsSetBack, DevicesTypeOK, Clock
<1>3. DevicesTypeOK'
  BY <1>1, <1>2 DEF DevicesTypeOK, ClockIsSetBack, serverVars, robotVars
<1>4. UNCHANGED req
  BY DEF ClockIsSetBack
<1>5. KeepsWhole /\ \A h \in Slots : req[h].at = "free" => req'[h].at = "free"
  BY <1>4 DEF KeepsWhole
<1> QED
  BY <1>3, <1>5, QuietStep DEF ClockIsSetBack, serverVars

LEMMA CrashesStep ==
    ASSUME DevicesInv, Crashes
    PROVE  DevicesInv'
<1>1. DevicesTypeOK
  BY DEF DevicesInv
<1>2. faults' \in 0 .. MaxFaults
  BY <1>1, FailsType DEF Crashes
<1>3. req' \in [Slots -> Request] /\ \A h \in Slots : req'[h].at = "free"
  BY NoRequestType DEF Crashes
<1>4. DevicesTypeOK'
  BY <1>1, <1>2, <1>3 DEF DevicesTypeOK, Crashes
<1>5. TidyIsSingle' /\ BindIsRemembered'
  BY DEF DevicesInv, TidyIsSingle, BindIsRemembered, Crashes
<1>6. DownIsQuiet' /\ WholeIsRecorded'
  BY <1>3 DEF DownIsQuiet, WholeIsRecorded
<1> QED
  BY <1>4, <1>5, <1>6 DEF DevicesInv

(* A boot believes what was settled and changes nothing. *)
LEMMA AdoptedType ==
    ASSUME NEW d \in [known : BOOLEAN, bound : BOOLEAN, user : Users \cup {NoUser}],
           NEW n \in Transitions
    PROVE  Adopted(d, n) \in [known : BOOLEAN, bound : BOOLEAN, user : Users \cup {NoUser}]
  BY DEF Adopted, Transitions

LEMMA SettledIsAdopted ==
    ASSUME NEW t \in Transitions
    PROVE  Adopted(BoundRow(t), t) = BoundRow(t)
  BY DevicesAssumption DEF Adopted, BoundRow, Transitions

LEMMA StartsStep ==
    ASSUME DevicesInv, Starts
    PROVE  DevicesInv'
<1>1. DevicesTypeOK
  BY DEF DevicesInv
<1>2. PICK prunesEvents \in BOOLEAN, prunesSessions \in BOOLEAN, recovers \in BOOLEAN :
        LET failures == Cost(prunesEvents) + Cost(prunesSessions) + Cost(recovers)
        IN /\ faults + failures <= MaxFaults
           /\ faults' = faults + failures
           /\ events' = IF ~ history' /\ prunesEvents THEN PruneEvents(events) ELSE events
           /\ sessions' = IF ~ history' /\ prunesSessions
                          THEN PruneSessions(sessions) ELSE sessions
           /\ tidy' = (~ history' /\ prunesSessions)
           /\ device' = IF recovers THEN Adopted(device, Newest) ELSE device
  BY DEF Starts
<1>3. faults' \in 0 .. MaxFaults
  BY <1>1, <1>2, DevicesAssumption DEF DevicesTypeOK, Cost
<1>4. history' \in BOOLEAN /\ up' = TRUE /\ tidy' \in BOOLEAN
  BY <1>2, DevicesAssumption DEF Starts
<1>5. events' \in Seq(Transitions)
  BY <1>1, <1>2, PruneEventsType DEF DevicesTypeOK
<1>6. events # <<>> => events' # <<>> /\ events'[Len(events')] = events[Len(events)]
  BY <1>1, <1>2, PruneEventsType DEF DevicesTypeOK
<1>7. sessions' \in Seq(SessionRow) /\ (tidy' => ~ history' /\ Len(sessions') <= 1)
  BY <1>1, <1>2, <1>4, PruneType DEF DevicesTypeOK
<1>8. Newest \in Transitions
  BY <1>1 DEF Newest, DevicesTypeOK
<1>9. device' \in [known : BOOLEAN, bound : BOOLEAN, user : Users \cup {NoUser}]
  BY <1>1, <1>2, <1>8, AdoptedType DEF DevicesTypeOK
<1>10. DevicesTypeOK'
  BY <1>1, <1>3, <1>4, <1>5, <1>7, <1>9 DEF DevicesTypeOK, Starts, robotVars
<1>11. TidyIsSingle'
  BY <1>7 DEF TidyIsSingle
<1>12. DownIsQuiet' /\ WholeIsRecorded'
  <2>1. \A h \in Slots : req'[h].at = "free"
    BY DEF Starts, DevicesInv, DownIsQuiet
  <2> QED
    BY <2>1 DEF DownIsQuiet, WholeIsRecorded
<1>13. BindIsRemembered'
  <2> SUFFICES ASSUME NEW t \in settled
               PROVE  device' = BoundRow(t) /\ events' # <<>> /\ events'[Len(events')] = t
    BY DEF BindIsRemembered, Starts
  <2>1. t \in Transitions
    BY <1>1 DEF DevicesTypeOK
  <2>2. device = BoundRow(t) /\ events # <<>> /\ events[Len(events)] = t
    BY DEF DevicesInv, BindIsRemembered
  <2>3. Newest = t
    BY <2>2 DEF Newest
  <2>4. device' = BoundRow(t)
    BY <1>2, <2>1, <2>2, <2>3, SettledIsAdopted
  <2> QED
    BY <1>6, <2>2, <2>4
<1> QED
  BY <1>10, <1>11, <1>12, <1>13 DEF DevicesInv

LEMMA DevicesInvInit == Init => DevicesInv
<1> SUFFICES ASSUME Init PROVE DevicesInv
  OBVIOUS
<1>1. Unbound \in Transitions
  BY DEF Unbound, Transitions
<1>2. /\ sessions \in Seq(SessionRow)
      /\ device \in [known : BOOLEAN, bound : BOOLEAN, user : Users \cup {NoUser}]
      /\ events \in Seq(Transitions)
      /\ legacy \in Transitions
      /\ key \in Cookies
      /\ asked \in Transitions
      /\ settled \in SUBSET Transitions
      /\ BindIsRemembered
  <2>1. CASE NewDatabase
    BY <1>1, <2>1 DEF NewDatabase, Cookies, BindIsRemembered
  <2>2. CASE CatchAllDatabase
    <3>1. device \in [known : BOOLEAN, bound : BOOLEAN, user : Users \cup {NoUser}]
      BY <2>2 DEF CatchAllDatabase
    <3> QED
      BY <2>2, <3>1 DEF CatchAllDatabase, Cookies, BindIsRemembered
  <2>3. CASE ServedDatabase
    <3> DEFINE k == CHOOSE k \in Keys : TRUE
    <3>1. k \in Keys
      BY DevicesAssumption
    <3>2. [key |-> k, created |-> 0, revoked |-> FALSE] \in SessionRow
      BY <3>1, SessionAssumption DEF SessionRow, Clock
    <3>3. PICK t \in Transitions :
            /\ sessions = <<[key |-> k, created |-> 0, revoked |-> FALSE]>>
            /\ device = BoundRow(t)
            /\ events = <<t>>
            /\ legacy = Unbound
            /\ key = k
            /\ asked = t
            /\ settled = {t}
      BY <2>3 DEF ServedDatabase
    <3> HIDE DEF k
    <3>4. sessions \in Seq(SessionRow) /\ events \in Seq(Transitions)
      BY <3>2, <3>3
    <3>5. device \in [known : BOOLEAN, bound : BOOLEAN, user : Users \cup {NoUser}]
      BY <3>3, TransitionTypes
    <3>6. BindIsRemembered
      BY <3>3 DEF BindIsRemembered
    <3> QED
      BY <1>1, <3>1, <3>3, <3>4, <3>5, <3>6 DEF Cookies
  <2> QED
    BY <2>1, <2>2, <2>3 DEF Init
<1>3. req \in [Slots -> Request] /\ \A h \in Slots : req[h].at = "free"
  BY NoRequestType DEF Init
<1>4. must \in BOOLEAN
  BY DEF Init
<1>5. DevicesTypeOK
  <2>1. clock \in Clock /\ wishes \in 0 .. MaxWishes /\ faults \in 0 .. MaxFaults
    BY DevicesAssumption, SessionAssumption DEF Init, Clock
  <2>2. up \in BOOLEAN /\ history \in BOOLEAN /\ done \in BOOLEAN
    BY DevicesAssumption DEF Init
  <2>3. tidy \in BOOLEAN /\ calm \in BOOLEAN /\ waits \in Slots \cup {NoSlot}
    BY DEF Init
  <2> QED
    BY <1>2, <1>3, <1>4, <2>1, <2>2, <2>3 DEF DevicesTypeOK
<1> QED
  BY <1>2, <1>3, <1>5
     DEF DevicesInv, Init, TidyIsSingle, DownIsQuiet, WholeIsRecorded

LEMMA DevicesInvStep == DevicesInv /\ [Next]_vars => DevicesInv'
<1> SUFFICES ASSUME DevicesInv, [Next]_vars PROVE DevicesInv'
  OBVIOUS
<1>1. CASE UNCHANGED vars
  <2>1. DevicesTypeOK'
    BY <1>1 DEF DevicesInv, DevicesTypeOK, vars, serverVars, robotVars
  <2>2. KeepsWhole /\ \A h \in Slots : req[h].at = "free" => req'[h].at = "free"
    BY <1>1 DEF KeepsWhole, vars
  <2> QED
    BY <1>1, <2>1, <2>2, QuietStep DEF vars, serverVars
<1>2. ASSUME NEW h \in Slots, Handles(h) PROVE DevicesInv'
  BY <1>2, GateServesStep, GateRefusesStep, GateRevokesStep, ChecksStep, RefusesStep,
     AdoptsStep, MintsStep, MintFailsStep, RecordsStep, StoresStep DEF Handles
<1>3. ASSUME NEW h \in Slots, HandlesBadly(h) PROVE DevicesInv'
  BY <1>3, GateFailsStep, AdoptsNotStep, RecordFailsStep, StoreFailsStep DEF HandlesBadly
<1>4. ASSUME NEW h \in Slots, Sends(h) \/ Hears(h) PROVE DevicesInv'
  BY <1>4, SendsStep, HearsStep
<1> QED
  BY <1>1, <1>2, <1>3, <1>4, StartsStep, GivesUpStep, RebootsStep, WantsStep,
     VersionCheckStep, TimePassesStep, ClockIsSetBackStep, CrashesStep DEF Next

-----------------------------------------------------------------------------
(* The theorems *)

\* The invariant holds in every reachable state, for any constants.
THEOREM DevicesInvariance == Spec => []DevicesInv
  BY DevicesInvInit, DevicesInvStep, PTL DEF Spec

\* The tables, the requests and what the robot holds keep their types
\* (register.rs, binding.rs, session.rs).
THEOREM DevicesTypeCorrect == Spec => []DevicesTypeOK
<1>1. DevicesInv => DevicesTypeOK
  BY DEF DevicesInv
<1> QED
  BY <1>1, DevicesInvariance, PTL

\* Without history, and once a prune or a registration has succeeded, the key
\* commands are encrypted under is the key of every robot whose cookie is
\* accepted (insert_session, latest_session_key).
THEOREM KeyIsAlwaysCurrent == Spec => []KeyIsCurrent
<1>1. DevicesInv => KeyIsCurrent
  BY OneRowIsLatest DEF DevicesInv, DevicesTypeOK, TidyIsSingle, KeyIsCurrent
<1> QED
  BY <1>1, DevicesInvariance, PTL

\* A transition stored whole is what the device row says after any number of
\* boots, crashes and failed statements, until the next one begins
\* (binding.rs, recover_bind_ids).
THEOREM BindIsAlwaysRemembered == Spec => []BindIsRemembered
<1>1. DevicesInv => BindIsRemembered
  BY DEF DevicesInv
<1> QED
  BY <1>1, DevicesInvariance, PTL

-----------------------------------------------------------------------------
(* With history: the statements on a table of several rows                 *)

Last(t) == t[Len(t)]

\* No row is newer than the clock or than a later row.
InOrder(t, now) ==
    \A i \in DOMAIN t :
        /\ t[i].created <= now
        /\ \A j \in DOMAIN t : j < i => t[j].created <= t[i].created

Distinct(t) == \A i, j \in DOMAIN t : t[i].key = t[j].key => i = j

LEMMA LastRow ==
    ASSUME NEW t \in Seq(SessionRow), t # <<>>
    PROVE  /\ DOMAIN t = 1 .. Len(t) /\ Len(t) \in DOMAIN t
           /\ Last(t) \in SessionRow
           /\ \A i \in DOMAIN t : i \in Nat /\ i <= Len(t)
<1>1. DOMAIN t = 1 .. Len(t) /\ Len(t) \in Nat /\ Len(t) # 0
  OBVIOUS
<1>2. Len(t) \in DOMAIN t
  BY <1>1
<1> QED
  BY <1>1, <1>2 DEF Last

LEMMA RowType ==
    ASSUME NEW t \in Seq(SessionRow), NEW i \in DOMAIN t
    PROVE  t[i].created \in Int /\ t[i].revoked \in BOOLEAN /\ t[i].key \in Keys
<1>1. t[i] \in SessionRow
  OBVIOUS
<1> QED
  BY <1>1, SessionAssumption DEF SessionRow, Clock

(* In such a table the last row is the newest. *)
LEMMA LastIsLatest ==
    ASSUME NEW t \in Seq(SessionRow), NEW now, InOrder(t, now), Distinct(t),
           NEW k, Finds(t, k), Last(t).key = k
    PROVE  Latest(t) = {k}
<1>1. PICK i \in DOMAIN t : t[i].key = k /\ ~ t[i].revoked
  BY DEF Finds
<1>2. t # <<>>
  BY <1>1
<1>3. i = Len(t) /\ Len(t) \in DOMAIN t
  BY <1>1, <1>2, LastRow DEF Distinct, Last
<1>4. \A n \in DOMAIN t \ {Len(t)} : Before(t, n, Len(t))
  <2> SUFFICES ASSUME NEW n \in DOMAIN t \ {Len(t)} PROVE Before(t, n, Len(t))
    OBVIOUS
  <2>1. n < Len(t)
    BY <1>2, LastRow
  <2>2. t[n].created <= t[Len(t)].created
    BY <1>3, <2>1 DEF InOrder
  <2> QED
    BY <1>3, <2>1, <2>2, RowType DEF Before
<1>5. ASSUME NEW j \in DOMAIN t, j # Len(t)
      PROVE  ~ Before(t, Len(t), j)
  <2>1. j < Len(t) /\ j \in Nat /\ Len(t) \in Nat
    BY <1>2, <1>5, LastRow
  <2>2. t[j].created <= t[Len(t)].created
    BY <1>3, <2>1 DEF InOrder
  <2> QED
    BY <1>3, <2>1, <2>2, RowType DEF Before
<1>6. {j \in DOMAIN t : /\ ~ t[j].revoked
                        /\ \A n \in DOMAIN t \ {j} : t[n].revoked \/ Before(t, n, j)}
        = {Len(t)}
  BY <1>1, <1>3, <1>4, <1>5
<1> QED
  BY <1>1, <1>3, <1>6 DEF Latest

LEMMA InsertIsLast ==
    ASSUME NEW t \in Seq(SessionRow), NEW k \in Keys \ KeysOf(t), NEW now \in Clock,
           NEW b \in BOOLEAN, Distinct(t)
    PROVE  LET u == InsertSession(t, k, now, b)
           IN /\ Distinct(u)
              /\ InOrder(t, now) => InOrder(u, now)
              /\ u # <<>> /\ Last(u).key = k
<1> DEFINE row == [key |-> k, created |-> now, revoked |-> FALSE]
           u == InsertSession(t, k, now, b)
<1>1. row.key = k /\ row.created = now /\ now \in Int
  BY SessionAssumption DEF Clock
<1>2. CASE ~ b
  <2>1. u = <<row>>
    BY <1>2 DEF InsertSession
  <2> HIDE DEF row, u
  <2>2. DOMAIN u = {1} /\ u[1] = row /\ Len(u) = 1 /\ u # <<>>
    BY <2>1
  <2> QED
    BY <1>1, <2>2 DEF Distinct, InOrder, Last, u
<1>3. CASE b
  <2>1. u = Append(t, row)
    BY <1>3 DEF InsertSession
  <2> HIDE DEF row, u
  <2>2. /\ Len(t) \in Nat /\ DOMAIN t = 1 .. Len(t)
        /\ Len(u) = Len(t) + 1 /\ DOMAIN u = 1 .. Len(t) + 1 /\ u # <<>>
        /\ u[Len(t) + 1] = row
        /\ \A i \in DOMAIN t : u[i] = t[i]
    BY <2>1
  <2>3. \A i \in DOMAIN t : t[i].key # k
    BY DEF KeysOf
  <2>4. \A i \in DOMAIN u : i \in DOMAIN t \/ i = Len(t) + 1
    BY <2>2
  <2>5. Distinct(u)
    BY <1>1, <2>2, <2>3, <2>4 DEF Distinct
  <2>6. ASSUME InOrder(t, now), NEW i \in DOMAIN u
        PROVE  /\ u[i].created <= now
               /\ \A j \in DOMAIN u : j < i => u[j].created <= u[i].created
    <3>1. CASE i \in DOMAIN t
      <4>1. \A j \in DOMAIN u : j < i => j \in DOMAIN t
        BY <2>2, <3>1
      <4> QED
        BY <2>2, <2>6, <3>1, <4>1 DEF InOrder
    <3>2. CASE i = Len(t) + 1
      <4>1. \A j \in DOMAIN u : j < i => j \in DOMAIN t
        BY <2>2, <3>2
      <4> QED
        BY <1>1, <2>2, <2>6, <3>2, <4>1 DEF InOrder
    <3> QED
      BY <2>4, <2>6, <3>1, <3>2
  <2>7. InOrder(t, now) => InOrder(u, now)
    BY <2>6 DEF InOrder
  <2> QED
    BY <1>1, <2>2, <2>5, <2>7 DEF Last, u
<1> QED
  BY <1>2, <1>3

LEMMA PruneKeepsLast ==
    ASSUME NEW t \in Seq(SessionRow)
    PROVE  /\ Distinct(PruneSessions(t))
           /\ \A now : InOrder(t, now) =>
                PruneSessions(t) = IF t = <<>> THEN <<>> ELSE <<Last(t)>>
<1> DEFINE newest == {i \in DOMAIN t : \A n \in DOMAIN t \ {i} : Before(t, n, i)}
<1>1. Distinct(PruneSessions(t))
  <2>1. Len(PruneSessions(t)) <= 1 /\ PruneSessions(t) \in Seq(SessionRow)
    BY PruneType
  <2>2. DOMAIN PruneSessions(t) \subseteq {1}
    BY <2>1
  <2> QED
    BY <2>2 DEF Distinct
<1>2. ASSUME NEW now, InOrder(t, now)
      PROVE  PruneSessions(t) = IF t = <<>> THEN <<>> ELSE <<Last(t)>>
  <2>1. CASE t = <<>>
    <3>1. newest = {}
      BY <2>1
    <3> QED
      BY <2>1, <3>1 DEF PruneSessions
  <2>2. CASE t # <<>>
    <3>1. ASSUME NEW n \in DOMAIN t, n # Len(t)
          PROVE  Before(t, n, Len(t)) /\ ~ Before(t, Len(t), n)
      <4>1. n < Len(t) /\ n \in Nat /\ Len(t) \in Nat /\ Len(t) \in DOMAIN t
        BY <2>2, <3>1, LastRow
      <4>2. t[n].created <= t[Len(t)].created
        BY <1>2, <4>1 DEF InOrder
      <4> QED
        BY <4>1, <4>2, RowType DEF Before
    <3>2. Len(t) \in DOMAIN t
      BY <2>2, LastRow
    <3>3. newest = {Len(t)}
      BY <3>1, <3>2
    <3> HIDE DEF newest
    <3>4. (CHOOSE i \in newest : TRUE) = Len(t)
      BY <3>3
    <3> QED
      BY <2>2, <3>3, <3>4 DEF PruneSessions, Last, newest
  <2> QED
    BY <2>1, <2>2
<1> QED
  BY <1>1, <1>2

-----------------------------------------------------------------------------
(* With history: what the robot and its requests are to the newest row     *)

\* A register whose answer is a key.
Delivers(r) == r.at = "answer" /\ r.answer \in Keys

\* Only registers mint, and while all is calm the robot waits for the one
\* there is.
RegistersAreAwaited ==
    \A h \in Slots :
        /\ req[h].at = "mint" \/ Delivers(req[h]) => req[h].kind = "register"
        /\ calm /\ req[h].at # "free" /\ req[h].kind = "register" => h = waits

\* The robot is about to hear of a new session.
Minted == waits # NoSlot /\ Delivers(req[waits])

\* The last row is the one the robot is about to hear of, or its own: an
\* older row that is still live is nobody's.
LastIsItsOwn ==
    calm => IF Minted
            THEN sessions # <<>> /\ Last(sessions).key = req[waits].answer
            ELSE key \in Keys /\ Finds(sessions, key) => Last(sessions).key = key

\* What makes CalmKeyIsCurrent inductive, next to the types.
CalmInv ==
    /\ Distinct(sessions)
    /\ calm => InOrder(sessions, clock)
    /\ RegistersAreAwaited
    /\ LastIsItsOwn

\* Steps at which rows are at most revoked, time passes, and a request goes
\* on without a new session.
RowsStay ==
    /\ DOMAIN sessions' = DOMAIN sessions /\ Len(sessions') = Len(sessions)
    /\ \A i \in DOMAIN sessions :
          /\ sessions'[i].key = sessions[i].key
          /\ sessions'[i].created = sessions[i].created
          /\ sessions[i].revoked => sessions'[i].revoked

Moves(g) ==
    /\ req'[g].at # "free" => req[g].at # "free" /\ req'[g].kind = req[g].kind
    /\ req'[g].at = "mint" => req'[g].kind = "register"
    /\ Delivers(req'[g]) <=> Delivers(req[g])
    /\ Delivers(req[g]) => req'[g].answer = req[g].answer

LEMMA RowsStayUnchanged == UNCHANGED sessions => RowsStay
  BY DEF RowsStay

LEMMA RowsStayKeeps ==
    ASSUME DevicesTypeOK, RowsStay, NEW now \in Int, clock <= now
    PROVE  /\ Distinct(sessions) => Distinct(sessions')
           /\ InOrder(sessions, clock) => InOrder(sessions', now)
           /\ \A k : Finds(sessions', k) => Finds(sessions, k)
           /\ sessions # <<>> => sessions' # <<>> /\ Last(sessions').key = Last(sessions).key
<1>1. sessions \in Seq(SessionRow) /\ clock \in Int
  BY SessionAssumption DEF DevicesTypeOK, Clock
<1>2. Distinct(sessions) => Distinct(sessions')
  BY DEF RowsStay, Distinct
<1>3. ASSUME InOrder(sessions, clock)
      PROVE  InOrder(sessions', now)
  <2>1. \A i \in DOMAIN sessions : sessions[i].created <= clock /\ sessions[i].created \in Int
    BY <1>1, <1>3, RowType DEF InOrder
  <2>2. \A i \in DOMAIN sessions : sessions[i].created <= now
    BY <1>1, <2>1
  <2> QED
    BY <1>3, <2>2 DEF RowsStay, InOrder
<1>4. \A k : Finds(sessions', k) => Finds(sessions, k)
  BY DEF RowsStay, Finds
<1>5. ASSUME sessions # <<>>
      PROVE  sessions' # <<>> /\ Last(sessions').key = Last(sessions).key
  <2>1. Len(sessions) \in DOMAIN sessions
    BY <1>1, <1>5, LastRow
  <2> QED
    BY <2>1 DEF RowsStay, Last
<1> QED
  BY <1>2, <1>3, <1>4, <1>5

LEMMA FoundIsNotEmpty ==
    ASSUME NEW t, NEW k, Finds(t, k)
    PROVE  t # <<>>
  BY DEF Finds

LEMMA QuietKeepsCalm ==
    ASSUME DevicesTypeOK, CalmInv, RowsStay, \A g \in Slots : Moves(g),
           UNCHANGED <<key, waits>>,
           calm' => calm /\ clock' \in Int /\ clock <= clock'
    PROVE  CalmInv'
<1>1. waits \in Slots \cup {NoSlot} /\ clock \in Int
  BY SessionAssumption DEF DevicesTypeOK, Clock
<1>2. Distinct(sessions')
  BY <1>1, RowsStayKeeps DEF CalmInv
<1>3. calm' => InOrder(sessions', clock')
  BY RowsStayKeeps DEF CalmInv
<1>4. RegistersAreAwaited'
  <2> SUFFICES ASSUME NEW h \in Slots
               PROVE  /\ req'[h].at = "mint" \/ Delivers(req'[h]) => req'[h].kind = "register"
                      /\ calm' /\ req'[h].at # "free" /\ req'[h].kind = "register"
                            => h = waits'
    BY DEF RegistersAreAwaited
  <2>1. Moves(h)
    OBVIOUS
  <2>2. Delivers(req'[h]) => req'[h].at # "free"
    BY DEF Delivers
  <2> QED
    BY <2>1, <2>2 DEF Moves, CalmInv, RegistersAreAwaited
<1>5. /\ Minted' <=> Minted
      /\ Minted => req'[waits].answer = req[waits].answer
  BY <1>1 DEF Minted, Moves
<1>6. LastIsItsOwn'
  <2> SUFFICES ASSUME calm'
               PROVE  IF Minted
                      THEN sessions' # <<>> /\ Last(sessions').key = req[waits].answer
                      ELSE key \in Keys /\ Finds(sessions', key) => Last(sessions').key = key
    BY <1>5 DEF LastIsItsOwn
  <2>1. /\ \A k : Finds(sessions', k) => Finds(sessions, k)
        /\ sessions # <<>> => sessions' # <<>> /\ Last(sessions').key = Last(sessions).key
    BY <1>1, RowsStayKeeps
  <2> QED
    BY <2>1, FoundIsNotEmpty DEF CalmInv, LastIsItsOwn
<1> QED
  BY <1>2, <1>3, <1>4, <1>6 DEF CalmInv

\* The request of one step moves so, and the others stand still.
LEMMA OneMoves ==
    ASSUME DevicesTypeOK, NEW h \in Slots, NEW r, req' = [req EXCEPT ![h] = r],
           req[h].at \notin {"free", "answer"},
           r.at # "free" => r.kind = req[h].kind,
           r.at = "mint" => r.kind = "register",
           ~ Delivers(r), CalmInv
    PROVE  \A g \in Slots : Moves(g)
<1> SUFFICES ASSUME NEW g \in Slots PROVE Moves(g)
  OBVIOUS
<1>1. req'[g] = IF g = h THEN r ELSE req[g]
  BY DEF DevicesTypeOK
<1>2. ~ Delivers(req[h])
  BY DEF Delivers
<1>3. req[g].at = "mint" => req[g].kind = "register"
  BY DEF CalmInv, RegistersAreAwaited
<1> QED
  BY <1>1, <1>2, <1>3 DEF Moves

LEMMA GoesMoves ==
    ASSUME DevicesTypeOK, CalmInv, NEW h \in Slots, NEW step, Goes(h, step),
           step \in {"seen", "mint", "record", "event"},
           step = "mint" => req[h].kind = "register",
           req[h].at \notin {"free", "answer"}
    PROVE  \A g \in Slots : Moves(g)
<1> DEFINE r == [req[h] EXCEPT !.at = step]
<1>1. req[h] \in Request
  BY DEF DevicesTypeOK
<1>2. r.at = step /\ r.kind = req[h].kind
  BY <1>1 DEF Request
<1>3. req' = [req EXCEPT ![h] = r]
  BY DEF Goes
<1>4. ~ Delivers(r)
  BY <1>2 DEF Delivers
<1> HIDE DEF r
<1> QED
  BY <1>2, <1>3, <1>4, OneMoves

LEMMA RepliesMoves ==
    ASSUME DevicesTypeOK, CalmInv, NEW h \in Slots, NEW answer, Replies(h, answer),
           answer \in {"ok", "without", "stale", "refused"},
           req[h].at \notin {"free", "answer"}
    PROVE  \A g \in Slots : Moves(g)
<1> DEFINE r == IF waits = h THEN [req[h] EXCEPT !.at = "answer", !.answer = answer]
                ELSE NoRequest
<1>1. req[h] \in Request /\ answer \notin Keys
  BY DevicesAssumption DEF DevicesTypeOK
<1>2. req' = [req EXCEPT ![h] = r]
  BY DEF Replies
<1>3. CASE waits = h
  <2>1. r.at = "answer" /\ r.answer = answer /\ r.kind = req[h].kind
    BY <1>1, <1>3 DEF Request
  <2>2. ~ Delivers(r)
    BY <1>1, <2>1 DEF Delivers
  <2> HIDE DEF r
  <2> QED
    BY <1>2, <2>1, <2>2, OneMoves
<1>4. CASE waits # h
  <2>1. r.at = "free" /\ ~ Delivers(r)
    BY <1>4, NoRequestType DEF Delivers
  <2> HIDE DEF r
  <2> QED
    BY <1>2, <2>1, OneMoves
<1> QED
  BY <1>3, <1>4

LEMMA GoesOnMoves ==
    ASSUME DevicesTypeOK, CalmInv, NEW h \in Slots, GoesOn(h), req[h].at = "seen"
    PROVE  \A g \in Slots : Moves(g)
<1>1. req[h].kind \in Kinds
  BY DEF DevicesTypeOK, Request
<1>2. CASE req[h].kind = "register"
  <2>1. Goes(h, "mint")
    BY <1>2 DEF GoesOn
  <2> QED
    BY <1>2, <2>1, GoesMoves
<1>3. CASE req[h].kind = "bind"
  <2>1. Goes(h, "record")
    BY <1>3 DEF GoesOn
  <2> QED
    BY <2>1, GoesMoves
<1>4. CASE req[h].kind = "ask"
  <2>1. Replies(h, "ok")
    BY <1>4 DEF GoesOn
  <2> QED
    BY <2>1, RepliesMoves
<1> QED
  BY <1>1, <1>2, <1>3, <1>4 DEF Kinds

-----------------------------------------------------------------------------
(* Every step keeps it too *)

\* The handlers, but for the statement that inserts a session.
LEMMA HandlersKeepCalm ==
    ASSUME DevicesTypeOK, CalmInv, NEW h \in Slots,
           \/ GateFails(h) \/ GateServes(h) \/ GateRefuses(h) \/ Checks(h) \/ Refuses(h)
           \/ Adopts(h) \/ AdoptsNot(h) \/ MintFails(h) \/ RecordFails(h)
           \/ Stores(h) \/ StoreFails(h)
    PROVE  CalmInv'
<1>1. UNCHANGED <<sessions, key, waits, calm, clock>> /\ clock \in Int
  BY SessionAssumption
     DEF GateFails, GateServes, GateRefuses, Checks, Refuses, Adopts, AdoptsNot, MintFails,
         RecordFails, Stores, StoreFails, serverVars, robotVars, DevicesTypeOK, Clock
<1>2. \A g \in Slots : Moves(g)
  <2>1. CASE GateFails(h) \/ GateServes(h) \/ Checks(h)
    <3>1. Goes(h, "seen") /\ req[h].at \notin {"free", "answer"}
      BY <2>1 DEF GateFails, GateServes, Checks, At
    <3> QED
      BY <3>1, GoesMoves
  <2>2. CASE GateRefuses(h) \/ Refuses(h) \/ MintFails(h) \/ Stores(h) \/ StoreFails(h)
    <3>1. /\ \E a \in {"ok", "without", "stale", "refused"} : Replies(h, a)
          /\ req[h].at \notin {"free", "answer"}
      BY <2>2 DEF GateRefuses, Refuses, MintFails, Stores, StoreFails, At
    <3> QED
      BY <3>1, RepliesMoves
  <2>3. CASE Adopts(h) \/ AdoptsNot(h)
    BY <2>3, GoesOnMoves DEF Adopts, AdoptsNot, At
  <2>4. CASE RecordFails(h)
    <3> DEFINE r == [req[h] EXCEPT !.at = "event", !.whole = FALSE]
    <3>1. req[h] \in Request
      BY DEF DevicesTypeOK
    <3>2. r.at = "event" /\ r.kind = req[h].kind
      BY <3>1 DEF Request
    <3>3. req' = [req EXCEPT ![h] = r] /\ req[h].at \notin {"free", "answer"}
      BY <2>4 DEF RecordFails, At
    <3> HIDE DEF r
    <3>4. ~ Delivers(r)
      BY <3>2 DEF Delivers
    <3> QED
      BY <3>2, <3>3, <3>4, OneMoves
  <2> QED
    BY <2>1, <2>2, <2>3, <2>4
<1> QED
  BY <1>1, <1>2, QuietKeepsCalm, RowsStayUnchanged

\* record_bind: the requests of others may lose what made them whole.
LEMMA RecordsKeepsCalm ==
    ASSUME DevicesTypeOK, CalmInv, NEW h \in Slots, Records(h)
    PROVE  CalmInv'
<1>0. clock \in Int
  BY SessionAssumption DEF DevicesTypeOK, Clock
<1>1. UNCHANGED <<sessions, key, waits, calm, clock>>
  BY DEF Records, robotVars
<1>2. ASSUME NEW g \in Slots
      PROVE  Moves(g)
  <2>1. req[g] \in Request
    BY DEF DevicesTypeOK
  <2>2. req[g].at = "mint" => req[g].kind = "register"
    BY DEF CalmInv, RegistersAreAwaited
  <2>3. CASE g = h
    <3>1. req'[g] = [req[g] EXCEPT !.at = "event", !.whole = device.known]
      BY <2>3 DEF Records
    <3>2. req'[g].at = "event" /\ req'[g].kind = req[g].kind /\ req[g].at = "record"
      BY <2>1, <2>3, <3>1 DEF Request, Records, At
    <3> QED
      BY <3>2 DEF Moves, Delivers
  <2>4. CASE g # h
    <3>1. req'[g] = [req[g] EXCEPT !.whole = FALSE]
      BY <2>4 DEF Records
    <3>2. /\ req'[g].at = req[g].at /\ req'[g].kind = req[g].kind
          /\ req'[g].answer = req[g].answer
      BY <2>1, <3>1 DEF Request
    <3> QED
      BY <2>2, <3>2 DEF Moves, Delivers
  <2> QED
    BY <2>3, <2>4
<1> QED
  BY <1>0, <1>1, <1>2, QuietKeepsCalm, RowsStayUnchanged

\* revoke_session: an older row of the cookie's, or the newest itself.
LEMMA GateRevokesKeepsCalm ==
    ASSUME DevicesTypeOK, CalmInv, NEW h \in Slots, GateRevokes(h)
    PROVE  CalmInv'
<1>1. UNCHANGED <<key, waits, calm, clock>> /\ clock \in Int
  BY SessionAssumption DEF GateRevokes, robotVars, DevicesTypeOK, Clock
<1>2. RowsStay
  <2>1. /\ req[h].cookie \in Keys /\ sessions \in Seq(SessionRow)
        /\ sessions' = Revoke(sessions, req[h].cookie)
    BY DEF GateRevokes, DevicesTypeOK
  <2>2. DOMAIN sessions' = DOMAIN sessions /\ Len(sessions') = Len(sessions)
    <3>1. DOMAIN sessions' = DOMAIN sessions
      BY <2>1 DEF Revoke
    <3> QED
      BY <2>1, <3>1, RevokeType
  <2>3. ASSUME NEW i \in DOMAIN sessions
        PROVE  /\ sessions'[i].key = sessions[i].key
               /\ sessions'[i].created = sessions[i].created
               /\ sessions[i].revoked => sessions'[i].revoked
    <3>1. sessions[i] \in SessionRow
      BY <2>1
    <3>2. \/ sessions'[i] = sessions[i]
          \/ sessions'[i] = [sessions[i] EXCEPT !.revoked = TRUE]
      BY <2>1 DEF Revoke
    <3> QED
      BY <3>1, <3>2 DEF SessionRow
  <2> QED
    BY <2>2, <2>3 DEF RowsStay
<1>3. \A g \in Slots : Moves(g)
  BY RepliesMoves DEF GateRevokes, At
<1> QED
  BY <1>1, <1>2, <1>3, QuietKeepsCalm

\* Steps that touch neither the sessions nor the requests.
LEMMA OthersKeepCalm ==
    ASSUME DevicesTypeOK, CalmInv,
           Wants \/ VersionCheck \/ TimePasses \/ ClockIsSetBack \/ UNCHANGED vars
    PROVE  CalmInv'
<1>1. clock \in Int
  BY SessionAssumption DEF DevicesTypeOK, Clock
<1>2. UNCHANGED <<sessions, req, key, waits>>
  BY DEF Wants, VersionCheck, TimePasses, ClockIsSetBack, vars, serverVars, robotVars
<1>3. calm' => calm /\ clock' \in Int /\ clock <= clock'
  <2>1. CASE ClockIsSetBack
    BY <2>1 DEF ClockIsSetBack
  <2>2. CASE TimePasses
    BY <1>1, <2>2 DEF TimePasses
  <2>3. CASE Wants \/ VersionCheck \/ UNCHANGED vars
    <3>1. calm' = calm /\ clock' = clock
      BY <2>3 DEF Wants, VersionCheck, vars, serverVars
    <3> QED
      BY <1>1, <3>1
  <2> QED
    BY <2>1, <2>2, <2>3
<1>4. \A g \in Slots : Moves(g)
  BY <1>2 DEF Moves, CalmInv, RegistersAreAwaited
<1> QED
  BY <1>2, <1>3, <1>4, QuietKeepsCalm, RowsStayUnchanged

\* insert_session: the register the robot waits for, while all is calm, and
\* the newest row.
LEMMA MintsKeepsCalm ==
    ASSUME DevicesTypeOK, CalmInv, NEW h \in Slots, Mints(h)
    PROVE  CalmInv'
<1>1. /\ UNCHANGED <<key, waits, calm, clock>>
      /\ req[h].at = "mint"
      /\ sessions' = InsertSession(sessions, Fresh, clock, history)
      /\ Replies(h, Fresh)
  BY DEF Mints, At, robotVars
<1>2. /\ sessions \in Seq(SessionRow) /\ clock \in Clock /\ history \in BOOLEAN
      /\ waits \in Slots \cup {NoSlot} /\ req \in [Slots -> Request]
  BY DEF DevicesTypeOK
<1>3. Fresh \in Keys \ KeysOf(sessions)
  <2>1. \E k \in Keys : k \notin Held
    BY DEF Mints, CanMint
  <2>2. Fresh \in Keys /\ Fresh \notin Held
    BY <2>1 DEF Fresh
  <2> QED
    BY <2>2 DEF Held
<1>4. /\ Distinct(sessions')
      /\ InOrder(sessions, clock) => InOrder(sessions', clock)
      /\ sessions' # <<>> /\ Last(sessions').key = Fresh
  BY <1>1, <1>2, <1>3, InsertIsLast DEF CalmInv
<1>5. req[h].kind = "register" /\ (calm => h = waits)
  BY <1>1 DEF CalmInv, RegistersAreAwaited
<1>6. CASE waits = h
  <2> DEFINE r == [req[h] EXCEPT !.at = "answer", !.answer = Fresh]
  <2>1. req' = [req EXCEPT ![h] = r]
    BY <1>1, <1>6 DEF Replies
  <2>2. r.at = "answer" /\ r.answer = Fresh /\ r.kind = "register"
    BY <1>2, <1>5 DEF Request
  <2> HIDE DEF r
  <2>3. req'[h] = r /\ \A g \in Slots : g # h => req'[g] = req[g]
    BY <1>2, <2>1
  <2>4. RegistersAreAwaited'
    BY <1>1, <1>6, <2>2, <2>3 DEF CalmInv, RegistersAreAwaited
  <2>5. Minted' /\ req'[waits].answer = Fresh
    BY <1>1, <1>3, <1>6, <2>2, <2>3, DevicesAssumption DEF Minted, Delivers
  <2>6. LastIsItsOwn'
    BY <1>1, <1>4, <2>5 DEF LastIsItsOwn
  <2> QED
    BY <1>1, <1>4, <2>4, <2>6 DEF CalmInv
<1>7. CASE waits # h
  <2>1. ~ calm' /\ req' = [req EXCEPT ![h] = NoRequest]
    BY <1>1, <1>5, <1>7 DEF Replies
  <2>2. /\ ~ Delivers(req'[h]) /\ req'[h].at = "free"
        /\ \A g \in Slots : g # h => req'[g] = req[g]
    BY <1>2, <2>1, NoRequestType DEF Delivers
  <2>3. RegistersAreAwaited'
    BY <2>1, <2>2 DEF CalmInv, RegistersAreAwaited
  <2> QED
    BY <1>4, <2>1, <2>3 DEF CalmInv, LastIsItsOwn
<1> QED
  BY <1>6, <1>7

\* A register is sent only when none is under way that anybody waits for.
LEMMA SendsKeepsCalm ==
    ASSUME DevicesTypeOK, CalmInv, NEW h \in Slots, Sends(h)
    PROVE  CalmInv'
<1>1. /\ UNCHANGED <<sessions, key, calm, clock>>
      /\ waits = NoSlot /\ waits' = h /\ req[h].at = "free"
  BY DEF Sends, serverVars
<1>2. PICK r : /\ req' = [req EXCEPT ![h] = r]
               /\ r.at \in {"exists", "gate"}
  <2> DEFINE r1 == [NoRequest EXCEPT !.kind = "register", !.at = "exists"]
             r2 == [NoRequest EXCEPT !.kind = "bind", !.at = "gate", !.cookie = key,
                                     !.change = asked]
             r3 == [NoRequest EXCEPT !.at = "gate", !.cookie = key]
  <2>1. r1.at = "exists" /\ r2.at = "gate" /\ r3.at = "gate"
    BY DEF NoRequest
  <2>2. \/ req' = [req EXCEPT ![h] = r1]
        \/ req' = [req EXCEPT ![h] = r2]
        \/ req' = [req EXCEPT ![h] = r3]
    BY DEF Sends
  <2> HIDE DEF r1, r2, r3
  <2> QED
    BY <2>1, <2>2
<1>3. /\ req'[h] = r /\ ~ Delivers(r)
      /\ \A g \in Slots : g # h => req'[g] = req[g]
  BY <1>2 DEF DevicesTypeOK, Delivers
<1>4. RegistersAreAwaited'
  <2> SUFFICES ASSUME NEW g \in Slots
               PROVE  /\ req'[g].at = "mint" \/ Delivers(req'[g]) => req'[g].kind = "register"
                      /\ calm' /\ req'[g].at # "free" /\ req'[g].kind = "register"
                            => g = waits'
    BY DEF RegistersAreAwaited
  <2>1. CASE g = h
    BY <1>1, <1>2, <1>3, <2>1
  <2>2. CASE g # h
    <3>1. g # waits
      BY <1>1, DevicesAssumption
    <3> QED
      BY <1>1, <1>3, <2>2, <3>1 DEF CalmInv, RegistersAreAwaited
  <2> QED
    BY <2>1, <2>2
<1>5. ~ Minted /\ ~ Minted'
  BY <1>1, <1>3 DEF Minted
<1>6. LastIsItsOwn'
  BY <1>1, <1>5 DEF CalmInv, LastIsItsOwn
<1> QED
  BY <1>1, <1>4, <1>6 DEF CalmInv

\* The robot hears of its new session, the newest, or keeps what it had.
LEMMA HearsKeepsCalm ==
    ASSUME DevicesTypeOK, CalmInv, NEW h \in Slots, Hears(h)
    PROVE  CalmInv'
<1>1. /\ UNCHANGED <<sessions, calm, clock>>
      /\ req[h].at = "answer" /\ waits = h /\ waits' = NoSlot
      /\ req' = [req EXCEPT ![h] = NoRequest]
      /\ key' = CASE req[h].answer \in Keys -> req[h].answer
                  [] req[h].answer = "without" -> Empty
                  [] req[h].answer = "stale" -> Absent
                  [] OTHER -> key
  BY DEF Hears, At, serverVars
<1>2. h # NoSlot
  BY DevicesAssumption
<1>3. /\ req'[h].at = "free"
      /\ \A g \in Slots : g # h => req'[g] = req[g]
  BY <1>1, NoRequestType DEF DevicesTypeOK
<1>4. RegistersAreAwaited'
  BY <1>1, <1>3 DEF CalmInv, RegistersAreAwaited, Delivers
<1>5. ~ Minted' /\ (Minted <=> req[h].answer \in Keys)
  BY <1>1, <1>2 DEF Minted, Delivers
<1>6. LastIsItsOwn'
  <2> SUFFICES ASSUME calm, key' \in Keys, Finds(sessions, key')
               PROVE  Last(sessions).key = key'
    BY <1>1, <1>5 DEF LastIsItsOwn
  <2>1. CASE req[h].answer \in Keys
    <3>1. key' = req[h].answer
      <4>1. req[h].answer \notin {"without", "stale"}
        BY <2>1, DevicesAssumption
      <4> QED
        BY <1>1, <2>1, <4>1
    <3>2. Last(sessions).key = req[waits].answer
      BY <1>1, <1>5, <2>1 DEF CalmInv, LastIsItsOwn
    <3> QED
      BY <1>1, <3>1, <3>2
  <2>2. CASE req[h].answer \notin Keys
    <3>1. key' = key
      <4>1. Empty \notin Keys /\ Absent \notin Keys
        BY DevicesAssumption DEF Empty, Absent
      <4> QED
        BY <1>1, <2>2, <4>1
    <3> QED
      BY <1>5, <2>2, <3>1 DEF CalmInv, LastIsItsOwn
  <2> QED
    BY <2>1, <2>2
<1> QED
  BY <1>1, <1>4, <1>6 DEF CalmInv

\* A request given up was no register, or calm is over.
LEMMA GivingUpKeepsCalm ==
    ASSUME DevicesTypeOK, CalmInv, GivesUp \/ Reboots
    PROVE  CalmInv'
<1>1. /\ UNCHANGED <<sessions, key, clock>>
      /\ waits' = NoSlot /\ req' = Unanswered
      /\ calm' => calm /\ ~ Registers
  BY DEF GivesUp, Reboots, serverVars
<1>2. \A g \in Slots : req'[g] = req[g] \/ (req'[g].at = "free" /\ ~ Delivers(req'[g]))
  BY <1>1, NoRequestType DEF Unanswered, Delivers
<1>3. RegistersAreAwaited'
  <2> SUFFICES ASSUME NEW g \in Slots
               PROVE  /\ req'[g].at = "mint" \/ Delivers(req'[g]) => req'[g].kind = "register"
                      /\ ~ (calm' /\ req'[g].at # "free" /\ req'[g].kind = "register")
    BY DEF RegistersAreAwaited
  <2>1. g # NoSlot
    BY DevicesAssumption
  <2> QED
    BY <1>1, <1>2, <2>1 DEF CalmInv, RegistersAreAwaited, Registers
<1>4. ~ Minted' /\ (calm' => ~ Minted)
  <2>1. Minted => Registers
    BY DEF CalmInv, RegistersAreAwaited, Minted, Registers, DevicesTypeOK
  <2> QED
    BY <1>1, <2>1 DEF Minted
<1>5. LastIsItsOwn'
  BY <1>1, <1>4 DEF CalmInv, LastIsItsOwn
<1> QED
  BY <1>1, <1>3, <1>5 DEF CalmInv

LEMMA CrashesKeepsCalm ==
    ASSUME DevicesTypeOK, CalmInv, Crashes
    PROVE  CalmInv'
<1>1. /\ UNCHANGED <<sessions, key, clock>>
      /\ waits' = NoSlot /\ req' = [h \in Slots |-> NoRequest]
      /\ calm' => calm /\ ~ Registers
  BY DEF Crashes
<1>2. \A g \in Slots : req'[g].at = "free" /\ ~ Delivers(req'[g])
  BY <1>1, NoRequestType DEF Delivers
<1>3. RegistersAreAwaited'
  BY <1>2 DEF RegistersAreAwaited
<1>4. ~ Minted' /\ (calm' => ~ Minted)
  <2>1. Minted => Registers
    BY DEF CalmInv, RegistersAreAwaited, Minted, Registers, DevicesTypeOK
  <2> QED
    BY <1>1, <2>1 DEF Minted
<1>5. LastIsItsOwn'
  BY <1>1, <1>4 DEF CalmInv, LastIsItsOwn
<1> QED
  BY <1>1, <1>3, <1>5 DEF CalmInv

\* The boot's prune keeps the newest row, which is the last one.
LEMMA StartsKeepsCalm ==
    ASSUME DevicesInv, CalmInv, Starts
    PROVE  CalmInv'
<1>1. /\ UNCHANGED <<req, key, waits, calm, clock>>
      /\ sessions' = sessions \/ sessions' = PruneSessions(sessions)
  BY DEF Starts, robotVars
<1>2. sessions \in Seq(SessionRow) /\ waits \in Slots \cup {NoSlot}
  BY DEF DevicesInv, DevicesTypeOK
<1>3. ~ Minted
  BY <1>2 DEF DevicesInv, DownIsQuiet, Starts, Minted, Delivers
<1>4. CASE sessions' = sessions
  BY <1>1, <1>4 DEF CalmInv, RegistersAreAwaited, LastIsItsOwn, Minted
<1>5. CASE sessions' = PruneSessions(sessions)
  <2>1. Distinct(sessions')
    BY <1>2, <1>5, PruneKeepsLast
  <2>2. ASSUME calm
        PROVE  sessions' = sessions \/ (sessions # <<>> /\ sessions' = <<Last(sessions)>>)
    BY <1>2, <1>5, <2>2, PruneKeepsLast DEF CalmInv
  <2>3. ASSUME calm, sessions # <<>>, sessions' = <<Last(sessions)>>
        PROVE  /\ InOrder(sessions', clock)
               /\ Last(sessions').key = Last(sessions).key
               /\ \A k : Finds(sessions', k) => Finds(sessions, k)
    <3>1. Len(sessions) \in DOMAIN sessions
      BY <1>2, <2>3, LastRow
    <3>2. Last(sessions).created <= clock
      BY <2>3, <3>1 DEF CalmInv, InOrder, Last
    <3>3. DOMAIN sessions' = {1} /\ Len(sessions') = 1 /\ sessions'[1] = Last(sessions)
      BY <2>3
    <3>4. Last(sessions).created \in Int
      BY <1>2, <3>1, RowType DEF Last
    <3> QED
      BY <3>1, <3>2, <3>3, <3>4 DEF InOrder, Last, Finds
  <2>4. (calm => InOrder(sessions, clock))'
    BY <1>1, <2>2, <2>3 DEF CalmInv
  <2>5. LastIsItsOwn'
    BY <1>1, <1>3, <2>2, <2>3 DEF CalmInv, LastIsItsOwn, Minted
  <2>6. RegistersAreAwaited'
    BY <1>1 DEF CalmInv, RegistersAreAwaited
  <2> QED
    BY <2>1, <2>4, <2>5, <2>6 DEF CalmInv
<1> QED
  BY <1>1, <1>4, <1>5

LEMMA CalmInvInit == Init => CalmInv
<1> SUFFICES ASSUME Init PROVE CalmInv
  OBVIOUS
<1>1. waits = NoSlot /\ \A h \in Slots : req[h].at = "free" /\ ~ Delivers(req[h])
  BY NoRequestType DEF Init, Delivers
<1>2. RegistersAreAwaited /\ ~ Minted
  BY <1>1 DEF RegistersAreAwaited, Minted
<1>3. CASE sessions = <<>>
  BY <1>2, <1>3, FoundIsNotEmpty DEF CalmInv, Distinct, InOrder, LastIsItsOwn
<1>4. CASE sessions # <<>>
  <2> DEFINE k == CHOOSE k \in Keys : TRUE
  <2>1. ServedDatabase
    BY <1>4 DEF Init, NewDatabase, CatchAllDatabase
  <2>2. sessions = <<[key |-> k, created |-> 0, revoked |-> FALSE]>> /\ key = k /\ clock = 0
    BY <2>1 DEF ServedDatabase, Init
  <2> HIDE DEF k
  <2>3. /\ DOMAIN sessions = {1} /\ Len(sessions) = 1
        /\ sessions[1].key = k /\ sessions[1].created = 0
    BY <2>2
  <2> QED
    BY <1>2, <2>2, <2>3 DEF CalmInv, Distinct, InOrder, LastIsItsOwn, Last
<1> QED
  BY <1>3, <1>4

LEMMA CalmInvStep == DevicesInv /\ CalmInv /\ [Next]_vars => CalmInv'
<1> SUFFICES ASSUME DevicesInv, CalmInv, [Next]_vars PROVE CalmInv'
  OBVIOUS
<1>1. DevicesTypeOK
  BY DEF DevicesInv
<1>2. ASSUME NEW h \in Slots, Handles(h) \/ HandlesBadly(h) PROVE CalmInv'
  BY <1>1, <1>2, HandlersKeepCalm, RecordsKeepsCalm, GateRevokesKeepsCalm, MintsKeepsCalm
     DEF Handles, HandlesBadly
<1>3. ASSUME NEW h \in Slots, Sends(h) \/ Hears(h) PROVE CalmInv'
  BY <1>1, <1>3, SendsKeepsCalm, HearsKeepsCalm
<1> QED
  BY <1>1, <1>2, <1>3, StartsKeepsCalm, GivingUpKeepsCalm, OthersKeepCalm, CrashesKeepsCalm
     DEF Next

\* The invariant of the build with history, where old sessions stay live.
THEOREM CalmInvariance == Spec => []CalmInv
  BY CalmInvInit, CalmInvStep, DevicesInvariance, PTL DEF Spec

\* With history, too, the key commands are encrypted under is the key of a
\* robot whose cookie is accepted, after any number of registrations, boots
\* of either build, expiries and crashes, as long as each registration is
\* heard before the next is sent and the clock is not set back.
THEOREM CalmKeyIsAlwaysCurrent == Spec => []CalmKeyIsCurrent
<1>1. ASSUME DevicesInv, CalmInv
      PROVE  CalmKeyIsCurrent
  <2> SUFFICES ASSUME calm, ~ Registers, key \in Keys, Finds(sessions, key)
               PROVE  Latest(sessions) = {key}
    BY DEF CalmKeyIsCurrent
  <2>1. ~ Minted
    BY <1>1 DEF CalmInv, RegistersAreAwaited, Minted, Registers, DevicesInv, DevicesTypeOK
  <2>2. Last(sessions).key = key
    BY <1>1, <2>1 DEF CalmInv, LastIsItsOwn
  <2> QED
    BY <1>1, <2>2, LastIsLatest DEF CalmInv, DevicesInv, DevicesTypeOK
<1> QED
  BY <1>1, CalmInvariance, DevicesInvariance, PTL
=============================================================================
