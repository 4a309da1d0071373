------------------------- MODULE CommandQueueProofs -------------------------
(***************************************************************************)
(* Theorems about the command queue, for any set of robots, connections    *)
(* and rows, any TTL and any queue size: type correctness, the bound on    *)
(* the age of live rows, the order of pushes, that the queue implements    *)
(* CommandLife and CommandLine, and that every acknowledged row stands for *)
(* an answer of the robot.                                                 *)
(***************************************************************************)
EXTENDS CommandQueue, GatewayProofs, FiniteSetTheorems

-----------------------------------------------------------------------------
(* What the statements do to a table.                                      *)

LEMMA NeverType == Never \in Nat /\ Never > MaxAge /\ MaxAge \in Nat /\ Ttl \in Nat
BY TableAssumption DEF Never

LEMMA NoRowType == NoRow \in Row
BY TableAssumption, NeverType DEF NoRow, Row, States, Live

LEMMA InsertFacts ==
    ASSUME NEW t \in Table, NEW i \in Commands, NEW s \in Sns, NEW ty \in InfoTypes
    PROVE  /\ Insert(t, i, s, ty) \in Table
           /\ Insert(t, i, s, ty)[i].state = "pending"
           /\ Insert(t, i, s, ty)[i].sn = s
           /\ Insert(t, i, s, ty)[i].age = 0
           /\ Insert(t, i, s, ty)[i].sentAge = Never
           /\ \A j \in Commands : j # i => Insert(t, i, s, ty)[j] = t[j]
<1> DEFINE row == [state |-> "pending", sn |-> s, infoType |-> ty,
                   age |-> 0, sentAge |-> Never]
<1>1. row \in Row
  BY NeverType DEF Row, States, Live
<1>2. row.state = "pending" /\ row.sn = s /\ row.age = 0 /\ row.sentAge = Never
  OBVIOUS
<1>3. Insert(t, i, s, ty) = [t EXCEPT ![i] = row]
  BY DEF Insert
<1> HIDE DEF row
<1>4. QED
  BY <1>1, <1>2, <1>3 DEF Table

LEMMA ExpireFacts ==
    ASSUME NEW t \in Table
    PROVE  /\ Expire(t) \in Table
           /\ \A j \in Commands :
                /\ Expire(t)[j].sn = t[j].sn /\ Expire(t)[j].infoType = t[j].infoType
                /\ Expire(t)[j].age = t[j].age
                /\ Expire(t)[j].sentAge = t[j].sentAge
                /\ Expire(t)[j].state = IF Overdue(t[j]) THEN "expired" ELSE t[j].state
<1>1. ASSUME NEW j \in Commands
      PROVE  [t[j] EXCEPT !.state = "expired"] \in Row
  BY DEF Table, Row, States, Live
<1>2. QED
  BY <1>1 DEF Expire, Table, Row

LEMMA ClaimFacts ==
    ASSUME NEW t \in Table, NEW s
    PROVE  /\ Claim(t, s) \in Table
           /\ \A j \in Commands :
                /\ Claim(t, s)[j].sn = t[j].sn /\ Claim(t, s)[j].infoType = t[j].infoType
                /\ j \in PendingOf(t, s) =>
                     Claim(t, s)[j].state = "sent" /\ Claim(t, s)[j].sentAge = 0
                /\ j \notin PendingOf(t, s) => Claim(t, s)[j] = t[j]
<1>1. ASSUME NEW j \in Commands
      PROVE  /\ [t[j] EXCEPT !.state = "sent", !.sentAge = 0] \in Row
             /\ [t[j] EXCEPT !.state = "sent", !.sentAge = 0].state = "sent"
             /\ [t[j] EXCEPT !.state = "sent", !.sentAge = 0].sentAge = 0
             /\ [t[j] EXCEPT !.state = "sent", !.sentAge = 0].sn = t[j].sn
             /\ [t[j] EXCEPT !.state = "sent", !.sentAge = 0].infoType = t[j].infoType
  <2>1. t[j] \in Row
    BY DEF Table
  <2>2. "sent" \in States /\ 0 \in 0 .. Never
    BY NeverType DEF States, Live
  <2>3. QED
    BY <2>1, <2>2 DEF Row
<1>2. QED
  BY <1>1 DEF Claim, Table

LEMMA FailFacts ==
    ASSUME NEW t \in Table, NEW i \in Commands
    PROVE  /\ Fail(t, i) \in Table
           /\ t[i].state = "acked" => Fail(t, i) = t
           /\ t[i].state # "acked" => Fail(t, i)[i].state = "failed"
           /\ Fail(t, i)[i].sn = t[i].sn /\ Fail(t, i)[i].infoType = t[i].infoType
           /\ \A j \in Commands : j # i => Fail(t, i)[j] = t[j]
<1>1. /\ [t[i] EXCEPT !.state = "failed", !.sentAge = Never] \in Row
      /\ [t[i] EXCEPT !.state = "failed", !.sentAge = Never].state = "failed"
      /\ [t[i] EXCEPT !.state = "failed", !.sentAge = Never].sn = t[i].sn
      /\ [t[i] EXCEPT !.state = "failed", !.sentAge = Never].infoType = t[i].infoType
  <2>1. t[i] \in Row
    BY DEF Table
  <2>2. "failed" \in States /\ Never \in 0 .. Never
    BY NeverType DEF States
  <2>3. QED
    BY <2>1, <2>2 DEF Row
<1>2. t[i].state # "acked" =>
        Fail(t, i) = [t EXCEPT ![i] = [t[i] EXCEPT !.state = "failed", !.sentAge = Never]]
  BY DEF Fail, Table, Row
<1>3. QED
  BY <1>1, <1>2 DEF Fail, Table

LEMMA AckFacts ==
    ASSUME NEW t \in Table, NEW s, NEW ty
    PROVE  /\ Ack(t, s, ty) \in Table
           /\ \A j \in Commands :
                /\ Ack(t, s, ty)[j].sn = t[j].sn /\ Ack(t, s, ty)[j].infoType = t[j].infoType
                /\ j \in AckTarget(t, s, ty) => Ack(t, s, ty)[j].state = "acked"
                /\ j \notin AckTarget(t, s, ty) => Ack(t, s, ty)[j] = t[j]
           /\ \A j \in AckTarget(t, s, ty) :
                /\ j \in Commands /\ t[j].state = "sent"
                /\ t[j].sn = s /\ t[j].infoType = ty
           /\ \A i, j \in AckTarget(t, s, ty) : i = j
<1>1. ASSUME NEW j \in Commands
      PROVE  /\ [t[j] EXCEPT !.state = "acked"] \in Row
             /\ [t[j] EXCEPT !.state = "acked"].state = "acked"
             /\ [t[j] EXCEPT !.state = "acked"].sn = t[j].sn
             /\ [t[j] EXCEPT !.state = "acked"].infoType = t[j].infoType
  BY DEF Table, Row, States, Live
<1>2. \A j \in AckTarget(t, s, ty) :
        /\ j \in Commands /\ t[j].state = "sent"
        /\ t[j].sn = s /\ t[j].infoType = ty
  BY DEF AckTarget, Ackable
<1>3. ASSUME NEW i \in AckTarget(t, s, ty), NEW j \in AckTarget(t, s, ty)
      PROVE  i = j
  <2>1. /\ i \in Nat /\ t[i].sentAge \in Nat
        /\ j \in Nat /\ t[j].sentAge \in Nat
    <3>1. t[i] \in Row /\ t[j] \in Row /\ i \in Nat /\ j \in Nat
      BY <1>2, IdentitiesAssumption DEF Table
    <3>2. t[i].sentAge \in 0 .. Never /\ t[j].sentAge \in 0 .. Never
      BY <3>1 DEF Row
    <3>3. QED
      BY <3>1, <3>2, NeverType
  <2>2. /\ t[i].sentAge < t[j].sentAge \/ (t[i].sentAge = t[j].sentAge /\ i >= j)
        /\ t[j].sentAge < t[i].sentAge \/ (t[j].sentAge = t[i].sentAge /\ j >= i)
    BY DEF AckTarget
  <2>3. QED
    BY <2>1, <2>2
<1>4. QED
  BY <1>1, <1>2, <1>3 DEF Ack, Table

LEMMA OlderType == \A a \in 0 .. MaxAge : Older(a) \in 0 .. MaxAge /\ Older(a) <= a + 1
BY NeverType DEF Older

LEMMA AgedFacts ==
    ASSUME NEW t \in Table
    PROVE  /\ Aged(t) \in Table
           /\ \A j \in Commands :
                /\ Aged(t)[j].sn = t[j].sn /\ Aged(t)[j].infoType = t[j].infoType
                /\ Aged(t)[j].state = t[j].state
                /\ t[j].sentAge = Never => Aged(t)[j].sentAge = Never
                /\ SinceSent(Aged(t)[j]) <= SinceSent(t[j]) + 1
<1> SUFFICES ASSUME NEW j \in Commands
             PROVE  /\ Aged(t)[j] \in Row
                    /\ Aged(t)[j].sn = t[j].sn /\ Aged(t)[j].infoType = t[j].infoType
                    /\ Aged(t)[j].state = t[j].state
                    /\ t[j].sentAge = Never => Aged(t)[j].sentAge = Never
                    /\ SinceSent(Aged(t)[j]) <= SinceSent(t[j]) + 1
  BY DEF Aged, Table
<1>1. /\ t[j] \in Row
      /\ t[j].age \in 0 .. MaxAge
      /\ t[j].sentAge \in 0 .. Never
  BY DEF Table, Row
<1>2. CASE t[j].state = "none"
  <2>1. Aged(t)[j] = t[j]
    BY <1>2 DEF Aged
  <2>2. QED
    BY <1>1, <2>1, NeverType DEF SinceSent
<1>3. CASE t[j].state # "none"
  <2> DEFINE sa == IF t[j].sentAge = Never THEN t[j].sentAge ELSE Older(t[j].sentAge)
  <2>1. Aged(t)[j] = [t[j] EXCEPT !.age = Older(t[j].age), !.sentAge = sa]
    BY <1>1, <1>3 DEF Aged, Row
  <2>2. Older(t[j].age) \in 0 .. MaxAge /\ Older(t[j].age) <= t[j].age + 1
    BY <1>1, OlderType
  <2>3. /\ sa \in 0 .. Never
        /\ t[j].sentAge = Never => sa = Never
        /\ t[j].sentAge # Never => sa # Never /\ sa <= t[j].sentAge + 1
    <3>1. CASE t[j].sentAge = Never
      BY <1>1, <3>1
    <3>2. CASE t[j].sentAge # Never
      <4>1. t[j].sentAge \in 0 .. MaxAge
        BY <1>1, <3>2, TableAssumption DEF Never
      <4>2. Older(t[j].sentAge) \in 0 .. MaxAge /\ Older(t[j].sentAge) <= t[j].sentAge + 1
        BY <4>1, OlderType
      <4>3. QED
        BY <3>2, <4>2, NeverType
    <3>3. QED
      BY <3>1, <3>2
  <2>4. /\ Aged(t)[j] \in Row
        /\ Aged(t)[j].sn = t[j].sn /\ Aged(t)[j].infoType = t[j].infoType
        /\ Aged(t)[j].state = t[j].state
        /\ Aged(t)[j].age = Older(t[j].age)
        /\ Aged(t)[j].sentAge = sa
    BY <1>1, <2>1, <2>2, <2>3 DEF Row
  <2>5. QED
    BY <1>1, <2>2, <2>3, <2>4, NeverType DEF SinceSent
<1>4. QED
  BY <1>2, <1>3

-----------------------------------------------------------------------------
(* The invariant.                                                          *)

\* What every step preserves.  The order of pushes needs IdsFollowProgress;
\* that in turn needs RowsAreConsistent: ids are given out without gaps, and
\* only claimed rows that have not been handed over are pushed.
QueueInv ==
    /\ TypeOK
    /\ EntriesAreLive
    /\ RowsAreConsistent
    /\ IdsFollowProgress
    /\ SentIsAccountedFor
    /\ LiveRowsAreFresh

\* A step that creates no row, claims none and hands none over.
Settles ==
    /\ \A r \in Commands :
          /\ cmds'[r].sn = cmds[r].sn
          /\ cmds'[r].state = "none" <=> cmds[r].state = "none"
          /\ cmds'[r].state \in Live => cmds'[r].state = cmds[r].state
          /\ cmds'[r].state \in {"none", "pending"} /\ cmds[r].sentAge = Never =>
                cmds'[r].sentAge = Never
          /\ r \in claimed /\ cmds'[r].state = "sent" => r \in claimed' \cup orphaned'
    /\ claimed' \subseteq claimed
    /\ orphaned \subseteq orphaned'
    /\ \A r \in retiring' \cap Commands : cmds[r].state # "none"
    /\ handovers' = handovers
    /\ poller' \in {"claim", "push"} => handle' \in Conns
    /\ poller' # "push" => claimed' = {}

LEMMA SettlesKeeps ==
    ASSUME QueueInv, Settles
    PROVE  RowsAreConsistent' /\ IdsFollowProgress' /\ SentIsAccountedFor'
<1>1. RowsAreConsistent'
  BY DEF QueueInv, RowsAreConsistent, Settles, Live
<1>2. IdsFollowProgress'
  BY DEF QueueInv, IdsFollowProgress, HandedBefore, ClaimedBefore, Settles, Live
<1>3. SentIsAccountedFor'
  BY DEF QueueInv, SentIsAccountedFor, Settles, Live
<1>4. QED
  BY <1>1, <1>2, <1>3

\* A step that takes no time leaves every live row as fresh as it was, or
\* makes it fresher.
LEMMA FreshKept ==
    ASSUME TypeOK, LiveRowsAreFresh, UNCHANGED sinceSweep,
           \A r \in Commands : cmds'[r].state \in Live =>
              \/ SinceSent(cmds'[r]) = 0
              \/ cmds[r].state \in Live /\ SinceSent(cmds'[r]) = SinceSent(cmds[r])
    PROVE  LiveRowsAreFresh'
<1>1. SUFFICES ASSUME NEW r \in Commands, cmds'[r].state \in Live
               PROVE  SinceSent(cmds'[r]) <= Ttl + sinceSweep \/ sinceSweep = MaxAge
  BY DEF LiveRowsAreFresh
<1>2. Ttl + sinceSweep >= 0
  BY NeverType DEF TypeOK
<1>3. QED
  BY <1>1, <1>2 DEF LiveRowsAreFresh

\* The parts of a step that only concern the gateway.
LEMMA GatewayKeeps ==
    ASSUME QueueInv, [GatewayNext]_gatewayVars
    PROVE  GatewayTypeOK' /\ EntriesAreLive'
BY StepInv DEF QueueInv, TypeOK, GatewayInv

\* A step that is all the gateway's.
LEMMA RestUnchanged ==
    ASSUME QueueInv, UNCHANGED commandVars
    PROVE  /\ RowsAreConsistent' /\ IdsFollowProgress'
           /\ SentIsAccountedFor' /\ LiveRowsAreFresh'
           /\ GatewayTypeOK' => TypeOK'
<1>1. UNCHANGED <<cmds, poller, todo, robot, handle, claimed, retiring, posted, handovers, orphaned, sinceSweep>>
  BY DEF commandVars, pollerVars, historyVars
<1>2. RowsAreConsistent'
  BY <1>1 DEF QueueInv, RowsAreConsistent
<1>3. IdsFollowProgress'
  BY <1>1 DEF QueueInv, IdsFollowProgress, HandedBefore, ClaimedBefore
<1>4. SentIsAccountedFor' /\ LiveRowsAreFresh'
  BY <1>1 DEF QueueInv, SentIsAccountedFor, LiveRowsAreFresh
<1>5. GatewayTypeOK' => TypeOK'
  BY <1>1 DEF QueueInv, TypeOK
<1>6. QED
  BY <1>2, <1>3, <1>4, <1>5

LEMMA QueueInitInv == Init => QueueInv
<1> SUFFICES ASSUME Init PROVE QueueInv
  OBVIOUS
<1>1. GatewayTypeOK /\ EntriesAreLive
  BY InitInv DEF Init, GatewayInv
<1>2. EmptyTable \in Table /\ \A r \in Commands : EmptyTable[r] = NoRow
  BY NoRowType DEF EmptyTable, Table
<1>3. TypeOK
  BY <1>1, <1>2, NeverType DEF Init, TypeOK
<1>4. RowsAreConsistent /\ IdsFollowProgress /\ SentIsAccountedFor /\ LiveRowsAreFresh
  BY <1>2 DEF Init, RowsAreConsistent, IdsFollowProgress, HandedBefore, ClaimedBefore,
              SentIsAccountedFor, LiveRowsAreFresh, NoRow, Live
<1>5. QED
  BY <1>1, <1>3, <1>4 DEF QueueInv

-----------------------------------------------------------------------------
(* The steps, one lemma for each kind.                                     *)

\* The gateway's own steps, and a step that changes nothing.
LEMMA GatewaySteps ==
    ASSUME QueueInv, [GatewayNext]_gatewayVars, UNCHANGED commandVars
    PROVE  QueueInv'
BY GatewayKeeps, RestUnchanged DEF QueueInv

\* insert_command: the new id is larger than every id in use.
LEMMA EnqueueStep ==
    ASSUME QueueInv, NEW s \in Sns, NEW ty \in InfoTypes, Enqueue(s, ty)
    PROVE  QueueInv'
<1> USE DEF QueueInv
<1>0. UNCHANGED <<gatewayVars, poller, todo, robot, handle, claimed, retiring,
                  posted, handovers, orphaned, sinceSweep>>
  BY DEF Enqueue, pollerVars, historyVars
<1>1. PICK i \in Commands : IsNextId(cmds, i) /\ cmds' = Insert(cmds, i, s, ty)
  BY DEF Enqueue
<1>2. GatewayTypeOK' /\ EntriesAreLive'
  BY <1>0, GatewayKeeps
<1>3. /\ cmds' \in Table
      /\ cmds'[i].state = "pending" /\ cmds'[i].sn = s
      /\ cmds'[i].age = 0 /\ cmds'[i].sentAge = Never
      /\ \A j \in Commands : j # i => cmds'[j] = cmds[j]
  <2>1. cmds \in Table
    BY DEF TypeOK
  <2>2. QED
    BY <1>1, <2>1, InsertFacts
<1>4. TypeOK'
  BY <1>0, <1>2, <1>3 DEF TypeOK
<1>5. cmds[i].state = "none" /\ \A j \in Commands : j < i => cmds[j].state # "none"
  BY <1>1 DEF IsNextId
<1>6. \A q \in Commands : cmds[q].state # "none" => q < i
  BY <1>5, IdentitiesAssumption DEF RowsAreConsistent
<1>7. i \notin claimed /\ handovers[i] = 0
  BY <1>5 DEF RowsAreConsistent
<1>8. RowsAreConsistent'
  <2>1. ASSUME NEW r \in Commands
        PROVE  /\ cmds'[r].state # "none" => cmds'[r].sn \in Sns
               /\ cmds'[r].state \in {"none", "pending"} =>
                     handovers[r] = 0 /\ cmds'[r].sentAge = Never
               /\ r \in claimed => cmds'[r].state \notin {"none", "pending"}
               /\ r \in claimed => handovers[r] = 0
               /\ r \in retiring => cmds'[r].state # "none"
    BY <1>3, <1>7 DEF RowsAreConsistent
  <2>2. ASSUME NEW q \in Commands, NEW r \in Commands,
               q < r, cmds'[r].state # "none"
        PROVE  cmds'[q].state # "none"
    BY <1>3, <1>5, <2>2 DEF RowsAreConsistent
  <2>3. /\ poller \in {"claim", "push"} => handle \in Conns
        /\ poller # "push" => claimed = {}
    BY DEF RowsAreConsistent
  <2>4. QED
    BY <1>0, <2>1, <2>2, <2>3 DEF RowsAreConsistent
<1>9. IdsFollowProgress'
  <2>1. SUFFICES ASSUME NEW q \in Commands, NEW r \in Commands,
                        cmds'[q].sn = cmds'[r].sn
                 PROVE  /\ handovers[q] > 0 /\ (r \in claimed \/ cmds'[r].state = "pending")
                             => q < r
                        /\ q \in claimed /\ cmds'[r].state = "pending" => q < r
    BY <1>0 DEF IdsFollowProgress, HandedBefore, ClaimedBefore
  <2>2. CASE q = i
    BY <1>7, <2>2
  <2>3. CASE q # i /\ r = i
    BY <1>3, <1>6, <1>7, <2>3 DEF RowsAreConsistent, TypeOK
  <2>4. CASE q # i /\ r # i
    BY <1>3, <2>1, <2>4 DEF IdsFollowProgress, HandedBefore, ClaimedBefore
  <2>5. QED
    BY <2>2, <2>3, <2>4
<1>10. LiveRowsAreFresh'
  BY <1>0, <1>3, FreshKept DEF SinceSent
<1>11. SentIsAccountedFor'
  BY <1>0, <1>3 DEF SentIsAccountedFor
<1>12. QED
  BY <1>2, <1>4, <1>8, <1>9, <1>10, <1>11

\* expire_commands ran: what is live now came due within the TTL.
LEMMA SweepsStep ==
    ASSUME QueueInv, Sweeps
    PROVE  QueueInv'
<1>0. /\ UNCHANGED <<gatewayVars, todo, robot, handle, claimed, retiring, posted, handovers, orphaned>>
      /\ poller = "next" /\ poller' = "list"
      /\ cmds' = Expire(cmds) /\ sinceSweep' = 0
  BY DEF Sweeps, DrainStarts, PollerIdle
<1>1. GatewayTypeOK' /\ EntriesAreLive'
  BY <1>0, GatewayKeeps
<1>2. cmds \in Table
  BY DEF QueueInv, TypeOK
<1>3. /\ cmds' \in Table
      /\ \A j \in Commands :
           /\ cmds'[j].sn = cmds[j].sn
           /\ cmds'[j].age = cmds[j].age
           /\ cmds'[j].sentAge = cmds[j].sentAge
           /\ cmds'[j].state = IF Overdue(cmds[j]) THEN "expired" ELSE cmds[j].state
  BY <1>0, <1>2, ExpireFacts
<1>4. \A j \in Commands : Overdue(cmds[j]) => cmds[j].state \in Live
  BY DEF Overdue, Live
<1>5. TypeOK'
  BY <1>0, <1>1, <1>3, NeverType DEF QueueInv, TypeOK
<1>6. Settles
  BY <1>0, <1>3, <1>4 DEF Settles, QueueInv, RowsAreConsistent, Live
<1>7. LiveRowsAreFresh'
  <2>1. SUFFICES ASSUME NEW r \in Commands, cmds'[r].state \in Live
                 PROVE  SinceSent(cmds'[r]) <= Ttl + sinceSweep'
    BY DEF LiveRowsAreFresh
  <2>2. ~Overdue(cmds[r]) /\ cmds[r].state \in Live
    BY <1>3, <2>1 DEF Live
  <2>3. SinceSent(cmds'[r]) = SinceSent(cmds[r])
    BY <1>3 DEF SinceSent
  <2>4. cmds[r].state = "pending" => SinceSent(cmds[r]) = cmds[r].age
    BY DEF QueueInv, RowsAreConsistent, SinceSent
  <2>5. /\ cmds[r] \in Row
        /\ cmds[r].age \in Nat /\ cmds[r].sentAge \in Nat
    <3>1. cmds[r] \in Row
      BY <1>2 DEF Table
    <3>2. QED
      BY <3>1, NeverType DEF Row
  <2>6. SinceSent(cmds[r]) \in Nat
    BY <2>5 DEF SinceSent
  <2>7. SinceSent(cmds[r]) <= Ttl
    BY <2>2, <2>4, <2>5, <2>6, NeverType DEF Overdue, Live
  <2>8. QED
    BY <1>0, <2>3, <2>6, <2>7, NeverType
<1>8. QED
  BY <1>1, <1>5, <1>6, <1>7, SettlesKeeps DEF QueueInv

\* Steps of a pass that leave the table and the claimed rows alone.
LEMMA PassSteps ==
    ASSUME QueueInv, SweepFails \/ Lists \/ ListFails \/ \E s \in Sns : Skips(s)
    PROVE  QueueInv'
<1>0. /\ UNCHANGED <<gatewayVars, cmds, robot, handle, claimed, retiring, posted, handovers, orphaned, sinceSweep>>
      /\ poller \in {"next", "list"} /\ poller' \in {"next", "list"}
  BY DEF SweepFails, DrainStarts, PollerIdle, Lists, ListFails, ListsAs, Skips,
         historyVars
<1>1. GatewayTypeOK' /\ EntriesAreLive'
  BY <1>0, GatewayKeeps
<1>2. PendingSns(cmds) \subseteq Sns
  BY DEF PendingSns, QueueInv, RowsAreConsistent
<1>3. todo' \subseteq Sns
  BY <1>2 DEF SweepFails, DrainStarts, Lists, ListFails, ListsAs, Skips, QueueInv, TypeOK
<1>4. TypeOK'
  BY <1>0, <1>1, <1>3 DEF QueueInv, TypeOK
<1>5. Settles
  BY <1>0 DEF Settles, QueueInv, RowsAreConsistent
<1>6. LiveRowsAreFresh'
  BY <1>0 DEF QueueInv, LiveRowsAreFresh
<1>7. QED
  BY <1>1, <1>4, <1>5, <1>6, SettlesKeeps DEF QueueInv

\* Registry::get: the handle names a connection.
LEMMA LooksUpStep ==
    ASSUME QueueInv, NEW s \in Sns, LooksUp(s)
    PROVE  QueueInv'
<1>0. /\ UNCHANGED <<reader, writer, bound, silent, queue, inflight, registry, cmds,
                     todo, claimed, retiring, posted, handovers,
                     orphaned, sinceSweep>>
      /\ poller = "next" /\ poller' = "claim"
      /\ handle' = registry[s] /\ held' = {registry[s]} /\ robot' = s
  BY DEF LooksUp, historyVars
<1>1. registry \in [Sns -> Conns \cup {NoConn}] /\ registry[s] \in Conns
  BY DEF LooksUp, QueueInv, TypeOK, GatewayTypeOK
<1>2. GatewayTypeOK'
  BY <1>0, <1>1 DEF QueueInv, TypeOK, GatewayTypeOK
<1>3. EntriesAreLive'
  BY <1>0, <1>1, LiveUnlessEnded DEF QueueInv, ReaderAlive
<1>4. TypeOK'
  BY <1>0, <1>1, <1>2 DEF QueueInv, TypeOK
<1>5. Settles
  BY <1>0, <1>1 DEF Settles, QueueInv, RowsAreConsistent
<1>6. LiveRowsAreFresh'
  BY <1>0 DEF QueueInv, LiveRowsAreFresh
<1>7. QED
  BY <1>3, <1>4, <1>5, <1>6, SettlesKeeps DEF QueueInv

\* claim_commands: everything pending for the robot, after everything that
\* was handed over for it.
LEMMA ClaimsStep ==
    ASSUME QueueInv, Claims
    PROVE  QueueInv'
<1>0. /\ UNCHANGED <<gatewayVars, todo, robot, handle, retiring, posted,
                     handovers, orphaned, sinceSweep>>
      /\ poller = "claim" /\ poller' = "push"
      /\ claimed' = PendingOf(cmds, robot)
      /\ cmds' = Claim(cmds, robot)
  BY DEF Claims, historyVars
<1>1. GatewayTypeOK' /\ EntriesAreLive'
  BY <1>0, GatewayKeeps
<1>2. cmds \in Table /\ claimed = {}
  BY <1>0 DEF QueueInv, TypeOK, RowsAreConsistent
<1>3. /\ cmds' \in Table
      /\ \A j \in Commands :
           /\ cmds'[j].sn = cmds[j].sn
           /\ j \in claimed' => cmds'[j].state = "sent" /\ cmds'[j].sentAge = 0
           /\ j \notin claimed' => cmds'[j] = cmds[j]
  BY <1>0, <1>2, ClaimFacts
<1>4. /\ claimed' \subseteq Commands
      /\ \A j \in Commands :
            j \in claimed' <=> cmds[j].sn = robot /\ cmds[j].state = "pending"
  BY <1>0 DEF PendingOf
<1>5. TypeOK'
  BY <1>0, <1>1, <1>3, <1>4 DEF QueueInv, TypeOK
<1>6. RowsAreConsistent'
  BY <1>0, <1>3, <1>4 DEF QueueInv, RowsAreConsistent
<1>7. IdsFollowProgress'
  BY <1>0, <1>3, <1>4 DEF QueueInv, IdsFollowProgress, HandedBefore, ClaimedBefore
<1>8. SentIsAccountedFor'
  BY <1>0, <1>2, <1>3 DEF QueueInv, SentIsAccountedFor
<1>9. LiveRowsAreFresh'
  <2>1. 0 # Never
    BY NeverType
  <2>2. \A j \in claimed' : j \in Commands => SinceSent(cmds'[j]) = 0
    BY <1>3, <2>1 DEF SinceSent
  <2>3. QED
    BY <1>0, <1>3, <2>2, FreshKept DEF QueueInv
<1>10. QED
  BY <1>1, <1>5, <1>6, <1>7, <1>8, <1>9 DEF QueueInv

\* claim_commands failed: an empty pass over this robot.
LEMMA ClaimFailsStep ==
    ASSUME QueueInv, ClaimFails
    PROVE  QueueInv'
<1>0. /\ UNCHANGED <<gatewayVars, cmds, todo, robot, handle, claimed, retiring,
                     posted, handovers, orphaned, sinceSweep>>
      /\ poller = "claim" /\ poller' = "push"
  BY DEF ClaimFails, historyVars
<1>1. GatewayTypeOK' /\ EntriesAreLive'
  BY <1>0, GatewayKeeps
<1>2. TypeOK'
  BY <1>0, <1>1 DEF QueueInv, TypeOK
<1>3. Settles
  BY <1>0 DEF Settles, QueueInv, RowsAreConsistent
<1>4. LiveRowsAreFresh'
  BY <1>0 DEF QueueInv, LiveRowsAreFresh
<1>5. QED
  BY <1>1, <1>2, <1>3, <1>4, SettlesKeeps DEF QueueInv

\* The smallest claimed row goes out: nothing handed over has a larger id.
LEMMA PushesStep ==
    ASSUME QueueInv, NEW r \in Commands, Pushes(r)
    PROVE  QueueInv'
<1>0. /\ UNCHANGED <<reader, writer, bound, silent, inflight, registry, held, cmds,
                     poller, todo, robot, handle, retiring, posted,
                     orphaned, sinceSweep>>
      /\ poller = "push"
      /\ r \in claimed /\ \A q \in claimed : r <= q
      /\ SendReturns(handle, r)
      /\ claimed' = claimed \ {r}
      /\ handovers' = [handovers EXCEPT ![r] = @ + 1]
  BY DEF Pushes, FirstClaimed
<1>1. handle \in Conns /\ r \in Frame
  BY <1>0 DEF QueueInv, RowsAreConsistent, Frame
<1>2. /\ queue' \in [Conns -> Seq(Frame)]
      /\ \A c \in Conns : Len(queue'[c]) <= WriteQueue
  BY <1>0, <1>1, SendType DEF QueueInv, TypeOK
<1>3. GatewayTypeOK'
  BY <1>0, <1>2 DEF QueueInv, TypeOK, GatewayTypeOK
<1>4. EntriesAreLive'
  BY <1>0, LiveUnlessEnded DEF QueueInv, TypeOK, GatewayTypeOK, ReaderAlive
<1>5. /\ handovers \in [Commands -> Nat]
      /\ claimed \subseteq Commands
  BY DEF QueueInv, TypeOK
<1>6. /\ handovers' \in [Commands -> Nat]
      /\ handovers'[r] = handovers[r] + 1
      /\ \A q \in Commands : q # r => handovers'[q] = handovers[q]
  BY <1>0, <1>5
<1>7. TypeOK'
  BY <1>0, <1>3, <1>5, <1>6 DEF QueueInv, TypeOK
<1>8. RowsAreConsistent'
  BY <1>0, <1>6 DEF QueueInv, RowsAreConsistent
<1>9. IdsFollowProgress'
  <2>1. SUFFICES ASSUME NEW q \in Commands, NEW p \in Commands, cmds[q].sn = cmds[p].sn
                 PROVE  /\ handovers'[q] > 0 /\ (p \in claimed' \/ cmds[p].state = "pending")
                              => q < p
                        /\ q \in claimed' /\ cmds[p].state = "pending" => q < p
    BY <1>0 DEF IdsFollowProgress, HandedBefore, ClaimedBefore
  <2>2. q \in claimed /\ cmds[p].state = "pending" => q < p
    BY <2>1 DEF QueueInv, IdsFollowProgress, ClaimedBefore
  <2>3. handovers[q] > 0 /\ (p \in claimed \/ cmds[p].state = "pending") => q < p
    BY <2>1 DEF QueueInv, IdsFollowProgress, HandedBefore
  <2>4. q \in Nat /\ p \in Nat
    BY IdentitiesAssumption
  <2>5. CASE q = r
    BY <1>0, <2>2, <2>4, <2>5
  <2>6. CASE q # r
    BY <1>0, <1>6, <2>2, <2>3, <2>6
  <2>7. QED
    BY <2>5, <2>6
<1>10. SentIsAccountedFor'
  BY <1>0, <1>5, <1>6 DEF QueueInv, SentIsAccountedFor
<1>11. LiveRowsAreFresh'
  BY <1>0 DEF QueueInv, LiveRowsAreFresh
<1>12. QED
  BY <1>4, <1>7, <1>8, <1>9, <1>10, <1>11 DEF QueueInv

\* fail_command, from a push or from the path poller, leaves a row that is
\* not live any more.
LEMMA FailIsFresh ==
    ASSUME QueueInv, UNCHANGED sinceSweep, NEW r \in Commands, cmds' = Fail(cmds, r)
    PROVE  LiveRowsAreFresh'
<1>1. cmds \in Table
  BY DEF QueueInv, TypeOK
<1>2. \A q \in Commands : cmds'[q].state \in Live => cmds'[q] = cmds[q]
  BY <1>1, FailFacts DEF Live
<1>3. \A q \in Commands : cmds'[q].state \in Live =>
        cmds[q].state \in Live /\ SinceSent(cmds'[q]) = SinceSent(cmds[q])
  BY <1>2
<1>4. QED
  BY <1>3, FreshKept DEF QueueInv

LEMMA RejectsStep ==
    ASSUME QueueInv, NEW r \in Commands, Rejects(r)
    PROVE  QueueInv'
<1>0. /\ UNCHANGED <<gatewayVars, poller, todo, robot, handle, retiring, posted, handovers, sinceSweep>>
      /\ poller = "push"
      /\ r \in claimed
      /\ \/ cmds' = Fail(cmds, r) /\ UNCHANGED orphaned
         \/ UNCHANGED cmds /\ orphaned' = orphaned \cup {r}
      /\ claimed' = claimed \ {r}
  BY DEF Rejects, FirstClaimed, AfterFailure
<1>1. GatewayTypeOK' /\ EntriesAreLive'
  BY <1>0, GatewayKeeps
<1>2. cmds \in Table /\ cmds[r].state \notin {"none", "pending"}
  BY <1>0 DEF QueueInv, TypeOK, RowsAreConsistent
<1>3. /\ cmds' \in Table
      /\ cmds' = cmds \/ cmds'[r].state \in {"acked", "failed"}
      /\ cmds'[r].sn = cmds[r].sn
      /\ \A q \in Commands : q # r => cmds'[q] = cmds[q]
      /\ cmds'[r].state = "sent" => r \in orphaned'
  BY <1>0, <1>2, FailFacts
<1>4. TypeOK'
  BY <1>0, <1>1, <1>3 DEF QueueInv, TypeOK
<1>5. Settles
  BY <1>0, <1>2, <1>3 DEF Settles, QueueInv, RowsAreConsistent, Live
<1>6. LiveRowsAreFresh'
  BY <1>0, FailIsFresh DEF QueueInv, LiveRowsAreFresh
<1>7. QED
  BY <1>1, <1>4, <1>5, <1>6, SettlesKeeps DEF QueueInv

LEMMA RobotDoneStep ==
    ASSUME QueueInv, RobotDone
    PROVE  QueueInv'
<1>0. /\ UNCHANGED <<reader, writer, bound, silent, queue, inflight, registry, cmds,
                     claimed, retiring, posted, handovers, orphaned,
                     sinceSweep>>
      /\ claimed = {} /\ poller' = "next"
      /\ todo' = todo \ {robot}
      /\ robot' = NoSn /\ handle' = NoConn /\ held' = {}
  BY DEF RobotDone, historyVars
<1>1. GatewayTypeOK'
  BY <1>0 DEF QueueInv, TypeOK, GatewayTypeOK
<1>2. EntriesAreLive'
  BY <1>0, LiveUnlessEnded DEF QueueInv, TypeOK, GatewayTypeOK, ReaderAlive
<1>3. TypeOK'
  BY <1>0, <1>1 DEF QueueInv, TypeOK
<1>4. Settles
  BY <1>0 DEF Settles, QueueInv, RowsAreConsistent
<1>5. LiveRowsAreFresh'
  BY <1>0 DEF QueueInv, LiveRowsAreFresh
<1>6. QED
  BY <1>2, <1>3, <1>4, <1>5, SettlesKeeps DEF QueueInv

\* ack_command moves rows out of `sent` and touches no other.
LEMMA RespondsStep ==
    ASSUME QueueInv, NEW s \in Sns, NEW ty \in InfoTypes, Responds(s, ty)
    PROVE  QueueInv'
<1>0. /\ UNCHANGED <<gatewayVars, poller, todo, robot, handle, claimed, retiring,
                     handovers, orphaned, sinceSweep>>
      /\ posted' = [posted EXCEPT ![s][ty] = @ + 1]
      /\ cmds' = Ack(cmds, s, ty)
  BY DEF Responds, pollerVars
<1>1. GatewayTypeOK' /\ EntriesAreLive'
  BY <1>0, GatewayKeeps
<1>2. cmds \in Table
  BY DEF QueueInv, TypeOK
<1>3. /\ cmds' \in Table
      /\ \A j \in Commands :
           /\ cmds'[j].sn = cmds[j].sn
           /\ cmds'[j] = cmds[j] \/ (cmds[j].state = "sent" /\ cmds'[j].state = "acked")
  BY <1>0, <1>2, AckFacts
<1>4. TypeOK'
  <2>1. posted' \in [Sns -> [InfoTypes -> Nat]]
    BY <1>0 DEF QueueInv, TypeOK
  <2>2. QED
    BY <1>0, <1>1, <1>3, <2>1 DEF QueueInv, TypeOK
<1>5. Settles
  BY <1>0, <1>3 DEF Settles, QueueInv, RowsAreConsistent, Live
<1>6. LiveRowsAreFresh'
  <2>1. \A j \in Commands : cmds'[j].state \in Live => cmds'[j] = cmds[j]
    BY <1>3 DEF Live
  <2>2. \A j \in Commands : cmds'[j].state \in Live =>
          cmds[j].state \in Live /\ SinceSent(cmds'[j]) = SinceSent(cmds[j])
    BY <2>1
  <2>3. QED
    BY <1>0, <2>2, FreshKept DEF QueueInv
<1>7. QED
  BY <1>1, <1>4, <1>5, <1>6, SettlesKeeps DEF QueueInv

LEMMA FindsStaleStep ==
    ASSUME QueueInv, NEW s \in Sns, FindsStale(s)
    PROVE  QueueInv'
<1>0. UNCHANGED <<gatewayVars, cmds, poller, todo, robot, handle, claimed, posted, handovers, orphaned, sinceSweep>>
  BY DEF FindsStale, pollerVars, historyVars
<1>1. PICK i \in Commands : cmds[i].state \in Live /\ retiring' = {i}
  BY DEF FindsStale, IsActive
<1>2. GatewayTypeOK' /\ EntriesAreLive'
  BY <1>0, GatewayKeeps
<1>3. TypeOK'
  BY <1>0, <1>1, <1>2 DEF QueueInv, TypeOK
<1>4. Settles
  BY <1>0, <1>1 DEF Settles, QueueInv, RowsAreConsistent, Live
<1>5. LiveRowsAreFresh'
  BY <1>0 DEF QueueInv, LiveRowsAreFresh
<1>6. QED
  BY <1>2, <1>3, <1>4, <1>5, SettlesKeeps DEF QueueInv

LEMMA RetiresStep ==
    ASSUME QueueInv, NEW r \in Commands, Retires(r)
    PROVE  QueueInv'
<1>0. /\ UNCHANGED <<gatewayVars, poller, todo, robot, handle, claimed, posted, handovers, orphaned, sinceSweep>>
      /\ r \in retiring /\ retiring' = {}
      /\ cmds' = Fail(cmds, r) \/ UNCHANGED cmds
  BY DEF Retires, pollerVars, historyVars
<1>1. GatewayTypeOK' /\ EntriesAreLive'
  BY <1>0, GatewayKeeps
<1>2. cmds \in Table /\ cmds[r].state # "none"
  BY <1>0 DEF QueueInv, TypeOK, RowsAreConsistent
<1>3. /\ cmds' \in Table
      /\ cmds' = cmds \/ cmds'[r].state \in {"acked", "failed"}
      /\ cmds'[r].sn = cmds[r].sn
      /\ \A q \in Commands : q # r => cmds'[q] = cmds[q]
  BY <1>0, <1>2, FailFacts
<1>4. TypeOK'
  BY <1>0, <1>1, <1>3 DEF QueueInv, TypeOK
<1>5. Settles
  BY <1>0, <1>2, <1>3 DEF Settles, QueueInv, RowsAreConsistent, Live
<1>6. LiveRowsAreFresh'
  BY <1>0, FailIsFresh DEF QueueInv, LiveRowsAreFresh
<1>7. QED
  BY <1>1, <1>4, <1>5, <1>6, SettlesKeeps DEF QueueInv

\* A live row and the time since the last expiry age together.
LEMMA TickStep ==
    ASSUME QueueInv, Tick
    PROVE  QueueInv'
<1>0. /\ UNCHANGED <<reader, writer, bound, queue, inflight, registry, held, poller,
                     todo, robot, handle, claimed, retiring, posted,
                     handovers, orphaned>>
      /\ SilenceGrows
      /\ cmds' = Aged(cmds)
      /\ sinceSweep' = Older(sinceSweep)
  BY DEF Tick, pollerVars
<1>1. GatewayTypeOK'
  BY <1>0, GatewayAssumption DEF SilenceGrows, QueueInv, TypeOK, GatewayTypeOK
<1>2. EntriesAreLive'
  BY <1>0, LiveUnlessEnded DEF QueueInv, TypeOK, GatewayTypeOK, ReaderAlive
<1>3. cmds \in Table /\ sinceSweep \in 0 .. MaxAge
  BY DEF QueueInv, TypeOK
<1>4. /\ cmds' \in Table
      /\ \A j \in Commands :
           /\ cmds'[j].sn = cmds[j].sn
           /\ cmds'[j].state = cmds[j].state
           /\ cmds[j].sentAge = Never => cmds'[j].sentAge = Never
           /\ SinceSent(cmds'[j]) <= SinceSent(cmds[j]) + 1
  BY <1>0, <1>3, AgedFacts
<1>5. TypeOK'
  BY <1>0, <1>1, <1>3, <1>4, OlderType DEF QueueInv, TypeOK
<1>6. Settles
  BY <1>0, <1>4 DEF Settles, QueueInv, RowsAreConsistent
<1>7. LiveRowsAreFresh'
  <2>1. SUFFICES ASSUME NEW r \in Commands, cmds'[r].state \in Live, sinceSweep' # MaxAge
                 PROVE  SinceSent(cmds'[r]) <= Ttl + sinceSweep'
    BY DEF LiveRowsAreFresh
  <2>2. sinceSweep # MaxAge /\ sinceSweep' = sinceSweep + 1
    BY <1>0, <1>3, <2>1, NeverType DEF Older
  <2>3. SinceSent(cmds[r]) <= Ttl + sinceSweep
    BY <1>4, <2>1, <2>2 DEF QueueInv, LiveRowsAreFresh
  <2>4. SinceSent(cmds[r]) \in Nat /\ SinceSent(cmds'[r]) \in Nat
    <3>1. cmds[r] \in Row /\ cmds'[r] \in Row
      BY <1>3, <1>4 DEF Table
    <3>2. QED
      BY <3>1, NeverType DEF Row, SinceSent
  <2>5. QED
    BY <1>3, <1>4, <2>2, <2>3, <2>4, NeverType
<1>8. QED
  BY <1>2, <1>5, <1>6, <1>7, SettlesKeeps DEF QueueInv

\* The process ends: rows it held claimed stay `sent`, as orphans.
LEMMA RestartStep ==
    ASSUME QueueInv, Restart
    PROVE  QueueInv'
<1>0. /\ UNCHANGED <<cmds, posted, handovers, sinceSweep>>
      /\ ProcessEnds
      /\ poller' = "next" /\ todo' = {} /\ robot' = NoSn /\ handle' = NoConn
      /\ claimed' = {} /\ retiring' = {} /\ orphaned' = orphaned \cup claimed
  BY DEF Restart
<1>1. GatewayNext
  BY <1>0 DEF GatewayNext
<1>2. GatewayTypeOK' /\ EntriesAreLive'
  BY <1>1, GatewayKeeps
<1>3. TypeOK'
  BY <1>0, <1>2 DEF QueueInv, TypeOK
<1>4. Settles
  BY <1>0 DEF Settles, QueueInv, RowsAreConsistent
<1>5. LiveRowsAreFresh'
  BY <1>0 DEF QueueInv, LiveRowsAreFresh
<1>6. QED
  BY <1>2, <1>3, <1>4, <1>5, SettlesKeeps DEF QueueInv

LEMMA QueueStepInv == QueueInv /\ [Next]_vars => QueueInv'
<1> SUFFICES ASSUME QueueInv, [Next]_vars
             PROVE  QueueInv'
  OBVIOUS
<1>1. CASE GatewayStep
  <2>1. GatewayNext /\ UNCHANGED commandVars
    BY <1>1 DEF GatewayStep, GatewayNext
  <2>2. QED
    BY <2>1, GatewaySteps
<1>2. CASE PollerStep
  BY <1>2, SweepsStep, PassSteps, LooksUpStep, ClaimsStep, ClaimFailsStep, PushesStep,
     RejectsStep, RobotDoneStep
     DEF PollerStep, Refuses, FindsWriterGone
<1>3. CASE \E s \in Sns, ty \in InfoTypes : Enqueue(s, ty)
  BY <1>3, EnqueueStep
<1>4. CASE \E s \in Sns, ty \in InfoTypes : Responds(s, ty)
  BY <1>4, RespondsStep
<1>5. CASE \E r \in Commands : Retires(r)
  BY <1>5, RetiresStep
<1>6. CASE \E s \in Sns : FindsStale(s)
  BY <1>6, FindsStaleStep
<1>7. CASE Tick \/ Restart
  BY <1>7, TickStep, RestartStep
<1>8. CASE UNCHANGED vars
  BY <1>8, GatewaySteps DEF vars
<1>9. QED
  BY <1>1, <1>2, <1>3, <1>4, <1>5, <1>6, <1>7, <1>8 DEF Next

-----------------------------------------------------------------------------
(* Theorems.                                                               *)

\* The invariant of every behaviour of the queue.
THEOREM QueueInvariant == Spec => []QueueInv
BY QueueInitInv, QueueStepInv, PTL DEF Spec

\* Type correctness of the queue, the table and the gateway under it.
THEOREM QueueTypeCorrect == Spec => []TypeOK
<1>1. QueueInv => TypeOK
  BY DEF QueueInv
<1>2. QED
  BY <1>1, QueueInvariant, PTL

\* Of one robot's rows, those handed over come before those claimed and these
\* before those pending, in the order they were enqueued, whatever fails,
\* reconnects or restarts in between.
THEOREM IdsAlwaysFollowProgress == Spec => []IdsFollowProgress
<1>1. QueueInv => IdsFollowProgress
  BY DEF QueueInv
<1>2. QED
  BY <1>1, QueueInvariant, PTL

\* What a row, the pass it is in and the rows around it say of each other.
THEOREM RowsAreAlwaysConsistent == Spec => []RowsAreConsistent
<1>1. QueueInv => RowsAreConsistent
  BY DEF QueueInv
<1>2. QED
  BY <1>1, QueueInvariant, PTL

\* A row marked `sent` that no writer was given is still being pushed, or was
\* when the process ended.
THEOREM SentIsAlwaysAccountedFor == Spec => []SentIsAccountedFor
<1>1. QueueInv => SentIsAccountedFor
  BY DEF QueueInv
<1>2. QED
  BY <1>1, QueueInvariant, PTL

\* No live row outlives the TTL by more than the time since expiry last ran.
THEOREM LiveRowsAreAlwaysFresh == Spec => []LiveRowsAreFresh
<1>1. QueueInv => LiveRowsAreFresh
  BY DEF QueueInv
<1>2. QED
  BY <1>1, QueueInvariant, PTL

-----------------------------------------------------------------------------
(* Steps: what they may never do, and what they are in CommandLife.        *)

\* Only a push hands a row over; its row is the robot's next.
PushIsInOrder(r, q) ==
    (/\ handovers'[r] > handovers[r]
     /\ handovers[q] > 0
     /\ cmds[q].sn = cmds[r].sn) => q < r

LEMMA OnlyPushesHandOver ==
    ASSUME QueueInv, [Next]_vars
    PROVE  UNCHANGED handovers \/ \E r \in Commands : Pushes(r)
BY DEF Next, GatewayStep, PollerStep, Sweeps, SweepFails, DrainStarts, Lists, ListFails,
       ListsAs, Skips, LooksUp, Claims, ClaimFails, Refuses, FindsWriterGone, Rejects,
       RobotDone, Enqueue, Responds, Retires, FindsStale, Tick, Restart,
       commandVars, historyVars, vars

LEMMA StepInOrder ==
    ASSUME QueueInv, [Next]_vars, NEW r \in Commands, NEW q \in Commands
    PROVE  PushIsInOrder(r, q)
<1>1. handovers \in [Commands -> Nat] /\ r \in Nat
  BY IdentitiesAssumption DEF QueueInv, TypeOK
<1>2. CASE UNCHANGED handovers
  BY <1>1, <1>2 DEF PushIsInOrder
<1>3. ASSUME NEW p \in Commands, Pushes(p)
      PROVE  PushIsInOrder(r, q)
  <2>1. p \in claimed /\ handovers' = [handovers EXCEPT ![p] = @ + 1]
    BY <1>3 DEF Pushes, FirstClaimed
  <2>2. CASE r = p
    BY <2>1, <2>2 DEF PushIsInOrder, QueueInv, IdsFollowProgress, HandedBefore
  <2>3. CASE r # p
    BY <1>1, <2>1, <2>3 DEF PushIsInOrder
  <2>4. QED
    BY <2>2, <2>3
<1>4. QED
  BY <1>2, <1>3, OnlyPushesHandOver

\* Frames of one robot are handed over in the order of their ids, so the
\* start of a zone clean never overtakes its selection.
THEOREM AlwaysPushedInOrder == Spec => PushedInOrder
<1>1. QueueInv /\ [Next]_vars => [\A r, q \in Commands : PushIsInOrder(r, q)]_vars
  BY StepInOrder
<1>2. []QueueInv /\ [][Next]_vars => [][\A r, q \in Commands : PushIsInOrder(r, q)]_vars
  BY <1>1, PTL
<1>3. PushedInOrder <=> [][\A r, q \in Commands : PushIsInOrder(r, q)]_vars
  BY DEF PushedInOrder, PushIsInOrder
<1>4. QED
  BY <1>2, <1>3, QueueInvariant, PTL DEF Spec

\* The states of the rows are what CommandLife calls life.
LEMMA BecomeFromStates ==
    ASSUME NEW S, NEW st,
           \A r \in Commands : cmds'[r].state = IF r \in S THEN st ELSE cmds[r].state
    PROVE  Life!Become(S, st)
BY DEF Life!Become

LEMMA SameLife ==
    ASSUME UNCHANGED handovers, \A r \in Commands : cmds'[r].state = cmds[r].state
    PROVE  UNCHANGED Life!lifeVars
BY DEF Life!lifeVars

LEMMA EnqueueIsCreated ==
    ASSUME QueueInv, NEW s \in Sns, NEW ty \in InfoTypes, Enqueue(s, ty)
    PROVE  Life!LifeNext
<1>1. PICK i \in Commands : IsNextId(cmds, i) /\ cmds' = Insert(cmds, i, s, ty)
  BY DEF Enqueue
<1>2. cmds \in Table /\ UNCHANGED handovers
  BY DEF QueueInv, TypeOK, Enqueue, historyVars
<1>3. /\ cmds[i].state = "none"
      /\ \A r \in Commands :
           cmds'[r].state = IF r \in {i} THEN "pending" ELSE cmds[r].state
  BY <1>1, <1>2, InsertFacts DEF IsNextId
<1>4. Life!Created(i)
  BY <1>2, <1>3, BecomeFromStates DEF Life!Created, Life!In
<1>5. QED
  BY <1>4 DEF Life!LifeNext

LEMMA SweepIsExpired ==
    ASSUME QueueInv, Sweeps
    PROVE  Life!LifeNext
<1> DEFINE S == {r \in Commands : Overdue(cmds[r])}
<1>1. cmds \in Table /\ cmds' = Expire(cmds) /\ UNCHANGED handovers
  BY DEF QueueInv, TypeOK, Sweeps, DrainStarts
<1>2. \A r \in Commands : cmds'[r].state = IF r \in S THEN "expired" ELSE cmds[r].state
  BY <1>1, ExpireFacts
<1>3. \A r \in S : r \in Commands /\ cmds[r].state \in {"pending", "sent"}
  BY DEF Overdue
<1> HIDE DEF S
<1>4. Life!Expired(S)
  BY <1>1, <1>2, <1>3, BecomeFromStates DEF Life!Expired, Life!In
<1>5. S \in SUBSET Commands
  BY <1>3
<1>6. QED
  BY <1>4, <1>5 DEF Life!LifeNext, Life!Claimed, Life!Expired

LEMMA ClaimIsClaimed ==
    ASSUME QueueInv, Claims
    PROVE  Life!LifeNext
<1> DEFINE S == PendingOf(cmds, robot)
<1>1. cmds \in Table /\ cmds' = Claim(cmds, robot) /\ UNCHANGED handovers
  BY DEF QueueInv, TypeOK, Claims, historyVars
<1>2. \A r \in Commands : cmds'[r].state = IF r \in S THEN "sent" ELSE cmds[r].state
  BY <1>1, ClaimFacts
<1>3. \A r \in S : r \in Commands /\ cmds[r].state = "pending"
  BY DEF PendingOf
<1> HIDE DEF S
<1>4. Life!Claimed(S)
  BY <1>1, <1>2, <1>3, BecomeFromStates DEF Life!Claimed, Life!In
<1>5. S \in SUBSET Commands
  BY <1>3
<1>6. QED
  BY <1>4, <1>5 DEF Life!LifeNext, Life!Claimed, Life!Expired

LEMMA PushIsHandedOver ==
    ASSUME QueueInv, NEW r \in Commands, Pushes(r)
    PROVE  Life!LifeNext
<1>1. /\ r \in claimed /\ UNCHANGED cmds
      /\ handovers' = [handovers EXCEPT ![r] = @ + 1]
  BY DEF Pushes, FirstClaimed
<1>2. handovers[r] = 0 /\ cmds[r].state \notin {"none", "pending"}
  BY <1>1 DEF QueueInv, RowsAreConsistent
<1>3. cmds[r].state \in States
  <2>1. cmds[r] \in Row
    BY DEF QueueInv, TypeOK, Table
  <2>2. QED
    BY <2>1 DEF Row
<1>4. handovers' = [handovers EXCEPT ![r] = 1]
  BY <1>1, <1>2 DEF QueueInv, TypeOK
<1>5. Life!HandedOver(r)
  BY <1>1, <1>2, <1>3, <1>4 DEF Life!HandedOver, States, Live
<1>6. QED
  BY <1>5 DEF Life!LifeNext

\* fail_command fails a row or, when it was acknowledged, does nothing.
LEMMA FailIsFailed ==
    ASSUME QueueInv, UNCHANGED handovers,
           NEW r \in Commands, cmds[r].state \notin {"none"}, cmds' = Fail(cmds, r)
    PROVE  [Life!LifeNext]_Life!lifeVars
<1>1. cmds \in Table
  BY DEF QueueInv, TypeOK
<1>2. CASE cmds[r].state = "acked"
  BY <1>1, <1>2, FailFacts, SameLife
<1>3. CASE cmds[r].state # "acked"
  <2>1. \A q \in Commands :
          cmds'[q].state = IF q \in {r} THEN "failed" ELSE cmds[q].state
    BY <1>1, <1>3, FailFacts
  <2>2. cmds[r].state \in {"pending", "sent", "expired", "failed"}
    <3>1. cmds[r] \in Row
      BY <1>1 DEF Table
    <3>2. QED
      BY <1>3, <3>1 DEF Row, States, Live
  <2>3. Life!Failed(r)
    BY <2>1, <2>2, BecomeFromStates DEF Life!Failed, Life!In
  <2>4. QED
    BY <2>3 DEF Life!LifeNext
<1>4. QED
  BY <1>2, <1>3

\* ack_command acknowledges one row, or none when the reply matches nothing.
LEMMA ReplyIsAcked ==
    ASSUME QueueInv, NEW s \in Sns, NEW ty \in InfoTypes, Responds(s, ty)
    PROVE  [Life!LifeNext]_Life!lifeVars
<1> DEFINE S == AckTarget(cmds, s, ty)
<1>1. /\ cmds \in Table /\ UNCHANGED handovers
      /\ cmds' = Ack(cmds, s, ty)
  BY DEF QueueInv, TypeOK, Responds
<1>2. /\ \A q \in Commands : cmds'[q].state = IF q \in S THEN "acked" ELSE cmds[q].state
      /\ \A q \in S : q \in Commands /\ cmds[q].state = "sent"
      /\ \A p, q \in S : p = q
  BY <1>1, AckFacts
<1> HIDE DEF S
<1>3. CASE S = {}
  BY <1>1, <1>2, <1>3, SameLife
<1>4. ASSUME NEW q \in S
      PROVE  Life!LifeNext
  <2>1. /\ q \in Commands /\ cmds[q].state = "sent"
        /\ \A p \in Commands : cmds'[p].state = IF p \in {q} THEN "acked" ELSE cmds[p].state
    BY <1>2, <1>4
  <2>2. Life!Acked(q)
    BY <1>1, <2>1, BecomeFromStates DEF Life!Acked, Life!In
  <2>3. QED
    BY <2>1, <2>2 DEF Life!LifeNext
<1>5. QED
  BY <1>3, <1>4

\* Every step of the queue is a step of CommandLife, or none.
LEMMA StepIsLife ==
    ASSUME QueueInv, [Next]_vars
    PROVE  [Life!LifeNext]_Life!lifeVars
<1>1. ASSUME UNCHANGED <<cmds, handovers>>
      PROVE  UNCHANGED Life!lifeVars
  BY <1>1, SameLife
<1>2. CASE GatewayStep \/ UNCHANGED vars
  BY <1>1, <1>2 DEF GatewayStep, vars, commandVars, historyVars
<1>3. CASE PollerStep
  <2>1. CASE Sweeps
    BY <2>1, SweepIsExpired
  <2>2. CASE Claims
    BY <2>2, ClaimIsClaimed
  <2>3. ASSUME NEW r \in Commands, Pushes(r)
        PROVE  Life!LifeNext
    BY <2>3, PushIsHandedOver
  <2>4. ASSUME NEW r \in Commands, Rejects(r)
        PROVE  [Life!LifeNext]_Life!lifeVars
    <3>1. /\ r \in claimed /\ UNCHANGED handovers
          /\ cmds' = Fail(cmds, r) \/ UNCHANGED cmds
      BY <2>4 DEF Rejects, FirstClaimed
    <3>2. cmds[r].state \notin {"none"}
      BY <3>1 DEF QueueInv, RowsAreConsistent
    <3>3. QED
      BY <1>1, <3>1, <3>2, FailIsFailed
  <2>5. CASE \/ SweepFails \/ Lists \/ ListFails \/ ClaimFails \/ RobotDone
             \/ \E s \in Sns : Skips(s) \/ LooksUp(s)
    BY <1>1, <2>5 DEF SweepFails, DrainStarts, Lists, ListFails, ListsAs, Skips, LooksUp,
                      ClaimFails, RobotDone, historyVars
  <2>6. QED
    BY <1>3, <2>1, <2>2, <2>3, <2>4, <2>5 DEF PollerStep, Refuses, FindsWriterGone
<1>4. CASE \E s \in Sns, ty \in InfoTypes : Enqueue(s, ty)
  BY <1>4, EnqueueIsCreated
<1>5. ASSUME NEW s \in Sns, NEW ty \in InfoTypes, Responds(s, ty)
      PROVE  [Life!LifeNext]_Life!lifeVars
  BY <1>5, ReplyIsAcked
<1>6. ASSUME NEW r \in Commands, Retires(r)
      PROVE  [Life!LifeNext]_Life!lifeVars
  <2>1. /\ r \in retiring /\ UNCHANGED handovers
        /\ cmds' = Fail(cmds, r) \/ UNCHANGED cmds
    BY <1>6 DEF Retires, historyVars
  <2>2. cmds[r].state \notin {"none"}
    BY <2>1 DEF QueueInv, RowsAreConsistent
  <2>3. QED
    BY <1>1, <2>1, <2>2, FailIsFailed
<1>7. CASE (\E s \in Sns : FindsStale(s)) \/ Restart
  BY <1>1, <1>7 DEF FindsStale, Restart, historyVars
<1>8. CASE Tick
  <2>1. cmds \in Table /\ cmds' = Aged(cmds) /\ UNCHANGED handovers
    BY <1>8 DEF Tick, QueueInv, TypeOK
  <2>2. QED
    BY <2>1, AgedFacts, SameLife
<1>9. QED
  BY <1>2, <1>3, <1>4, <1>5, <1>6, <1>7, <1>8 DEF Next

LEMMA InitIsLife == Init => Life!LifeInit
BY DEF Init, EmptyTable, NoRow, Life!LifeInit

\* The queue, its gateway, its crashes and its races implement CommandLife:
\* no row is handed over twice or before it is claimed, and none is
\* acknowledged that is not `sent`.
THEOREM AlwaysKeepsLife == Spec => KeepsLife
BY InitIsLife, StepIsLife, QueueInvariant, PTL DEF Spec, KeepsLife, Life!LifeSpec

\* What CommandLife allows leaves an acknowledged row alone.
LEMMA LifeKeepsAcked ==
    ASSUME [Life!LifeNext]_Life!lifeVars, NEW r \in Commands, cmds[r].state = "acked"
    PROVE  cmds'[r].state = "acked"
<1>1. CASE Life!LifeNext
  BY <1>1 DEF Life!LifeNext, Life!Claimed, Life!Expired, Life!Created, Life!Failed,
              Life!Acked, Life!HandedOver, Life!Become, Life!In
<1>2. CASE UNCHANGED Life!lifeVars
  BY <1>2 DEF Life!lifeVars
<1>3. QED
  BY <1>1, <1>2

\* An acknowledged row stays acknowledged through every race with a push that
\* loses its writer, a path fetch found stale, an expiry and a restart.
THEOREM AckedIsAlwaysFinal == Spec => AckedIsFinal
<1> DEFINE Kept(r) == cmds[r].state = "acked" => cmds'[r].state = "acked"
<1>1. QueueInv /\ [Next]_vars => [\A r \in Commands : Kept(r)]_vars
  BY StepIsLife, LifeKeepsAcked
<1>2. []QueueInv /\ [][Next]_vars => [][\A r \in Commands : Kept(r)]_vars
  BY <1>1, PTL
<1>3. AckedIsFinal <=> [][\A r \in Commands : Kept(r)]_vars
  BY DEF AckedIsFinal
<1>4. QED
  BY <1>2, <1>3, QueueInvariant, PTL DEF Spec

-----------------------------------------------------------------------------
(* Steps, as steps of CommandLine.                                         *)

WaitingOf(s) == {r \in Commands : cmds[r].sn = s /\ Waits(r)}
GivenOf(s) == {r \in Commands : cmds[r].sn = s /\ handovers[r] > 0}

\* A step after which no other rows wait than before, and the same were given.
LEMMA FewerWait ==
    ASSUME UNCHANGED handovers,
           \A r \in Commands : cmds'[r].sn = cmds[r].sn,
           \A r \in Commands : r \in claimed' \/ cmds'[r].state = "pending" => Waits(r)
    PROVE  Line!LineNext
<1>0. PICK gone \in SUBSET Commands :
         gone = {r \in Commands : ~ (r \in claimed' \/ cmds'[r].state = "pending")}
  OBVIOUS
<1>1. ASSUME NEW s \in Sns
      PROVE  WaitingOf(s)' = WaitingOf(s) \ gone /\ GivenOf(s)' = GivenOf(s)
  BY <1>0 DEF WaitingOf, GivenOf, Waits
<1>2. Line!AreLost(gone)
  <2>1. /\ [s \in Sns |-> WaitingOf(s)'] = [s \in Sns |-> WaitingOf(s) \ gone]
        /\ [s \in Sns |-> GivenOf(s)'] = [s \in Sns |-> GivenOf(s)]
    BY <1>1
  <2>2. QED
    BY <2>1 DEF Line!AreLost, WaitingOf, GivenOf
<1>3. QED
  BY <1>2 DEF Line!LineNext

\* A failed row waits no more, unless it was acknowledged before.
LEMMA FailWaits ==
    ASSUME QueueInv, UNCHANGED handovers, NEW r \in Commands,
           cmds' = Fail(cmds, r) \/ UNCHANGED cmds, claimed' \subseteq claimed
    PROVE  Line!LineNext
<1>1. cmds \in Table
  BY DEF QueueInv, TypeOK
<1>2. \A q \in Commands : /\ cmds'[q].sn = cmds[q].sn
                          /\ cmds'[q].state = "pending" => cmds[q].state = "pending"
  BY <1>1, FailFacts
<1>3. QED
  BY <1>2, FewerWait DEF Waits

\* A new row's id is larger than all that wait or were given.
LEMMA EnqueueJoins ==
    ASSUME QueueInv, NEW s \in Sns, NEW ty \in InfoTypes, Enqueue(s, ty)
    PROVE  Line!LineNext
<1>1. PICK i \in Commands : IsNextId(cmds, i) /\ cmds' = Insert(cmds, i, s, ty)
  BY DEF Enqueue
<1>2. cmds \in Table /\ UNCHANGED <<handovers, claimed>>
  BY DEF QueueInv, TypeOK, Enqueue, historyVars, pollerVars
<1>3. /\ cmds'[i].state = "pending" /\ cmds'[i].sn = s
      /\ \A q \in Commands : q # i => cmds'[q] = cmds[q]
  BY <1>1, <1>2, InsertFacts
<1>4. /\ cmds[i].state = "none"
      /\ i \notin claimed /\ handovers[i] = 0
  BY <1>1 DEF IsNextId, QueueInv, RowsAreConsistent
<1>5. ASSUME NEW q \in Commands, Waits(q) \/ handovers[q] > 0
      PROVE  q < i
  <2>1. cmds[q].state # "none"
    <3>1. handovers[q] \in Nat
      BY DEF QueueInv, TypeOK
    <3>2. QED
      BY <1>5, <3>1 DEF Waits, QueueInv, RowsAreConsistent
  <2>2. ~ i < q /\ i # q
    BY <1>4, <2>1 DEF QueueInv, RowsAreConsistent
  <2>3. QED
    BY <2>2, IdentitiesAssumption
<1>6. /\ WaitingOf(s)' = WaitingOf(s) \cup {i}
      /\ \A t \in Sns : t # s => WaitingOf(t)' = WaitingOf(t)
      /\ \A t \in Sns : GivenOf(t)' = GivenOf(t)
  <2>1. \A q \in Commands : q \in claimed' \/ cmds'[q].state = "pending" <=> Waits(q) \/ q = i
    BY <1>2, <1>3, <1>4 DEF Waits
  <2>2. \A q \in Commands : q # i => cmds'[q].sn = cmds[q].sn
    BY <1>3
  <2>3. ~ Waits(i) /\ ~ handovers[i] > 0
    BY <1>4 DEF Waits
  <2>4. ASSUME NEW t \in Sns
        PROVE  /\ t = s => WaitingOf(t)' = WaitingOf(t) \cup {i}
               /\ t # s => WaitingOf(t)' = WaitingOf(t)
               /\ GivenOf(t)' = GivenOf(t)
    BY <1>2, <1>3, <2>1, <2>2, <2>3 DEF WaitingOf, GivenOf, Waits
  <2>5. QED
    BY <2>4
<1>7. Line!Joins(s, i)
  <2> DEFINE waiting == [t \in Sns |-> WaitingOf(t)]
             given == [t \in Sns |-> GivenOf(t)]
  <2>1. \A q \in waiting[s] \cup given[s] : q < i
    BY <1>5 DEF WaitingOf, GivenOf
  <2>2. waiting' = [waiting EXCEPT ![s] = @ \cup {i}] /\ given' = given
    BY <1>6
  <2>3. QED
    BY <2>1, <2>2 DEF Line!Joins, WaitingOf, GivenOf
<1>8. QED
  BY <1>7 DEF Line!LineNext

\* What is pushed is the first of its robot's line: of the claimed rows it
\* has the smallest id, and rows still pending come after it.
LEMMA PushIsGiven ==
    ASSUME QueueInv, NEW r \in Commands, Pushes(r)
    PROVE  Line!LineNext
<1>1. /\ r \in claimed /\ \A q \in claimed : r <= q
      /\ UNCHANGED cmds /\ claimed' = claimed \ {r}
      /\ handovers' = [handovers EXCEPT ![r] = @ + 1]
  BY DEF Pushes, FirstClaimed
<1>2. /\ handovers \in [Commands -> Nat] /\ handovers[r] = 0
      /\ cmds[r].state \notin {"none", "pending"} /\ cmds[r].sn \in Sns
  BY <1>1 DEF QueueInv, RowsAreConsistent, TypeOK
<1> PICK s \in Sns : s = cmds[r].sn
  BY <1>2
<1>3. ASSUME NEW q \in Commands, cmds[q].sn = s, Waits(q)
      PROVE  r <= q
  <2>1. CASE q \in claimed
    BY <1>1, <2>1
  <2>2. CASE cmds[q].state = "pending"
    <3>1. r < q
      BY <1>1, <1>3, <2>2 DEF QueueInv, IdsFollowProgress, ClaimedBefore
    <3>2. QED
      BY <3>1, IdentitiesAssumption
  <2>3. QED
    BY <1>3, <2>1, <2>2 DEF Waits
<1>4. /\ \A q \in Commands :
           q \in claimed' \/ cmds'[q].state = "pending" <=> Waits(q) /\ q # r
      /\ \A q \in Commands : handovers'[q] > 0 <=> handovers[q] > 0 \/ q = r
  BY <1>1, <1>2 DEF Waits
<1>5. ASSUME NEW t \in Sns
      PROVE  /\ t = s => /\ WaitingOf(t)' = WaitingOf(t) \ {r}
                         /\ GivenOf(t)' = GivenOf(t) \cup {r}
             /\ t # s => WaitingOf(t)' = WaitingOf(t) /\ GivenOf(t)' = GivenOf(t)
  BY <1>1, <1>4 DEF WaitingOf, GivenOf, Waits
<1>6. r \in WaitingOf(s)
  BY <1>1 DEF WaitingOf, Waits
<1>7. Line!IsGiven(s, r)
  <2> DEFINE waiting == [t \in Sns |-> WaitingOf(t)]
             given == [t \in Sns |-> GivenOf(t)]
  <2>1. r \in waiting[s] /\ \A q \in waiting[s] : r <= q
    BY <1>2, <1>3, <1>6 DEF WaitingOf
  <2>2. waiting' = [waiting EXCEPT ![s] = @ \ {r}]
    BY <1>2, <1>5
  <2>3. given' = [given EXCEPT ![s] = @ \cup {r}]
    BY <1>2, <1>5
  <2>4. QED
    BY <2>1, <2>2, <2>3 DEF Line!IsGiven, WaitingOf, GivenOf
<1>8. QED
  BY <1>7 DEF Line!LineNext

\* Claimed rows wait on.
LEMMA ClaimsWait ==
    ASSUME QueueInv, Claims
    PROVE  Line!LineNext
<1>1. /\ cmds \in Table /\ cmds' = Claim(cmds, robot)
      /\ claimed' = PendingOf(cmds, robot) /\ UNCHANGED handovers
  BY DEF QueueInv, TypeOK, Claims, historyVars
<1>2. \A r \in Commands : cmds'[r].sn = cmds[r].sn
  BY <1>1, ClaimFacts
<1>3. \A r \in Commands : r \in claimed' \/ cmds'[r].state = "pending" => Waits(r)
  BY <1>1, ClaimFacts DEF Waits, PendingOf
<1>4. QED
  BY <1>1, <1>2, <1>3, FewerWait

\* Every step of the queue is a step of CommandLine, or none.
LEMMA StepIsLine ==
    ASSUME QueueInv, [Next]_vars
    PROVE  [Line!LineNext]_Line!lineVars
<1>1. ASSUME UNCHANGED <<cmds, handovers>>, claimed' \subseteq claimed
      PROVE  Line!LineNext
  BY <1>1, FewerWait DEF Waits
<1>2. CASE GatewayStep \/ UNCHANGED vars
  BY <1>1, <1>2 DEF GatewayStep, vars, commandVars, historyVars, pollerVars
<1>3. CASE PollerStep
  <2>1. CASE Sweeps
    <3>1. cmds \in Table /\ cmds' = Expire(cmds) /\ UNCHANGED <<handovers, claimed>>
      BY <2>1 DEF QueueInv, TypeOK, Sweeps, DrainStarts
    <3>2. \A r \in Commands :
            /\ cmds'[r].sn = cmds[r].sn
            /\ cmds'[r].state = "pending" => cmds[r].state = "pending"
      BY <3>1, ExpireFacts
    <3>3. QED
      BY <3>1, <3>2, FewerWait DEF Waits
  <2>2. CASE Claims
    BY <2>2, ClaimsWait
  <2>3. ASSUME NEW r \in Commands, Pushes(r)
        PROVE  Line!LineNext
    BY <2>3, PushIsGiven
  <2>4. ASSUME NEW r \in Commands, Rejects(r)
        PROVE  Line!LineNext
    <3>1. /\ UNCHANGED handovers /\ claimed' \subseteq claimed
          /\ cmds' = Fail(cmds, r) \/ UNCHANGED cmds
      BY <2>4 DEF Rejects, AfterFailure
    <3>2. QED
      BY <3>1, FailWaits
  <2>5. CASE \/ SweepFails \/ Lists \/ ListFails \/ ClaimFails \/ RobotDone
             \/ \E s \in Sns : Skips(s) \/ LooksUp(s)
    BY <1>1, <2>5 DEF SweepFails, DrainStarts, Lists, ListFails, ListsAs, Skips, LooksUp,
                      ClaimFails, RobotDone, historyVars
  <2>6. QED
    BY <1>3, <2>1, <2>2, <2>3, <2>4, <2>5 DEF PollerStep, Refuses, FindsWriterGone
<1>4. CASE \E s \in Sns, ty \in InfoTypes : Enqueue(s, ty)
  BY <1>4, EnqueueJoins
<1>5. ASSUME NEW s \in Sns, NEW ty \in InfoTypes, Responds(s, ty)
      PROVE  Line!LineNext
  <2>1. /\ cmds \in Table /\ UNCHANGED <<handovers, claimed>>
        /\ cmds' = Ack(cmds, s, ty)
    BY <1>5 DEF QueueInv, TypeOK, Responds, pollerVars
  <2>2. \A q \in Commands : /\ cmds'[q].sn = cmds[q].sn
                            /\ cmds'[q].state = "pending" => cmds[q].state = "pending"
    BY <2>1, AckFacts
  <2>3. QED
    BY <2>1, <2>2, FewerWait DEF Waits
<1>6. ASSUME NEW r \in Commands, Retires(r)
      PROVE  Line!LineNext
  <2>1. /\ UNCHANGED <<handovers, claimed>>
        /\ cmds' = Fail(cmds, r) \/ UNCHANGED cmds
    BY <1>6 DEF Retires, historyVars, pollerVars
  <2>2. QED
    BY <2>1, FailWaits
<1>7. CASE (\E s \in Sns : FindsStale(s)) \/ Restart
  BY <1>1, <1>7 DEF FindsStale, Restart, historyVars, pollerVars
<1>8. CASE Tick
  <2>1. cmds \in Table /\ cmds' = Aged(cmds) /\ UNCHANGED <<handovers, claimed>>
    BY <1>8 DEF Tick, QueueInv, TypeOK, pollerVars
  <2>2. QED
    BY <2>1, AgedFacts, FewerWait DEF Waits
<1>9. QED
  BY <1>2, <1>3, <1>4, <1>5, <1>6, <1>7, <1>8 DEF Next

LEMMA InitIsLine == Init => Line!LineInit
BY DEF Init, EmptyTable, NoRow, Line!LineInit, Waits

\* The rows of each robot are a line, whatever fails, expires, reconnects or
\* restarts: none is passed by a later one, given twice, or put back.
THEOREM AlwaysKeepsLine == Spec => KeepsLine
BY InitIsLine, StepIsLine, QueueInvariant, PTL DEF Spec, KeepsLine, Line!LineSpec

-----------------------------------------------------------------------------
(* Frames on their way, and what a reply acknowledges.                     *)

\* Where a frame can be between the push and the robot: with the writer, and
\* behind that in the queue.
Places(c) == 0 .. Len(queue[c])
At(c, i) == IF i = 0 THEN inflight[c] ELSE queue[c][i]

\* The frame of a row is in one place at most, and set out from a push.
FramesInOnePlace ==
    /\ \A c, d \in Conns : \A i \in Places(c), j \in Places(d) :
          At(c, i) \in Commands /\ At(d, j) = At(c, i) => c = d /\ i = j
    /\ \A c \in Conns : \A i \in Places(c) :
          At(c, i) \in Commands => handovers[At(c, i)] > 0

LEMMA FramesInit == Init => FramesInOnePlace
<1> SUFFICES ASSUME Init PROVE FramesInOnePlace
  OBVIOUS
<1>1. \A c \in Conns : queue[c] = <<>> /\ inflight[c] = NoCommand
  BY DEF Init, GatewayInit
<1>2. \A c \in Conns : \A i \in Places(c) : At(c, i) \notin Commands
  BY <1>1, GatewayAssumption DEF Places, At
<1>3. QED
  BY <1>2 DEF FramesInOnePlace

\* A step that moves frames up in their queues, by k[c] places, or drops them.
LEMMA FramesMoveUp ==
    ASSUME FramesInOnePlace, UNCHANGED handovers,
           NEW k \in [Conns -> Nat],
           \A c \in Conns : \A i \in Places(c)' : At(c, i)' \in Commands =>
              i + k[c] \in Places(c) /\ At(c, i)' = At(c, i + k[c])
    PROVE  FramesInOnePlace'
<1>1. ASSUME NEW c \in Conns, NEW d \in Conns,
             NEW i \in Places(c)', NEW j \in Places(d)',
             At(c, i)' \in Commands, At(d, j)' = At(c, i)'
      PROVE  c = d /\ i = j
  <2>1. /\ i + k[c] \in Places(c) /\ At(c, i)' = At(c, i + k[c])
        /\ j + k[d] \in Places(d) /\ At(d, j)' = At(d, j + k[d])
    BY <1>1
  <2>2. c = d /\ i + k[c] = j + k[d]
    BY <1>1, <2>1 DEF FramesInOnePlace
  <2>3. i \in Int /\ j \in Int /\ k[c] \in Int
    BY <1>1 DEF Places
  <2>4. QED
    BY <2>2, <2>3
<1>2. ASSUME NEW c \in Conns, NEW i \in Places(c)', At(c, i)' \in Commands
      PROVE  handovers[At(c, i)'] > 0
  BY <1>2 DEF FramesInOnePlace
<1>3. QED
  BY <1>1, <1>2 DEF FramesInOnePlace

LEMMA TailFacts ==
    ASSUME NEW S, NEW q \in Seq(S), q # <<>>
    PROVE  /\ Len(Tail(q)) = Len(q) - 1 /\ Len(q) \in Nat
           /\ \A m \in 1 .. Len(Tail(q)) : Tail(q)[m] = q[m + 1]
           /\ Head(q) = q[1]
OBVIOUS

\* A step of the gateway that is no push: frames move up, and what else is
\* queued belongs to no row.
LEMMA GatewayMovesUp ==
    ASSUME QueueInv, FramesInOnePlace, UNCHANGED handovers,
           \/ UNCHANGED <<queue, inflight>>
           \/ GatewayStep
           \/ ProcessEnds
    PROVE  FramesInOnePlace'
<1> USE GatewayAssumption
<1> DEFINE still == [c \in Conns |-> 0]
<1>0. /\ still \in [Conns -> Nat]
      /\ queue \in [Conns -> Seq(Frame)]
      /\ inflight \in [Conns -> Frame]
  BY DEF QueueInv, TypeOK, GatewayTypeOK
<1>1. CASE UNCHANGED <<queue, inflight>>
  <2>1. \A c \in Conns : \A i \in Places(c)' :
          i + still[c] \in Places(c) /\ At(c, i)' = At(c, i + still[c])
    BY <1>1 DEF Places, At
  <2> HIDE DEF still
  <2>2. QED
    BY <1>0, <2>1, FramesMoveUp
<1>2. CASE ProcessEnds
  <2>1. \A c \in Conns : \A i \in Places(c)' : At(c, i)' \notin Commands
    BY <1>2 DEF ProcessEnds, Places, At
  <2> HIDE DEF still
  <2>2. QED
    BY <1>0, <2>1, FramesMoveUp
<1>3. ASSUME NEW c \in Conns, Accept(c) \/ WriterFails(c)
      PROVE  FramesInOnePlace'
  <2>1. /\ queue' = [queue EXCEPT ![c] = <<>>]
        /\ inflight' = [inflight EXCEPT ![c] = NoCommand]
    BY <1>3 DEF Accept, WriterFails
  <2>2. ASSUME NEW d \in Conns, NEW i \in Places(d)', At(d, i)' \in Commands
        PROVE  i + still[d] \in Places(d) /\ At(d, i)' = At(d, i + still[d])
    <3>1. CASE d = c
      BY <1>0, <2>1, <2>2, <3>1 DEF Places, At
    <3>2. CASE d # c
      BY <1>0, <2>1, <3>2 DEF Places, At
    <3>3. QED
      BY <3>1, <3>2
  <2> HIDE DEF still
  <2>3. QED
    BY <1>0, <2>2, FramesMoveUp
<1>8. ASSUME NEW c \in Conns, WriterWrites(c)
      PROVE  FramesInOnePlace'
  <2>1. queue' = queue /\ inflight' = [inflight EXCEPT ![c] = NoCommand]
    BY <1>8 DEF WriterWrites
  <2>2. ASSUME NEW d \in Conns, NEW i \in Places(d)', At(d, i)' \in Commands
        PROVE  i + still[d] \in Places(d) /\ At(d, i)' = At(d, i + still[d])
    <3>1. i \in Places(d) /\ i \in Nat
      BY <2>1 DEF Places
    <3>2. CASE i = 0
      BY <1>0, <2>1, <2>2, <3>1, <3>2 DEF At
    <3>3. CASE i # 0
      BY <2>1, <3>1, <3>3 DEF At
    <3>4. QED
      BY <3>2, <3>3
  <2> HIDE DEF still
  <2>3. QED
    BY <1>0, <2>2, FramesMoveUp
<1>4. ASSUME NEW c \in Conns, WriterTakes(c)
      PROVE  FramesInOnePlace'
  <2> DEFINE up == [d \in Conns |-> IF d = c THEN 1 ELSE 0]
  <2>0. up \in [Conns -> Nat]
    OBVIOUS
  <2>1. /\ queue[c] # <<>>
        /\ queue' = [queue EXCEPT ![c] = Tail(@)]
        /\ inflight' = [inflight EXCEPT ![c] = Head(queue[c])]
    BY <1>4 DEF WriterTakes
  <2>2. ASSUME NEW d \in Conns, NEW i \in Places(d)', At(d, i)' \in Commands
        PROVE  i + up[d] \in Places(d) /\ At(d, i)' = At(d, i + up[d])
    <3>1. CASE d = c
      <4>1. /\ queue[c] \in Seq(Frame) /\ queue'[c] = Tail(queue[c])
            /\ inflight'[c] = Head(queue[c])
        BY <1>0, <2>1
      <4>2. /\ Len(queue'[c]) = Len(queue[c]) - 1 /\ Len(queue[c]) \in Nat
            /\ \A m \in 1 .. Len(queue'[c]) : queue'[c][m] = queue[c][m + 1]
            /\ inflight'[c] = queue[c][1]
        BY <2>1, <4>1, TailFacts
      <4>3. i \in 0 .. Len(queue'[c]) /\ up[d] = 1
        BY <3>1 DEF Places
      <4> HIDE DEF up
      <4>4. i + 1 \in 0 .. Len(queue[c]) /\ i + 1 # 0
        BY <4>2, <4>3
      <4>5. At(c, i)' = queue[c][i + 1]
        BY <4>2, <4>3 DEF At
      <4>6. QED
        BY <3>1, <4>3, <4>4, <4>5 DEF Places, At
    <3>2. CASE d # c
      BY <1>0, <2>1, <3>2 DEF Places, At
    <3>3. QED
      BY <3>1, <3>2
  <2> HIDE DEF up
  <2>3. QED
    BY <2>0, <2>2, FramesMoveUp
<1>5. ASSUME NEW c \in Conns, Reply(c)
      PROVE  FramesInOnePlace'
  <2>1. /\ queue' = queue \/ queue' = [queue EXCEPT ![c] = Append(@, NoCommand)]
        /\ inflight' = inflight
    BY <1>5 DEF Reply, SendReturns
  <2>2. ASSUME NEW d \in Conns, NEW i \in Places(d)', At(d, i)' \in Commands
        PROVE  i + still[d] \in Places(d) /\ At(d, i)' = At(d, i + still[d])
    <3>1. CASE queue'[d] = queue[d]
      BY <2>1, <3>1 DEF Places, At
    <3>2. CASE queue'[d] = Append(queue[d], NoCommand)
      <4>1. /\ queue[d] \in Seq(Frame) /\ Len(queue[d]) \in Nat
            /\ Len(queue'[d]) = Len(queue[d]) + 1
            /\ queue'[d][Len(queue[d]) + 1] = NoCommand
            /\ \A m \in 1 .. Len(queue[d]) : queue'[d][m] = queue[d][m]
        BY <1>0, <3>2
      <4>2. i \in 0 .. Len(queue'[d]) /\ i # Len(queue[d]) + 1
        BY <2>2, <4>1 DEF Places, At
      <4>3. i \in 0 .. Len(queue[d])
        BY <4>1, <4>2
      <4>4. QED
        BY <2>1, <4>1, <4>3 DEF Places, At
    <3>3. QED
      BY <1>0, <2>1, <3>1, <3>2
  <2> HIDE DEF still
  <2>3. QED
    BY <1>0, <2>2, FramesMoveUp
<1>6. ASSUME NEW c \in Conns, ReaderStep(c) \/ WriterExits(c)
      PROVE  Reply(c) \/ UNCHANGED <<queue, inflight>>
  BY <1>6 DEF ReaderStep, Handshake, Ping, Telemetry, Hangup, WatchdogTrips, EndReader,
              WriterExits, gatewayVars
<1>7. QED
  BY <1>1, <1>2, <1>3, <1>4, <1>5, <1>6, <1>8 DEF GatewayStep, WriterStep

\* A push puts a row's frame at the end of a queue; it was nowhere before.
LEMMA PushKeepsFrames ==
    ASSUME QueueInv, FramesInOnePlace, NEW r \in Commands, Pushes(r)
    PROVE  FramesInOnePlace'
<1>1. /\ r \in claimed /\ handovers' = [handovers EXCEPT ![r] = @ + 1]
      /\ SendReturns(handle, r) /\ handle \in Conns
      /\ UNCHANGED inflight
  BY DEF Pushes, FirstClaimed, QueueInv, RowsAreConsistent
<1>2. /\ handovers \in [Commands -> Nat] /\ handovers[r] = 0
      /\ queue \in [Conns -> Seq(Frame)]
  BY <1>1 DEF QueueInv, TypeOK, GatewayTypeOK, RowsAreConsistent
<1>3. \A q \in Commands : handovers'[q] = IF q = r THEN 1 ELSE handovers[q]
  BY <1>1, <1>2
<1>4. \A c \in Conns : \A i \in Places(c) : At(c, i) # r
  BY <1>2 DEF FramesInOnePlace
<1> DEFINE last == Len(queue[handle]) + 1
<1>5. ASSUME NEW c \in Conns, NEW i \in Places(c)', At(c, i)' \in Commands
      PROVE  \/ i \in Places(c) /\ At(c, i)' = At(c, i)
             \/ c = handle /\ i = last /\ At(c, i)' = r
  <2>1. queue'[c] = queue[c] \/ (c = handle /\ queue'[c] = Append(queue[c], r))
    BY <1>1, <1>2 DEF SendReturns
  <2>2. CASE queue'[c] = queue[c]
    BY <1>1, <2>2 DEF Places, At
  <2>3. CASE c = handle /\ queue'[c] = Append(queue[c], r)
    <3>1. queue[c] \in Seq(Frame)
      BY <1>2
    <3>2. /\ Len(queue[c]) \in Nat
          /\ Len(queue'[c]) = Len(queue[c]) + 1
          /\ queue'[c][Len(queue[c]) + 1] = r
          /\ \A m \in 1 .. Len(queue[c]) : queue'[c][m] = queue[c][m]
      BY <2>3, <3>1
    <3>3. i \in 0 .. Len(queue'[c])
      BY DEF Places
    <3>4. CASE i = Len(queue[c]) + 1
      BY <2>3, <3>2, <3>4 DEF At
    <3>5. CASE i # Len(queue[c]) + 1
      <4>1. i \in 0 .. Len(queue[c])
        BY <3>2, <3>3, <3>5
      <4>2. QED
        BY <1>1, <3>2, <4>1 DEF Places, At
    <3>6. QED
      BY <3>4, <3>5
  <2>4. QED
    BY <2>1, <2>2, <2>3
<1> HIDE DEF last
<1>6. ASSUME NEW c \in Conns, NEW d \in Conns,
             NEW i \in Places(c)', NEW j \in Places(d)',
             At(c, i)' \in Commands, At(d, j)' = At(c, i)'
      PROVE  c = d /\ i = j
  <2>1. CASE i \in Places(c) /\ At(c, i)' = At(c, i)
    <3>1. At(c, i) # r
      BY <1>4, <2>1
    <3>2. j \in Places(d) /\ At(d, j)' = At(d, j)
      BY <1>5, <1>6, <2>1, <3>1
    <3>3. At(c, i) \in Commands /\ At(d, j) = At(c, i)
      BY <1>6, <2>1, <3>2
    <3>4. QED
      BY <2>1, <3>2, <3>3 DEF FramesInOnePlace
  <2>2. CASE c = handle /\ i = last /\ At(c, i)' = r
    <3>1. d = handle /\ j = last
      BY <1>4, <1>5, <1>6, <2>2
    <3>2. QED
      BY <2>2, <3>1
  <2>3. QED
    BY <1>5, <1>6, <2>1, <2>2
<1>7. ASSUME NEW c \in Conns, NEW i \in Places(c)', At(c, i)' \in Commands
      PROVE  handovers'[At(c, i)'] > 0
  <2>1. CASE i \in Places(c) /\ At(c, i)' = At(c, i)
    BY <1>1, <1>3, <1>7, <2>1 DEF FramesInOnePlace
  <2>2. CASE At(c, i)' = r
    BY <1>1, <1>3, <1>4, <2>2
  <2>3. QED
    BY <1>5, <1>7, <2>1, <2>2
<1>8. QED
  BY <1>6, <1>7 DEF FramesInOnePlace

LEMMA FramesStep == QueueInv /\ FramesInOnePlace /\ [Next]_vars => FramesInOnePlace'
<1> SUFFICES ASSUME QueueInv, FramesInOnePlace, [Next]_vars
             PROVE  FramesInOnePlace'
  OBVIOUS
<1>1. ASSUME NEW r \in Commands, Pushes(r)
      PROVE  FramesInOnePlace'
  BY <1>1, PushKeepsFrames
<1>2. CASE GatewayStep \/ Restart
  <2>1. UNCHANGED handovers
    BY <1>2 DEF GatewayStep, Restart, commandVars, historyVars
  <2>2. GatewayStep \/ ProcessEnds
    BY <1>2 DEF Restart
  <2>3. QED
    BY <2>1, <2>2, GatewayMovesUp
<1>3. ASSUME UNCHANGED <<queue, inflight, handovers>>
      PROVE  FramesInOnePlace'
  BY <1>3, GatewayMovesUp
<1>4. CASE PollerStep
  BY <1>1, <1>3, <1>4
     DEF PollerStep, Sweeps, SweepFails, DrainStarts, Lists, ListFails, ListsAs, Skips,
         LooksUp, Claims, ClaimFails, Refuses, FindsWriterGone, Rejects, RobotDone,
         gatewayVars, historyVars
<1>5. CASE \/ \E s \in Sns, ty \in InfoTypes : Enqueue(s, ty) \/ Responds(s, ty)
           \/ \E r \in Commands : Retires(r)
           \/ \E s \in Sns : FindsStale(s)
           \/ Tick
           \/ UNCHANGED vars
  BY <1>3, <1>5 DEF Enqueue, Responds, Retires, FindsStale, Tick, vars, commandVars,
                    gatewayVars, historyVars
<1>6. QED
  BY <1>2, <1>4, <1>5 DEF Next

\* The frame of a row is queued on one connection or with one writer, never
\* in two places: however the connection is replaced or the row's state
\* changes meanwhile, there is no second copy to be written.
THEOREM FramesAreInOnePlace == Spec => []FramesInOnePlace
BY FramesInit, FramesStep, QueueInvariant, PTL DEF Spec

-----------------------------------------------------------------------------
(* What an answer acknowledges.                                            *)

\* A row in use keeps its robot and its command number, and only an answer
\* acknowledges it.
RowKept(r) ==
    /\ cmds[r].state # "none" =>
          cmds'[r].sn = cmds[r].sn /\ cmds'[r].infoType = cmds[r].infoType
    /\ cmds'[r].state = "acked" => cmds[r].state = "acked"

LEMMA StepKeepsRows ==
    ASSUME QueueInv, [Next]_vars
    PROVE  \/ \E s \in Sns, ty \in InfoTypes : Responds(s, ty)
           \/ UNCHANGED posted /\ \A r \in Commands : RowKept(r)
<1>1. cmds \in Table
  BY DEF QueueInv, TypeOK
<1>2. ASSUME UNCHANGED cmds
      PROVE  \A r \in Commands : RowKept(r)
  BY <1>2 DEF RowKept
<1>3. ASSUME NEW i \in Commands, cmds' = Fail(cmds, i)
      PROVE  \A r \in Commands : RowKept(r)
  BY <1>1, <1>3, FailFacts DEF RowKept
<1>4. ASSUME Sweeps
      PROVE  \A r \in Commands : RowKept(r)
  BY <1>1, <1>4, ExpireFacts DEF Sweeps, RowKept
<1>5. ASSUME Claims
      PROVE  \A r \in Commands : RowKept(r)
  <2>1. cmds' = Claim(cmds, robot)
    BY <1>5 DEF Claims
  <2>2. QED
    BY <1>1, <2>1, ClaimFacts DEF RowKept
<1>6. ASSUME Tick
      PROVE  UNCHANGED posted /\ \A r \in Commands : RowKept(r)
  BY <1>1, <1>6, AgedFacts DEF Tick, RowKept
<1>7. ASSUME NEW s \in Sns, NEW ty \in InfoTypes, Enqueue(s, ty)
      PROVE  UNCHANGED posted /\ \A r \in Commands : RowKept(r)
  <2>1. PICK i \in Commands : IsNextId(cmds, i) /\ cmds' = Insert(cmds, i, s, ty)
    BY <1>7 DEF Enqueue
  <2>2. UNCHANGED posted
    BY <1>7 DEF Enqueue, historyVars
  <2>3. QED
    BY <1>1, <2>1, <2>2, InsertFacts DEF IsNextId, RowKept
<1>8. ASSUME PollerStep
      PROVE  UNCHANGED posted /\ \A r \in Commands : RowKept(r)
  <2>1. UNCHANGED posted
    BY <1>8 DEF PollerStep, Sweeps, SweepFails, DrainStarts, Lists, ListFails, ListsAs, Skips,
                LooksUp, Claims, ClaimFails, Pushes, Refuses, FindsWriterGone, Rejects,
                RobotDone, historyVars
  <2>2. \A r \in Commands : RowKept(r)
    BY <1>2, <1>3, <1>4, <1>5, <1>8
       DEF PollerStep, SweepFails, Lists, ListFails, ListsAs, Skips, LooksUp, ClaimFails,
           Pushes, Refuses, FindsWriterGone, Rejects, RobotDone
  <2>3. QED
    BY <2>1, <2>2
<1>9. ASSUME \/ GatewayStep
             \/ \E r \in Commands : Retires(r)
             \/ \E s \in Sns : FindsStale(s)
             \/ Restart
             \/ UNCHANGED vars
      PROVE  UNCHANGED posted /\ \A r \in Commands : RowKept(r)
  BY <1>2, <1>3, <1>9 DEF GatewayStep, Retires, FindsStale, Restart, commandVars,
                          historyVars, vars
<1>10. QED
  BY <1>6, <1>7, <1>8, <1>9 DEF Next

\* With no bound on the answers, the table may be infinite; what robots have
\* acknowledged is not.
AckedRows == {r \in Commands : cmds[r].state = "acked"}
AcksInv == IsFiniteSet(AckedRows) /\ AcksAreBacked

LEMMA AckedOfIsFinite ==
    ASSUME AcksInv, NEW s, NEW ty
    PROVE  IsFiniteSet(AckedOf(s, ty)) /\ Cardinality(AckedOf(s, ty)) \in Nat
<1>1. AckedOf(s, ty) \in SUBSET AckedRows
  BY DEF AckedOf, AckedRows
<1>2. QED
  BY <1>1, FS_Subset, FS_CardinalityType DEF AcksInv

LEMMA AcksInitInv == Init => AcksInv
<1> SUFFICES ASSUME Init
             PROVE  AcksInv
  OBVIOUS
<1>1. \A r \in Commands : cmds[r].state = "none"
  BY DEF Init, EmptyTable, NoRow
<1>2. AckedRows = {} /\ \A s \in Sns, ty \in InfoTypes : AckedOf(s, ty) = {}
  BY <1>1 DEF AckedRows, AckedOf
<1>3. \A s \in Sns, ty \in InfoTypes : posted[s][ty] = 0
  BY DEF Init
<1>4. QED
  BY <1>2, <1>3, FS_EmptySet DEF AcksInv, AcksAreBacked

\* No answer: nothing is acknowledged.
LEMMA BackedUnlessReply ==
    ASSUME QueueInv, AcksInv, UNCHANGED posted, \A r \in Commands : RowKept(r)
    PROVE  AcksInv'
<1>1. AckedRows' \in SUBSET AckedRows
  BY DEF RowKept, AckedRows
<1>2. IsFiniteSet(AckedRows')
  BY <1>1, FS_Subset DEF AcksInv
<1>3. ASSUME NEW s \in Sns, NEW ty \in InfoTypes
      PROVE  Cardinality(AckedOf(s, ty)') <= posted[s][ty]
  <2>1. AckedOf(s, ty)' \in SUBSET AckedOf(s, ty)
    BY DEF AckedOf, RowKept
  <2>2. IsFiniteSet(AckedOf(s, ty)) /\ Cardinality(AckedOf(s, ty)) \in Nat
    BY AckedOfIsFinite
  <2>3. /\ Cardinality(AckedOf(s, ty)') <= Cardinality(AckedOf(s, ty))
        /\ Cardinality(AckedOf(s, ty)') \in Nat
    BY <2>1, <2>2, FS_Subset, FS_CardinalityType
  <2>4. Cardinality(AckedOf(s, ty)) <= posted[s][ty] /\ posted[s][ty] \in Nat
    BY DEF AcksInv, AcksAreBacked, QueueInv, TypeOK
  <2>5. QED
    BY <2>2, <2>3, <2>4
<1>4. AcksAreBacked'
  BY <1>3 DEF AcksAreBacked, AckedOf
<1>5. QED
  BY <1>2, <1>4 DEF AcksInv

\* An answer acknowledges at most one row, of its robot and command number.
LEMMA BackedByReply ==
    ASSUME QueueInv, AcksInv, NEW s \in Sns, NEW ty \in InfoTypes, Responds(s, ty)
    PROVE  AcksInv'
<1> DEFINE S == AckTarget(cmds, s, ty)
<1>1. posted' = [posted EXCEPT ![s][ty] = @ + 1] /\ cmds' = Ack(cmds, s, ty)
  BY DEF Responds
<1>2. cmds \in Table /\ posted \in [Sns -> [InfoTypes -> Nat]]
  BY DEF QueueInv, TypeOK
<1>3. /\ \A q \in Commands :
           /\ cmds'[q].sn = cmds[q].sn /\ cmds'[q].infoType = cmds[q].infoType
           /\ q \in S => cmds'[q].state = "acked"
           /\ q \notin S => cmds'[q] = cmds[q]
      /\ \A q \in S : q \in Commands /\ cmds[q].sn = s /\ cmds[q].infoType = ty
      /\ \A p, q \in S : p = q
  BY <1>1, <1>2, AckFacts
<1> HIDE DEF S
<1>4. IsFiniteSet(S) /\ Cardinality(S) <= 1 /\ Cardinality(S) \in Nat
  <2>1. CASE S = {}
    BY <2>1, FS_EmptySet
  <2>2. ASSUME NEW q \in S
        PROVE  IsFiniteSet(S) /\ Cardinality(S) = 1
    <3>1. S = {q}
      BY <1>3
    <3>2. QED
      BY <3>1, FS_Singleton
  <2>3. QED
    BY <2>1, <2>2
<1>5. IsFiniteSet(AckedRows')
  <2>1. AckedRows' = AckedRows \cup S
    BY <1>3 DEF AckedRows
  <2>2. QED
    BY <1>4, <2>1, FS_Union DEF AcksInv
<1>6. ASSUME NEW s1 \in Sns, NEW ty1 \in InfoTypes
      PROVE  Cardinality(AckedOf(s1, ty1)') <= posted'[s1][ty1]
  <2> DEFINE A == AckedOf(s1, ty1)
  <2>1. /\ IsFiniteSet(A) /\ Cardinality(A) \in Nat
        /\ Cardinality(A) <= posted[s1][ty1] /\ posted[s1][ty1] \in Nat
    BY <1>2, AckedOfIsFinite DEF AcksInv, AcksAreBacked
  <2>2. CASE s1 = s /\ ty1 = ty
    <3>1. AckedOf(s1, ty1)' = A \cup S
      BY <1>3, <2>2 DEF AckedOf
    <3> HIDE DEF A
    <3>2. IsFiniteSet(A \cap S) /\ Cardinality(A \cap S) \in Nat
      <4>1. A \cap S \in SUBSET S
        OBVIOUS
      <4>2. QED
        BY <1>4, <4>1, FS_Subset, FS_CardinalityType
    <3>3. Cardinality(A \cup S) = Cardinality(A) + Cardinality(S) - Cardinality(A \cap S)
      BY <1>4, <2>1, FS_Union
    <3>4. posted'[s1][ty1] = posted[s1][ty1] + 1
      BY <1>1, <1>2, <2>2
    <3>5. QED
      BY <1>4, <2>1, <3>1, <3>2, <3>3, <3>4
  <2>3. CASE ~(s1 = s /\ ty1 = ty)
    <3>1. AckedOf(s1, ty1)' = A
      BY <1>3, <2>3 DEF AckedOf
    <3>2. posted'[s1][ty1] = posted[s1][ty1]
      BY <1>1, <1>2, <2>3
    <3>3. QED
      BY <2>1, <3>1, <3>2
  <2>4. QED
    BY <2>2, <2>3
<1>7. AcksAreBacked'
  BY <1>6 DEF AcksAreBacked, AckedOf
<1>8. QED
  BY <1>5, <1>7 DEF AcksInv

LEMMA AcksStepInv == QueueInv /\ AcksInv /\ [Next]_vars => AcksInv'
BY StepKeepsRows, BackedUnlessReply, BackedByReply

\* Every answer, late, doubled or never asked for, acknowledges one row at
\* most: of each robot and command number, no more rows are acknowledged than
\* answers were posted (ack_command).
THEOREM AcksAreAlwaysBacked == Spec => []AcksAreBacked
<1>1. AcksInv => AcksAreBacked
  BY DEF AcksInv
<1>2. Spec => []AcksInv
  BY AcksInitInv, AcksStepInv, QueueInvariant, PTL DEF Spec
<1>3. QED
  BY <1>1, <1>2, PTL

-----------------------------------------------------------------------------
(* Which row an answer acknowledges.                                       *)

\* Of one robot's rows, those that are out have smaller ids than those that
\* wait, and the later one of two that are out has been out no longer.
OutBefore(q, r) ==
    cmds[q].state = "sent" /\ cmds[q].sn = cmds[r].sn =>
        /\ cmds[r].state = "pending" => q < r
        /\ cmds[r].state = "sent" /\ q < r => cmds[r].sentAge <= cmds[q].sentAge
SentInOrder == \A q, r \in Commands : OutBefore(q, r)

\* A step that leaves the rows it does not finish as they were.
LEMMA OrderKept ==
    ASSUME SentInOrder,
           \A r \in Commands : cmds'[r].state \in Live =>
              /\ cmds'[r].state = cmds[r].state
              /\ cmds'[r].sn = cmds[r].sn
              /\ cmds'[r].sentAge = cmds[r].sentAge
    PROVE  SentInOrder'
BY DEF SentInOrder, OutBefore, Live

LEMMA InsertKeepsOrder ==
    ASSUME QueueInv, SentInOrder, NEW s \in Sns, NEW ty \in InfoTypes, Enqueue(s, ty)
    PROVE  SentInOrder'
<1>1. PICK i \in Commands : IsNextId(cmds, i) /\ cmds' = Insert(cmds, i, s, ty)
  BY DEF Enqueue
<1>2. cmds \in Table
  BY DEF QueueInv, TypeOK
<1>3. cmds'[i].state = "pending" /\ \A r \in Commands : r # i => cmds'[r] = cmds[r]
  BY <1>1, <1>2, InsertFacts
<1>4. \A q \in Commands : cmds[q].state = "sent" => q < i
  BY <1>1, IdentitiesAssumption DEF IsNextId, QueueInv, RowsAreConsistent
<1>5. QED
  BY <1>3, <1>4 DEF SentInOrder, OutBefore

LEMMA ClaimKeepsOrder ==
    ASSUME QueueInv, SentInOrder, Claims
    PROVE  SentInOrder'
<1>1. cmds \in Table /\ cmds' = Claim(cmds, robot)
  BY DEF Claims, QueueInv, TypeOK
<1>2. \A r \in Commands :
        /\ cmds'[r].sn = cmds[r].sn
        /\ r \in PendingOf(cmds, robot) => cmds'[r].state = "sent" /\ cmds'[r].sentAge = 0
        /\ r \notin PendingOf(cmds, robot) => cmds'[r] = cmds[r]
  BY <1>1, ClaimFacts
<1>3. \A r \in Commands :
        r \in PendingOf(cmds, robot) <=> cmds[r].sn = robot /\ cmds[r].state = "pending"
  BY DEF PendingOf
<1>4. \A r \in Commands : r \in Nat /\ cmds[r].sentAge \in Nat
  BY <1>1, IdentitiesAssumption, NeverType DEF Table, Row
<1>5. SUFFICES ASSUME NEW q \in Commands, NEW r \in Commands,
                      cmds'[q].state = "sent", cmds'[q].sn = cmds'[r].sn
               PROVE  /\ cmds'[r].state = "pending" => q < r
                      /\ cmds'[r].state = "sent" /\ q < r =>
                            cmds'[r].sentAge <= cmds'[q].sentAge
  BY DEF SentInOrder, OutBefore
<1>6. OutBefore(q, r) /\ OutBefore(r, q)
  BY DEF SentInOrder
<1>7. CASE q \in PendingOf(cmds, robot)
  <2>1. cmds[q].sn = robot /\ cmds[r].sn = robot /\ cmds[q].state = "pending"
    BY <1>2, <1>3, <1>5, <1>7
  <2>2. CASE r \in PendingOf(cmds, robot)
    BY <1>2, <1>7, <2>2
  <2>3. CASE r \notin PendingOf(cmds, robot)
    <3>1. cmds'[r] = cmds[r] /\ cmds[r].state # "pending"
      BY <1>2, <1>3, <2>1, <2>3
    <3>2. cmds[r].state = "sent" => r < q
      BY <1>6, <2>1 DEF OutBefore
    <3>3. QED
      BY <1>4, <3>1, <3>2
  <2>4. QED
    BY <2>2, <2>3
<1>8. CASE q \notin PendingOf(cmds, robot)
  <2>1. cmds'[q] = cmds[q] /\ cmds[q].sn = cmds[r].sn
    BY <1>2, <1>5, <1>8
  <2>2. CASE r \in PendingOf(cmds, robot)
    BY <1>2, <1>4, <2>1, <2>2
  <2>3. CASE r \notin PendingOf(cmds, robot)
    BY <1>2, <1>5, <1>6, <2>1, <2>3 DEF OutBefore
  <2>4. QED
    BY <2>2, <2>3
<1>9. QED
  BY <1>7, <1>8

LEMMA TickKeepsOrder ==
    ASSUME QueueInv, SentInOrder, Tick
    PROVE  SentInOrder'
<1>1. cmds \in Table /\ cmds' = Aged(cmds)
  BY DEF Tick, QueueInv, TypeOK
<1>2. \A r \in Commands : /\ cmds'[r].sn = cmds[r].sn
                          /\ cmds'[r].state = cmds[r].state
  BY <1>1, AgedFacts
<1>3. ASSUME NEW r \in Commands, cmds[r].state = "sent"
      PROVE  cmds'[r].sentAge
               = IF cmds[r].sentAge = Never THEN Never ELSE Older(cmds[r].sentAge)
  <2>1. cmds[r] \in Row
    BY <1>1 DEF Table
  <2>2. QED
    BY <1>1, <1>3, <2>1 DEF Aged, Row
<1>4. \A r \in Commands : cmds[r].sentAge \in 0 .. Never
  BY <1>1 DEF Table, Row
<1>5. ASSUME NEW q \in Commands, NEW r \in Commands,
             cmds[q].state = "sent", cmds[r].state = "sent",
             cmds[r].sentAge <= cmds[q].sentAge
      PROVE  cmds'[r].sentAge <= cmds'[q].sentAge
  <2>1. cmds[q].sentAge \in 0 .. MaxAge + 1 /\ cmds[r].sentAge \in 0 .. MaxAge + 1
    BY <1>4 DEF Never
  <2>2. QED
    BY <1>3, <1>5, <2>1, NeverType DEF Older, Never
<1>6. QED
  BY <1>2, <1>5 DEF SentInOrder, OutBefore

LEMMA OrderStep == QueueInv /\ SentInOrder /\ [Next]_vars => SentInOrder'
<1> SUFFICES ASSUME QueueInv, SentInOrder, [Next]_vars
             PROVE  SentInOrder'
  OBVIOUS
<1>1. cmds \in Table
  BY DEF QueueInv, TypeOK
<1>2. ASSUME UNCHANGED cmds
      PROVE  SentInOrder'
  BY <1>2, OrderKept
<1>3. ASSUME NEW i \in Commands, cmds' = Fail(cmds, i)
      PROVE  SentInOrder'
  <2>1. \A r \in Commands : cmds'[r].state \in Live => cmds'[r] = cmds[r]
    BY <1>1, <1>3, FailFacts DEF Live
  <2>2. QED
    BY <2>1, OrderKept
<1>4. CASE Sweeps
  <2>1. cmds' = Expire(cmds)
    BY <1>4 DEF Sweeps
  <2>2. \A r \in Commands : cmds'[r].state \in Live =>
          /\ cmds'[r].state = cmds[r].state
          /\ cmds'[r].sn = cmds[r].sn
          /\ cmds'[r].sentAge = cmds[r].sentAge
    BY <1>1, <2>1, ExpireFacts DEF Live
  <2>3. QED
    BY <2>2, OrderKept
<1>5. ASSUME NEW s \in Sns, NEW ty \in InfoTypes, Responds(s, ty)
      PROVE  SentInOrder'
  <2>1. cmds' = Ack(cmds, s, ty)
    BY <1>5 DEF Responds
  <2>2. \A r \in Commands : cmds'[r].state \in Live => cmds'[r] = cmds[r]
    BY <1>1, <2>1, AckFacts DEF Live
  <2>3. QED
    BY <2>2, OrderKept
<1>6. CASE PollerStep
  BY <1>2, <1>3, <1>4, <1>6, ClaimKeepsOrder
     DEF PollerStep, SweepFails, Lists, ListFails, ListsAs, Skips, LooksUp, ClaimFails,
         Pushes, Refuses, FindsWriterGone, Rejects, RobotDone
<1>7. CASE \/ GatewayStep
           \/ \E r \in Commands : Retires(r)
           \/ \E s \in Sns : FindsStale(s)
           \/ Restart
           \/ UNCHANGED vars
  BY <1>2, <1>3, <1>7 DEF GatewayStep, Retires, FindsStale, Restart, commandVars, vars
<1>8. QED
  BY <1>5, <1>6, <1>7, InsertKeepsOrder, TickKeepsOrder DEF Next

LEMMA OrderInit == Init => SentInOrder
BY DEF Init, EmptyTable, NoRow, SentInOrder, OutBefore

\* While a later row is out, an earlier one is not acknowledged.
CreditIsNewest(q, r) ==
    (/\ q < r
     /\ cmds[r].state = "sent"
     /\ cmds[q].sn = cmds[r].sn /\ cmds[q].infoType = cmds[r].infoType
     /\ cmds[q].state # "acked") => cmds'[q].state # "acked"

LEMMA StepCreditsNewest ==
    ASSUME QueueInv, SentInOrder, [Next]_vars, NEW q \in Commands, NEW r \in Commands
    PROVE  CreditIsNewest(q, r)
<1>1. CASE RowKept(q)
  BY <1>1 DEF RowKept, CreditIsNewest
<1>2. ASSUME NEW s \in Sns, NEW ty \in InfoTypes, Responds(s, ty),
             q < r, cmds[r].state = "sent", cmds[q].state # "acked",
             cmds[q].sn = cmds[r].sn, cmds[q].infoType = cmds[r].infoType
      PROVE  cmds'[q].state # "acked"
  <2>1. cmds' = Ack(cmds, s, ty) /\ cmds \in Table
    BY <1>2 DEF Responds, QueueInv, TypeOK
  <2>2. q \in Nat /\ r \in Nat /\ cmds[q].sentAge \in 0 .. Never /\ cmds[r].sentAge \in 0 .. Never
    BY <2>1, IdentitiesAssumption DEF Table, Row
  <2>3. ASSUME q \in AckTarget(cmds, s, ty)
        PROVE  FALSE
    <3>1. q \in Ackable(cmds, s, ty)
      BY <2>3 DEF AckTarget
    <3>2. /\ cmds[q].sn = s /\ cmds[q].infoType = ty /\ cmds[q].state = "sent"
          /\ cmds[q].sentAge <= Ttl
      BY <3>1 DEF Ackable
    <3>3. cmds[r].sentAge <= cmds[q].sentAge
      BY <1>2, <3>2 DEF SentInOrder, OutBefore
    <3>4. cmds[r].sentAge <= Ttl /\ cmds[r].sentAge # Never
      BY <2>2, <3>2, <3>3, TableAssumption DEF Never
    <3>5. r \in Ackable(cmds, s, ty)
      BY <1>2, <3>2, <3>4 DEF Ackable
    <3>6. \/ cmds[q].sentAge < cmds[r].sentAge
          \/ cmds[q].sentAge = cmds[r].sentAge /\ q >= r
      BY <2>3, <3>5 DEF AckTarget
    <3>7. QED
      BY <1>2, <2>2, <3>3, <3>6, NeverType
  <2>4. cmds'[q] = cmds[q]
    BY <2>1, <2>3, AckFacts
  <2>5. QED
    BY <1>2, <2>4
<1>3. QED
  BY <1>1, <1>2, StepKeepsRows DEF CreditIsNewest

\* While a row is out, no answer acknowledges an earlier row of its robot and
\* number: the newest in the sense of ack_command is the last enqueued,
\* because rows go out in the order of their ids (claim_commands).
THEOREM NewestIsAlwaysCredited == Spec => NewestIsCredited
<1>1. QueueInv /\ SentInOrder /\ [Next]_vars =>
        [\A q, r \in Commands : CreditIsNewest(q, r)]_vars
  BY StepCreditsNewest
<1>2. Spec => []SentInOrder
  BY OrderInit, OrderStep, QueueInvariant, PTL DEF Spec
<1>3. NewestIsCredited <=> [][\A q, r \in Commands : CreditIsNewest(q, r)]_vars
  BY DEF NewestIsCredited, CreditIsNewest
<1>4. QED
  BY <1>1, <1>2, <1>3, QueueInvariant, PTL DEF Spec
=============================================================================
