--------------------------- MODULE SteeringProofs ---------------------------
(***************************************************************************)
(* What holds of Steering for any number of robots and of requests under   *)
(* way, and any write queue, when clients take turns.                      *)
(***************************************************************************)
EXTENDS Steering, SequenceTheorems, TLAPS

(* The inductive invariant *)

\* What the robot's own side keeps: no queue and no mode without a connection.
DownIsFree ==
    \A s \in Sns : link[s] = "down" => queue[s] = <<>> /\ mode[s] = "free"

\* Who holds a robot's present connection.
LinkedIsUp ==
    /\ \A h \in Handlers : req[h].at # "idle" /\ ~ req[h].old => link[req[h].sn] = "up"
    /\ dog.at = "sending" /\ ~ dog.old => link[dog.sn] = "up"

\* Between two robots the watchdog has none.
WaitingHasNone == dog.at \in {"idle", "listed"} => dog.sn = NoSn

\* A 4000 and a steering order of one robot are not under way at once.
TurnsAreTaken ==
    \A g \in Handlers, h \in Handlers :
        req[g].at # "idle" /\ req[h].at # "idle" /\ req[g].sn = req[h].sn
            => ~ (req[g].code = "steer" /\ req[h].code = "leave")

\* From the moment a 4000 is queued, or its connection is lost, until it is
\* noted, the robot is not driven.
LeaversHaveLeft ==
    \A h \in Handlers :
        req[h].at # "idle" /\ req[h].code = "leave" /\ (req[h].at = "sent" \/ req[h].old)
            => ~ Driven(req[h].sn)

SteeringInv ==
    /\ SteeringTypeOK
    /\ DownIsFree
    /\ LinkedIsUp
    /\ WaitingHasNone
    /\ TurnsAreTaken
    /\ LeaversHaveLeft
    /\ DrivenIsWatched

-----------------------------------------------------------------------------
(* What the last order in a queue says *)

LEMMA NoRequestType == NoRequest \in Request /\ NoRequest.at = "idle"
  BY DEF NoRequest, Request, Codes

LEMMA NextOneType ==
    ASSUME NEW d \in Pass
    PROVE  /\ NextOne(d) \in Pass
           /\ NextOne(d).at \in {"idle", "listed"}
  BY DEF NextOne, Pass

LEMMA EmptyIsNotDriven ==
    ASSUME NEW s, queue[s] = <<>>, mode[s] = "free"
    PROVE  ~ Driven(s)
<1>1. DOMAIN queue[s] = {}
  OBVIOUS
<1> QED
  BY <1>1 DEF Driven

LEMMA AppendFacts ==
    ASSUME NEW q \in Seq(Codes), NEW code \in Codes
    PROVE  /\ Append(q, code) \in Seq(Codes)
           /\ Len(Append(q, code)) = Len(q) + 1
           /\ DOMAIN Append(q, code) = 1 .. Len(q) + 1
           /\ DOMAIN q = 1 .. Len(q)
           /\ \A i \in 1 .. Len(q) : Append(q, code)[i] = q[i]
           /\ Append(q, code)[Len(q) + 1] = code
           /\ Len(q) \in Nat
  OBVIOUS

LEMMA TailFacts ==
    ASSUME NEW q \in Seq(Codes), q # <<>>
    PROVE  /\ Tail(q) \in Seq(Codes)
           /\ Len(Tail(q)) = Len(q) - 1
           /\ DOMAIN Tail(q) = 1 .. Len(q) - 1
           /\ DOMAIN q = 1 .. Len(q)
           /\ \A i \in 1 .. Len(q) - 1 : Tail(q)[i] = q[i + 1]
           /\ Head(q) = q[1]
           /\ Len(q) \in Nat \ {0}
  OBVIOUS

\* Reading an order off the queue leaves the last order what it was.
LEMMA ReceivingKeepsDriven ==
    ASSUME SteeringTypeOK, NEW s \in Sns, Receives(s), NEW t \in Sns, Driven(t)'
    PROVE  Driven(t)
<1>1. CASE t # s
  BY <1>1 DEF SteeringTypeOK, Receives, Driven
<1>2. CASE t = s
  <2> DEFINE q == queue[s]
  <2>1. q \in Seq(Codes) /\ q # <<>> /\ queue'[s] = Tail(q)
    BY DEF SteeringTypeOK, Receives
  <2>2. mode'[s] = CASE q[1] = "steer" -> "manual"
                     [] q[1] = "leave" -> "free"
                     [] OTHER -> mode[s]
    BY <2>1, TailFacts DEF SteeringTypeOK, Receives
  <2>3. CASE \E i \in DOMAIN queue'[s] :
                /\ queue'[s][i] = "steer"
                /\ \A j \in DOMAIN queue'[s] : j > i => queue'[s][j] = "other"
    <3>1. PICK i \in 1 .. Len(q) - 1 :
            /\ q[i + 1] = "steer"
            /\ \A j \in 1 .. Len(q) - 1 : j > i => q[j + 1] = "other"
      <4>1. DOMAIN queue'[s] = 1 .. Len(q) - 1
        BY <2>1, TailFacts
      <4>2. \A j \in 1 .. Len(q) - 1 : queue'[s][j] = q[j + 1]
        BY <2>1, TailFacts
      <4> QED
        BY <2>3, <4>1, <4>2
    <3>2. \A j \in 1 .. Len(q) : j > i + 1 => q[j] = "other"
      <4>1. ASSUME NEW j \in 1 .. Len(q), j > i + 1
            PROVE  q[j] = "other"
        <5>1. j - 1 \in 1 .. Len(q) - 1 /\ j - 1 > i /\ (j - 1) + 1 = j
          BY <2>1, <4>1, TailFacts
        <5> QED
          BY <3>1, <5>1
      <4> QED
        BY <4>1
    <3>3. i + 1 \in DOMAIN q
      BY <2>1, TailFacts
    <3> QED
      BY <1>2, <2>1, <3>1, <3>2, <3>3, TailFacts DEF Driven
  <2>4. CASE /\ mode'[s] = "manual"
             /\ \A j \in DOMAIN queue'[s] : queue'[s][j] = "other"
    <3>1. \A j \in 2 .. Len(q) : q[j] = "other"
      <4>1. ASSUME NEW j \in 2 .. Len(q)
            PROVE  q[j] = "other"
        <5>1. j - 1 \in 1 .. Len(q) - 1 /\ (j - 1) + 1 = j
          BY <2>1, TailFacts
        <5>2. j - 1 \in DOMAIN queue'[s] /\ queue'[s][j - 1] = q[(j - 1) + 1]
          BY <2>1, <5>1, TailFacts
        <5> QED
          BY <2>4, <5>1, <5>2
      <4> QED
        BY <4>1
    <3>2. q[1] # "leave"
      BY <2>2, <2>4
    <3>3. q[1] \in Codes /\ 1 \in DOMAIN q /\ DOMAIN q = 1 .. Len(q) /\ Len(q) \in Nat
      BY <2>1, TailFacts
    <3>4. CASE q[1] = "steer"
      BY <1>2, <3>1, <3>3, <3>4 DEF Driven
    <3>5. CASE q[1] = "other"
      BY <1>2, <2>2, <2>4, <3>1, <3>3, <3>5 DEF Driven
    <3> QED
      BY <3>2, <3>3, <3>4, <3>5 DEF Codes
  <2> QED
    BY <1>2, <2>3, <2>4 DEF Driven
<1> QED
  BY <1>1, <1>2

\* A 4000 at the end of the queue ends the driving; another order that is not
\* steering starts none.
LEMMA QueuedDriven ==
    ASSUME SteeringTypeOK, NEW s \in Sns, NEW code \in Codes, Queued(s, code),
           mode' = mode
    PROVE  /\ queue' \in [Sns -> Seq(Codes)]
           /\ \A t \in Sns : Len(queue'[t]) <= Room
           /\ code = "leave" => ~ Driven(s)'
           /\ code = "other" => (Driven(s)' => Driven(s))
           /\ \A t \in Sns \ {s} : Driven(t)' => Driven(t)
           /\ \A t \in Sns \ {s} : queue'[t] = queue[t]
<1> DEFINE q == queue[s]
<1>1. q \in Seq(Codes) /\ queue'[s] = Append(q, code) /\ Len(q) < Room /\ Room \in Nat
  BY SteeringAssumption DEF SteeringTypeOK, Queued, HasRoom
<1>2. \A t \in Sns \ {s} : queue'[t] = queue[t]
  BY DEF SteeringTypeOK, Queued
<1>3. queue' \in [Sns -> Seq(Codes)]
  BY <1>1, AppendFacts DEF SteeringTypeOK, Queued
<1>4. \A t \in Sns : Len(queue'[t]) <= Room
  <2>1. Len(queue'[s]) = Len(q) + 1 /\ Len(q) \in Nat
    BY <1>1, AppendFacts
  <2>2. Len(queue'[s]) <= Room
    BY <1>1, <2>1
  <2> QED
    BY <1>2, <2>2 DEF SteeringTypeOK
<1>5. \A t \in Sns \ {s} : Driven(t)' => Driven(t)
  BY <1>2 DEF Driven
<1>6. ASSUME code = "leave"
      PROVE  ~ Driven(s)'
  <2>1. Len(q) + 1 \in DOMAIN queue'[s] /\ queue'[s][Len(q) + 1] = "leave"
    BY <1>1, <1>6, AppendFacts
  <2>2. \A i \in DOMAIN queue'[s] : queue'[s][i] = "steer" => Len(q) + 1 > i
    BY <1>1, <1>6, AppendFacts
  <2> QED
    BY <2>1, <2>2 DEF Driven
<1>7. ASSUME code = "other", Driven(s)'
      PROVE  Driven(s)
  <2>3. /\ DOMAIN queue'[s] = 1 .. Len(q) + 1
        /\ DOMAIN q = 1 .. Len(q)
        /\ Len(q) \in Nat
        /\ \A i \in 1 .. Len(q) : queue'[s][i] = q[i]
        /\ queue'[s][Len(q) + 1] = "other"
    BY <1>1, <1>7, AppendFacts
  <2>1. CASE \E i \in DOMAIN queue'[s] :
                /\ queue'[s][i] = "steer"
                /\ \A j \in DOMAIN queue'[s] : j > i => queue'[s][j] = "other"
    <3>1. PICK i \in 1 .. Len(q) : /\ q[i] = "steer"
                                   /\ \A j \in 1 .. Len(q) : j > i => q[j] = "other"
      <4>1. PICK i \in DOMAIN queue'[s] :
              /\ queue'[s][i] = "steer"
              /\ \A j \in DOMAIN queue'[s] : j > i => queue'[s][j] = "other"
        BY <2>1
      <4>2. i # Len(q) + 1
        BY <2>3, <4>1
      <4>3. i \in 1 .. Len(q)
        BY <2>3, <4>1, <4>2
      <4>4. \A j \in 1 .. Len(q) : j > i => q[j] = "other"
        BY <2>3, <4>1
      <4> QED
        BY <2>3, <4>1, <4>3, <4>4
    <3> QED
      BY <2>3, <3>1 DEF Driven
  <2>2. CASE /\ mode'[s] = "manual"
             /\ \A j \in DOMAIN queue'[s] : queue'[s][j] = "other"
    BY <2>2, <2>3 DEF Driven
  <2> QED
    BY <1>7, <2>1, <2>2 DEF Driven
<1> QED
  BY <1>2, <1>3, <1>4, <1>5, <1>6, <1>7

-----------------------------------------------------------------------------
(* Init and the steps *)

LEMMA InitSteering == Init => SteeringInv
<1> SUFFICES ASSUME Init
             PROVE  SteeringInv
  OBVIOUS
<1>1. \A s \in Sns : queue[s] = <<>> /\ mode[s] = "free"
  BY DEF Init
<1>2. SteeringTypeOK
  <2>1. <<>> \in Seq(Codes) /\ Len(<<>>) = 0
    OBVIOUS
  <2>2. dog \in Pass /\ dog.at = "idle"
    BY DEF Init, NoPass, Pass
  <2>3. req \in [Handlers -> Request] /\ \A h \in Handlers : req[h].at = "idle"
    BY NoRequestType DEF Init
  <2> QED
    BY <1>1, <2>1, <2>2, <2>3, SteeringAssumption DEF Init, SteeringTypeOK
<1>3. DownIsFree /\ LinkedIsUp /\ WaitingHasNone /\ DrivenIsWatched
  BY <1>1, EmptyIsNotDriven, NoRequestType
     DEF Init, DownIsFree, LinkedIsUp, WaitingHasNone, NoPass, DrivenIsWatched
<1>4. TurnsAreTaken /\ LeaversHaveLeft
  BY NoRequestType DEF Init, TurnsAreTaken, LeaversHaveLeft
<1> QED
  BY <1>2, <1>3, <1>4 DEF SteeringInv

LEMMA DialsInStep ==
    ASSUME SteeringInv, NEW s \in Sns, DialsIn(s)
    PROVE  SteeringInv'
<1>1. SteeringTypeOK'
  BY DEF SteeringInv, SteeringTypeOK, DialsIn
<1>2. DownIsFree' /\ LinkedIsUp' /\ WaitingHasNone'
  BY DEF SteeringInv, SteeringTypeOK, DownIsFree, LinkedIsUp, WaitingHasNone, DialsIn
<1>3. TurnsAreTaken' /\ LeaversHaveLeft' /\ DrivenIsWatched'
  BY DEF SteeringInv, TurnsAreTaken, LeaversHaveLeft, DrivenIsWatched, Driven, DialsIn
<1> QED
  BY <1>1, <1>2, <1>3 DEF SteeringInv

LEMMA HangsUpStep ==
    ASSUME SteeringInv, NEW s \in Sns, HangsUp(s)
    PROVE  SteeringInv'
<1>1. queue'[s] = <<>> /\ mode'[s] = "free" /\ ~ Driven(s)'
  <2>1. queue'[s] = <<>> /\ mode'[s] = "free"
    BY DEF SteeringInv, SteeringTypeOK, HangsUp
  <2>2. DOMAIN queue'[s] = {}
    BY <2>1
  <2> QED
    BY <2>1, <2>2 DEF Driven
<1>2. \A t \in Sns \ {s} : queue'[t] = queue[t] /\ mode'[t] = mode[t] /\ link'[t] = link[t]
  BY DEF SteeringInv, SteeringTypeOK, HangsUp
<1>3. \A t \in Sns \ {s} : Driven(t)' => Driven(t)
  BY <1>2 DEF Driven
<1>4. \A h \in Handlers : /\ req'[h] \in Request
                          /\ req'[h].at = req[h].at
                          /\ req'[h].sn = req[h].sn
                          /\ req'[h].code = req[h].code
                          /\ req[h].sn # s => req'[h].old = req[h].old
  BY DEF SteeringInv, SteeringTypeOK, HangsUp, Request
<1>5. /\ dog' \in Pass
      /\ dog'.at = dog.at
      /\ dog'.sn = dog.sn
      /\ dog.sn # s => dog'.old = dog.old
  BY DEF SteeringInv, SteeringTypeOK, HangsUp, Pass
<1>6. SteeringTypeOK'
  <2>1. queue' \in [Sns -> Seq(Codes)] /\ \A t \in Sns : Len(queue'[t]) <= Room
    BY <1>1, <1>2, SteeringAssumption DEF SteeringInv, SteeringTypeOK, HangsUp
  <2>2. req' \in [Handlers -> Request]
    BY <1>4 DEF HangsUp
  <2> QED
    BY <1>4, <1>5, <2>1, <2>2 DEF SteeringInv, SteeringTypeOK, HangsUp
<1>7. DownIsFree' /\ LinkedIsUp' /\ WaitingHasNone'
  BY <1>1, <1>2, <1>4, <1>5 DEF SteeringInv, SteeringTypeOK, DownIsFree, LinkedIsUp,
         WaitingHasNone, HangsUp
<1>8. TurnsAreTaken'
  BY <1>4 DEF SteeringInv, TurnsAreTaken
<1>9. LeaversHaveLeft'
  <2>1. ASSUME NEW h \in Handlers, NEW t \in Sns, req[h].sn = t, req[h].at # "idle",
               req[h].code = "leave", req[h].at = "sent" \/ req'[h].old
        PROVE  ~ Driven(t)'
    <3>1. CASE t = s
      BY <1>1, <3>1
    <3>2. CASE t # s
      BY <1>3, <1>4, <2>1, <3>2 DEF SteeringInv, LeaversHaveLeft
    <3> QED
      BY <3>1, <3>2
  <2>2. \A h \in Handlers : req[h].at # "idle" => req[h].sn \in Sns
    BY DEF SteeringInv, SteeringTypeOK
  <2> QED
    BY <1>4, <2>1, <2>2 DEF LeaversHaveLeft
<1>10. DrivenIsWatched'
  BY <1>1, <1>3, <1>4, <1>5 DEF SteeringInv, DrivenIsWatched, HangsUp
<1> QED
  BY <1>6, <1>7, <1>8, <1>9, <1>10 DEF SteeringInv

LEMMA ReceivesStep ==
    ASSUME SteeringInv, NEW s \in Sns, Receives(s)
    PROVE  SteeringInv'
<1>1. \A t \in Sns : Driven(t)' => Driven(t)
  BY ReceivingKeepsDriven DEF SteeringInv
<1>2. SteeringTypeOK'
  <2>1. Tail(queue[s]) \in Seq(Codes) /\ Len(Tail(queue[s])) <= Room
    BY TailFacts, SteeringAssumption DEF SteeringInv, SteeringTypeOK, Receives
  <2> QED
    BY <2>1 DEF SteeringInv, SteeringTypeOK, Receives
<1>3. DownIsFree' /\ LinkedIsUp' /\ WaitingHasNone'
  BY DEF SteeringInv, SteeringTypeOK, DownIsFree, LinkedIsUp, WaitingHasNone, Receives
<1>4. TurnsAreTaken'
  BY DEF SteeringInv, TurnsAreTaken, Receives
<1>5. LeaversHaveLeft'
  BY <1>1 DEF SteeringInv, SteeringTypeOK, LeaversHaveLeft, Receives
<1>6. DrivenIsWatched'
  BY <1>1 DEF SteeringInv, DrivenIsWatched, Receives
<1> QED
  BY <1>2, <1>3, <1>4, <1>5, <1>6 DEF SteeringInv

LEMMA AsksStep ==
    ASSUME SteeringInv, ~ Overlapping, NEW h \in Handlers, NEW s \in Sns, NEW code \in Codes,
           Asks(h, s, code)
    PROVE  SteeringInv'
<1> DEFINE r == [at |-> "sending", sn |-> s, code |-> code, old |-> FALSE]
<1>1. req' = [req EXCEPT ![h] = r] /\ r \in Request /\ req[h].at = "idle"
  BY DEF Asks, Request
<1>2. SteeringTypeOK'
  BY <1>1 DEF SteeringInv, SteeringTypeOK, Asks
<1>3. DownIsFree' /\ LinkedIsUp' /\ WaitingHasNone'
  BY <1>1 DEF SteeringInv, SteeringTypeOK, DownIsFree, LinkedIsUp, WaitingHasNone, Asks
<1>4. TurnsAreTaken'
  <2>1. TakesTurn(s, code)
    BY DEF Asks
  <2>2. \A g \in Handlers : req[g].at # "idle" /\ req[g].sn = s =>
            /\ code = "leave" => req[g].code # "steer"
            /\ code = "steer" => req[g].code # "leave"
    BY <2>1 DEF TakesTurn, Active
  <2>3. \A g \in Handlers : req'[g] = IF g = h THEN r ELSE req[g]
    BY <1>1 DEF SteeringInv, SteeringTypeOK
  <2> QED
    BY <2>2, <2>3 DEF SteeringInv, TurnsAreTaken
<1>5. \A t \in Sns : Driven(t)' <=> Driven(t)
  BY DEF Driven, Asks
<1>6. LeaversHaveLeft'
  BY <1>1, <1>5 DEF SteeringInv, SteeringTypeOK, LeaversHaveLeft
<1>7. DrivenIsWatched'
  BY <1>1, <1>5 DEF SteeringInv, SteeringTypeOK, DrivenIsWatched, Asks
<1> QED
  BY <1>2, <1>3, <1>4, <1>6, <1>7 DEF SteeringInv

LEMMA SendsStep ==
    ASSUME SteeringInv, NEW h \in Handlers, Sends(h)
    PROVE  SteeringInv'
<1>1. PICK s \in Sns, code \in Codes :
        s = req[h].sn /\ code = req[h].code /\ req[h] \in Request /\ req[h].at = "sending"
  BY DEF SteeringInv, SteeringTypeOK, Sends, Request
<1>2. Queued(s, code) /\ UNCHANGED <<link, mode, watched, dog>>
  BY <1>1 DEF Sends
<1>3. /\ queue' \in [Sns -> Seq(Codes)]
      /\ \A t \in Sns : Len(queue'[t]) <= Room
      /\ code = "leave" => ~ Driven(s)'
      /\ code = "other" => (Driven(s)' => Driven(s))
      /\ \A t \in Sns \ {s} : Driven(t)' => Driven(t)
      /\ \A t \in Sns \ {s} : queue'[t] = queue[t]
  BY <1>1, <1>2, QueuedDriven DEF SteeringInv
<1>4. /\ req' \in [Handlers -> Request]
      /\ \A g \in Handlers : /\ req'[g].sn = req[g].sn
                             /\ req'[g].code = req[g].code
                             /\ req'[g].old = req[g].old
                             /\ req'[g].at = IF g = h THEN "sent" ELSE req[g].at
  BY <1>1 DEF SteeringInv, SteeringTypeOK, Sends, Request
<1>5. SteeringTypeOK'
  BY <1>1, <1>2, <1>3, <1>4 DEF SteeringInv, SteeringTypeOK
<1>6. DownIsFree' /\ LinkedIsUp' /\ WaitingHasNone'
  <2>1. link[s] = "up"
    BY <1>1 DEF SteeringInv, LinkedIsUp, Sends
  <2> QED
    BY <1>1, <1>2, <1>3, <1>4, <2>1 DEF SteeringInv, DownIsFree, LinkedIsUp, WaitingHasNone
<1>7. TurnsAreTaken'
  BY <1>1, <1>4 DEF SteeringInv, TurnsAreTaken
<1>8. LeaversHaveLeft'
  <2>1. ASSUME NEW g \in Handlers, NEW t \in Sns, req[g].sn = t, req'[g].at # "idle",
               req[g].code = "leave", req'[g].at = "sent" \/ req[g].old
        PROVE  ~ Driven(t)'
    <3>1. CASE g = h
      BY <1>1, <1>3, <1>4, <2>1, <3>1
    <3>2. CASE g # h /\ t # s
      BY <1>3, <1>4, <2>1, <3>2 DEF SteeringInv, SteeringTypeOK, LeaversHaveLeft
    <3>3. CASE g # h /\ t = s
      <4>1. ~ Driven(s) /\ code # "steer"
        BY <1>1, <1>4, <2>1, <3>3 DEF SteeringInv, LeaversHaveLeft, TurnsAreTaken
      <4>2. code \in {"leave", "other"}
        BY <1>1, <4>1 DEF Codes
      <4> QED
        BY <1>3, <3>3, <4>1, <4>2
    <3> QED
      BY <3>1, <3>2, <3>3
  <2>2. \A g \in Handlers : req'[g].at # "idle" => req'[g].sn \in Sns /\ req'[g].sn = req[g].sn
    BY <1>4, <1>5 DEF SteeringTypeOK
  <2> QED
    BY <1>4, <2>1, <2>2 DEF LeaversHaveLeft
<1>9. DrivenIsWatched'
  <2>1. ASSUME NEW t \in Sns, Driven(t)'
        PROVE  \/ watched'[t] # "no"
               \/ \E g \in Handlers : /\ req'[g].at = "sent"
                                      /\ req'[g].sn = t
                                      /\ req'[g].code = "steer"
               \/ dog'.sn = t /\ ~ dog'.old
    <3>1. CASE t = s /\ code = "steer"
      BY <1>1, <1>4, <3>1
    <3>2. CASE t # s \/ code # "steer"
      <4>1. Driven(t)
        BY <1>1, <1>3, <2>1, <3>2 DEF Codes
      <4> QED
        BY <1>2, <1>4, <4>1 DEF SteeringInv, DrivenIsWatched
    <3> QED
      BY <3>1, <3>2
  <2> QED
    BY <2>1 DEF DrivenIsWatched
<1> QED
  BY <1>5, <1>6, <1>7, <1>8, <1>9 DEF SteeringInv

LEMMA SendsToNobodyStep ==
    ASSUME SteeringInv, NEW h \in Handlers, SendsToNobody(h)
    PROVE  SteeringInv'
<1>1. \A t \in Sns : Driven(t)' <=> Driven(t)
  BY DEF Driven, SendsToNobody
<1>2. /\ req' \in [Handlers -> Request]
      /\ \A g \in Handlers :
            \/ req'[g].at = "idle"
            \/ /\ req'[g].sn = req[g].sn
               /\ req'[g].code = req[g].code
               /\ req'[g].old = req[g].old
               /\ req'[g].at = req[g].at \/ (g = h /\ req[h].at # "idle" /\ req[h].old)
      /\ \A g \in Handlers \ {h} : req'[g] = req[g]
  <2>1. CASE req' = [req EXCEPT ![h].at = "sent"]
    <3>1. [req[h] EXCEPT !.at = "sent"] \in Request
      BY DEF SteeringInv, SteeringTypeOK, Request
    <3>2. req[h] \in Request /\ req[h].at = "sending" /\ req[h].old
      BY DEF SteeringInv, SteeringTypeOK, SendsToNobody
    <3>3. req' = [req EXCEPT ![h] = [req[h] EXCEPT !.at = "sent"]]
      BY <2>1
    <3> QED
      BY <3>1, <3>2, <3>3 DEF SteeringInv, SteeringTypeOK, Request
  <2>2. CASE req' = [req EXCEPT ![h] = NoRequest]
    BY <2>2, NoRequestType DEF SteeringInv, SteeringTypeOK
  <2> QED
    BY <2>1, <2>2 DEF SendsToNobody
<1>3. req[h].at = "sending" /\ UNCHANGED <<link, queue, mode, watched, dog>>
  BY DEF SendsToNobody
<1>4. SteeringTypeOK'
  BY <1>2, <1>3 DEF SteeringInv, SteeringTypeOK
<1>5. DownIsFree' /\ LinkedIsUp' /\ WaitingHasNone'
  BY <1>2, <1>3 DEF SteeringInv, DownIsFree, LinkedIsUp, WaitingHasNone
<1>6. TurnsAreTaken'
  BY <1>2 DEF SteeringInv, TurnsAreTaken
<1>7. LeaversHaveLeft'
  BY <1>1, <1>2 DEF SteeringInv, SteeringTypeOK, LeaversHaveLeft
<1>8. DrivenIsWatched'
  BY <1>1, <1>2, <1>3 DEF SteeringInv, DrivenIsWatched
<1> QED
  BY <1>4, <1>5, <1>6, <1>7, <1>8 DEF SteeringInv

LEMMA NotesStep ==
    ASSUME SteeringInv, NEW h \in Handlers, Notes(h)
    PROVE  SteeringInv'
<1> DEFINE s == req[h].sn
           code == req[h].code
<1>1. s \in Sns /\ code \in Codes /\ req[h].at = "sent"
  BY DEF SteeringInv, SteeringTypeOK, Notes, Request
<1>2. \A t \in Sns : Driven(t)' <=> Driven(t)
  BY DEF Driven, Notes
<1>3. /\ watched' \in [Sns -> {"no", "fresh", "stale"}]
      /\ watched'[s] = Noted(watched[s], code)
      /\ \A t \in Sns \ {s} : watched'[t] = watched[t]
  BY <1>1 DEF SteeringInv, SteeringTypeOK, Notes, Noted
<1>4. /\ req' \in [Handlers -> Request]
      /\ req'[h].at = "idle"
      /\ \A g \in Handlers \ {h} : req'[g] = req[g]
  BY NoRequestType DEF SteeringInv, SteeringTypeOK, Notes
<1>5. UNCHANGED <<link, queue, mode, dog>>
  BY DEF Notes
<1>6. SteeringTypeOK'
  BY <1>3, <1>4, <1>5 DEF SteeringInv, SteeringTypeOK
<1>7. DownIsFree' /\ LinkedIsUp' /\ WaitingHasNone'
  BY <1>4, <1>5 DEF SteeringInv, DownIsFree, LinkedIsUp, WaitingHasNone
<1>8. TurnsAreTaken'
  BY <1>4 DEF SteeringInv, TurnsAreTaken
<1>9. LeaversHaveLeft'
  BY <1>2, <1>4 DEF SteeringInv, SteeringTypeOK, LeaversHaveLeft
<1>10. DrivenIsWatched'
  <2>1. ASSUME NEW t \in Sns, Driven(t)
        PROVE  \/ watched'[t] # "no"
               \/ \E g \in Handlers : /\ req'[g].at = "sent"
                                      /\ req'[g].sn = t
                                      /\ req'[g].code = "steer"
               \/ dog'.sn = t /\ ~ dog'.old
    <3>1. CASE t # s
      BY <1>3, <1>4, <1>5, <2>1, <3>1 DEF SteeringInv, DrivenIsWatched
    <3>2. CASE t = s /\ code = "steer"
      BY <1>3, <3>2 DEF Noted
    <3>3. CASE t = s /\ code = "leave"
      BY <1>1, <2>1, <3>3 DEF SteeringInv, LeaversHaveLeft
    <3>4. CASE t = s /\ code = "other"
      <4>1. watched'[s] = watched[s]
        BY <1>3, <3>4 DEF Noted
      <4> QED
        BY <1>4, <1>5, <2>1, <3>4, <4>1 DEF SteeringInv, DrivenIsWatched
    <3> QED
      BY <1>1, <3>1, <3>2, <3>3, <3>4 DEF Codes
  <2> QED
    BY <1>2, <2>1 DEF DrivenIsWatched
<1> QED
  BY <1>6, <1>7, <1>8, <1>9, <1>10 DEF SteeringInv

LEMMA GrowsStaleStep ==
    ASSUME SteeringInv, NEW s \in Sns, GrowsStale(s)
    PROVE  SteeringInv'
<1>1. SteeringTypeOK'
  BY DEF SteeringInv, SteeringTypeOK, GrowsStale
<1>2. DownIsFree' /\ LinkedIsUp' /\ WaitingHasNone' /\ TurnsAreTaken'
  BY DEF SteeringInv, DownIsFree, LinkedIsUp, WaitingHasNone, TurnsAreTaken, GrowsStale
<1>3. LeaversHaveLeft'
  BY DEF SteeringInv, LeaversHaveLeft, Driven, GrowsStale
<1>4. DrivenIsWatched'
  BY DEF SteeringInv, SteeringTypeOK, DrivenIsWatched, Driven, GrowsStale
<1> QED
  BY <1>1, <1>2, <1>3, <1>4 DEF SteeringInv

LEMMA ListsStep ==
    ASSUME SteeringInv, Lists
    PROVE  SteeringInv'
<1>1. /\ dog' \in Pass
      /\ dog'.at = "listed"
      /\ dog'.sn = dog.sn
      /\ dog'.old = dog.old
  BY DEF SteeringInv, SteeringTypeOK, Lists, Pass, StaleOnes
<1>2. SteeringTypeOK'
  BY <1>1 DEF SteeringInv, SteeringTypeOK, Lists
<1>3. DownIsFree' /\ LinkedIsUp' /\ WaitingHasNone' /\ TurnsAreTaken'
  BY <1>1 DEF SteeringInv, DownIsFree, LinkedIsUp, WaitingHasNone, TurnsAreTaken, Lists
<1>4. LeaversHaveLeft'
  BY DEF SteeringInv, LeaversHaveLeft, Driven, Lists
<1>5. DrivenIsWatched'
  BY <1>1 DEF SteeringInv, DrivenIsWatched, Driven, Lists
<1> QED
  BY <1>2, <1>3, <1>4, <1>5 DEF SteeringInv

LEMMA ForgetsStep ==
    ASSUME SteeringInv, NEW s \in Sns, Forgets(s)
    PROVE  SteeringInv'
<1>1. dog' \in Pass /\ dog'.at = "looking" /\ dog'.sn = s /\ ~ dog'.old
  BY DEF SteeringInv, SteeringTypeOK, Forgets, Pass
<1>2. dog.at = "listed" /\ \A t \in Sns \ {s} : watched'[t] = watched[t]
  BY DEF SteeringInv, SteeringTypeOK, Forgets
<1>3. SteeringTypeOK'
  BY <1>1 DEF SteeringInv, SteeringTypeOK, Forgets
<1>4. DownIsFree' /\ LinkedIsUp' /\ WaitingHasNone' /\ TurnsAreTaken'
  BY <1>1 DEF SteeringInv, DownIsFree, LinkedIsUp, WaitingHasNone, TurnsAreTaken, Forgets
<1>5. LeaversHaveLeft'
  BY DEF SteeringInv, LeaversHaveLeft, Driven, Forgets
<1>6. DrivenIsWatched'
  <2>1. \A t \in Sns \ {s} : dog.sn # t \/ dog.old
    BY <1>2, SteeringAssumption DEF SteeringInv, WaitingHasNone, Forgets
  <2>2. \A t \in Sns : Driven(t)' <=> Driven(t)
    BY DEF Driven, Forgets
  <2> QED
    BY <1>1, <1>2, <2>1, <2>2 DEF SteeringInv, DrivenIsWatched, Forgets
<1> QED
  BY <1>3, <1>4, <1>5, <1>6 DEF SteeringInv

LEMMA LooksStep ==
    ASSUME SteeringInv, Looks
    PROVE  SteeringInv'
<1>1. dog.sn \in Sns /\ NextOne(dog) \in Pass /\ NextOne(dog).at \in {"idle", "listed"}
  BY NextOneType DEF SteeringInv, SteeringTypeOK, Looks
<1>2. \A t \in Sns : Driven(t)' <=> Driven(t)
  BY DEF Driven, Looks
<1>3. CASE link[dog.sn] = "up"
  <2>1. /\ dog' \in Pass
        /\ dog'.at = "sending"
        /\ dog'.sn = dog.sn
        /\ dog'.old = dog.old
    BY <1>3 DEF SteeringInv, SteeringTypeOK, Looks, Pass
  <2>2. SteeringTypeOK'
    BY <1>1, <2>1 DEF SteeringInv, SteeringTypeOK, Looks
  <2>3. DownIsFree' /\ LinkedIsUp' /\ WaitingHasNone' /\ TurnsAreTaken'
    BY <1>3, <2>1 DEF SteeringInv, DownIsFree, LinkedIsUp, WaitingHasNone, TurnsAreTaken, Looks
  <2>4. LeaversHaveLeft'
    BY <1>2 DEF SteeringInv, SteeringTypeOK, LeaversHaveLeft, Looks
  <2>5. DrivenIsWatched'
    BY <1>2, <2>1 DEF SteeringInv, DrivenIsWatched, Looks
  <2> QED
    BY <2>2, <2>3, <2>4, <2>5 DEF SteeringInv
<1>4. CASE link[dog.sn] # "up"
  <2>1. dog' = NextOne(dog) /\ UNCHANGED <<link, queue, mode, watched, req>>
    BY <1>4 DEF Looks
  <2>2. SteeringTypeOK'
    BY <1>1, <2>1 DEF SteeringInv, SteeringTypeOK
  <2>3. DownIsFree' /\ LinkedIsUp' /\ WaitingHasNone' /\ TurnsAreTaken'
    BY <1>1, <2>1 DEF SteeringInv, DownIsFree, LinkedIsUp, WaitingHasNone, TurnsAreTaken, NextOne
  <2>4. LeaversHaveLeft'
    BY <1>2, <2>1 DEF SteeringInv, SteeringTypeOK, LeaversHaveLeft
  <2>5. ~ Driven(dog.sn)
    <3>1. link[dog.sn] = "down"
      BY <1>1, <1>4 DEF SteeringInv, SteeringTypeOK
    <3> QED
      BY <1>1, <3>1, EmptyIsNotDriven DEF SteeringInv, DownIsFree
  <2>6. DrivenIsWatched'
    BY <1>2, <2>1, <2>5 DEF SteeringInv, DrivenIsWatched
  <2> QED
    BY <2>2, <2>3, <2>4, <2>6 DEF SteeringInv
<1> QED
  BY <1>3, <1>4

LEMMA StopsStep ==
    ASSUME SteeringInv, Stops
    PROVE  SteeringInv'
<1> DEFINE s == dog.sn
<1>1. s \in Sns /\ NextOne(dog) \in Pass /\ NextOne(dog).at \in {"idle", "listed"}
  BY NextOneType DEF SteeringInv, SteeringTypeOK, Stops
<1>2. dog' = NextOne(dog) /\ UNCHANGED <<link, mode, watched, req>> /\ dog.at = "sending"
  BY DEF Stops
<1>3. /\ queue' \in [Sns -> Seq(Codes)]
      /\ \A t \in Sns : Len(queue'[t]) <= Room
      /\ \A t \in Sns : Driven(t)' => Driven(t) /\ (t = s => dog.old)
      /\ \A t \in Sns : link[t] = "down" => queue'[t] = queue[t]
  <2>1. CASE dog.old
    <3>1. UNCHANGED <<queue, mode>>
      BY <1>2, <2>1 DEF Stops
    <3> QED
      BY <2>1, <3>1 DEF SteeringInv, SteeringTypeOK, Driven
  <2>2. CASE ~ dog.old
    <3>1. Queued(s, "leave") /\ mode' = mode /\ "leave" \in Codes
      BY <1>2, <2>2 DEF Stops, Codes
    <3>2. link[s] = "up"
      BY <1>2, <2>2 DEF SteeringInv, LinkedIsUp
    <3> QED
      BY <1>1, <3>1, <3>2, QueuedDriven DEF SteeringInv
  <2> QED
    BY <2>1, <2>2 DEF SteeringInv, SteeringTypeOK, Pass
<1>4. SteeringTypeOK'
  BY <1>1, <1>2, <1>3 DEF SteeringInv, SteeringTypeOK
<1>5. DownIsFree' /\ LinkedIsUp' /\ WaitingHasNone' /\ TurnsAreTaken'
  BY <1>1, <1>2, <1>3 DEF SteeringInv, DownIsFree, LinkedIsUp, WaitingHasNone, TurnsAreTaken,
         NextOne
<1>6. LeaversHaveLeft'
  BY <1>2, <1>3 DEF SteeringInv, SteeringTypeOK, LeaversHaveLeft
<1>7. DrivenIsWatched'
  BY <1>2, <1>3 DEF SteeringInv, DrivenIsWatched
<1> QED
  BY <1>4, <1>5, <1>6, <1>7 DEF SteeringInv

LEMMA NextSteering ==
    ASSUME ~ Overlapping
    PROVE  SteeringInv /\ [Next]_vars => SteeringInv'
<1> SUFFICES ASSUME SteeringInv, [Next]_vars
             PROVE  SteeringInv'
  OBVIOUS
<1>1. CASE UNCHANGED vars
  <2>1. SteeringTypeOK' /\ DownIsFree' /\ LinkedIsUp' /\ WaitingHasNone' /\ TurnsAreTaken'
    BY <1>1 DEF vars, SteeringInv, SteeringTypeOK, DownIsFree, LinkedIsUp, WaitingHasNone,
           TurnsAreTaken
  <2>2. LeaversHaveLeft' /\ DrivenIsWatched'
    BY <1>1 DEF vars, SteeringInv, LeaversHaveLeft, DrivenIsWatched, Driven
  <2> QED
    BY <2>1, <2>2 DEF SteeringInv
<1>2. ASSUME NEW s \in Sns, Robot(s) \/ GrowsStale(s)
      PROVE  SteeringInv'
  BY <1>2, DialsInStep, HangsUpStep, ReceivesStep, GrowsStaleStep DEF Robot
<1>3. ASSUME NEW h \in Handlers, Handler(h)
      PROVE  SteeringInv'
  BY <1>3, AsksStep, SendsStep, SendsToNobodyStep, NotesStep DEF Handler
<1>4. CASE Watchdog
  BY <1>4, ListsStep, ForgetsStep, LooksStep, StopsStep DEF Watchdog
<1> QED
  BY <1>1, <1>2, <1>3, <1>4 DEF Next

-----------------------------------------------------------------------------
(* The theorems *)

\* The invariant of the control endpoint and its watchdog, for clients that
\* take turns (control, poll_control_watchdog_once).
THEOREM SteeringInvariance ==
    ASSUME ~ Overlapping
    PROVE  Spec => []SteeringInv
  BY InitSteering, NextSteering, PTL DEF Spec

\* Requests and the watchdog's pass have the shape the code gives them, and a
\* write queue is never over its capacity (control).
THEOREM SteeringTypeCorrect ==
    ASSUME ~ Overlapping
    PROVE  Spec => []SteeringTypeOK
<1>1. SteeringInv => SteeringTypeOK
  BY DEF SteeringInv
<1> QED
  BY SteeringInvariance, <1>1, PTL

\* A robot left driving is never forgotten (control,
\* poll_control_watchdog_once).
THEOREM DrivenIsAlwaysWatched ==
    ASSUME ~ Overlapping
    PROVE  Spec => []DrivenIsWatched
<1>1. SteeringInv => DrivenIsWatched
  BY DEF SteeringInv
<1> QED
  BY SteeringInvariance, <1>1, PTL
=============================================================================
