-------------------------- MODULE MapBackupProofs --------------------------
(***************************************************************************)
(* What holds of MapBackup for any number of robots, maps, operators and   *)
(* faults.                                                                 *)
(***************************************************************************)
EXTENDS MapBackup, SequenceTheorems, TLAPS

(* The inductive invariant *)

\* The robot keeps its record while it sends it.
UploadsAreOfCopies ==
    \A s \in Sns : upload[s] # NoUpload =>
        /\ copy[s] \in Blobs
        /\ upload[s].md5 = copy[s]
        /\ upload[s].answer = "ok" => copy[s] \in staged \cup unread \cup unstored

\* An order whose token is still in the slot carries the slot's sum.
Names(o, r) == o.token = r.token => o.md5 = r.content

OrdersNameMaps ==
    \A s \in Sns :
        /\ \A i \in DOMAIN orders[s] : Names(orders[s][i], slot[s])
        /\ Names(following[s], slot[s])
        /\ \A c \in Clients : import[c].sn = s => Names(import[c].order, slot[s])

BodiesHaveOrders == \A s \in Sns : body[s] # NoBlob => following[s] # NoOrder

\* Whose map it is, everywhere a map is kept.
MapsAreOwn ==
    /\ \A s \in Sns :
         /\ copy[s] # NoBlob => made[copy[s]] = s
         /\ slot[s] # Vacant => slot[s].content \in Blobs /\ made[slot[s].content] = s
         /\ body[s] # NoBlob => body[s] \in Blobs /\ made[body[s]] = s
    /\ \A f \in files : f.blob \in Blobs /\ made[f.blob] = f.sn

BackupInv ==
    /\ BackupTypeOK
    /\ UploadsAreOfCopies
    /\ OrdersNameMaps
    /\ BodiesHaveOrders
    /\ MapsAreOwn
    /\ ServedIsOrdered
    /\ SlotsAreIntact
    /\ RestoredIsOwn
    /\ RefusedIsKept

-----------------------------------------------------------------------------
(* The values a step writes *)

LEMMA AbsentValues ==
    /\ Vacant.token \notin Tokens
    /\ NoOrder.token \notin Tokens
    /\ Vacant.token = NoOrder.token
    /\ Vacant.content = NoOrder.md5
    /\ Vacant.content = NoBlob
    /\ NoBlob \notin Content
    /\ Vacant \notin Slot /\ NoOrder \notin Order
    /\ NoUpload \notin Upload
    /\ NoImport.sn \notin Sns
    /\ NoImport.order = NoOrder
  BY BackupAssumption DEF Vacant, NoOrder, NoUpload, NoImport, Content, Slot, Order, Upload

LEMMA NoOrderNames ==
    ASSUME BackupTypeOK, NEW s \in Sns
    PROVE  Names(NoOrder, slot[s])
  BY AbsentValues DEF BackupTypeOK, Names, Slot

LEMMA ReplacedType ==
    ASSUME NEW old, NEW content \in Content, NEW t \in Tokens
    PROVE  /\ Replaced(old, content, t) \in Slot
           /\ Replaced(old, content, t).content = content
           /\ Replaced(old, content, t).md5 = content
           /\ Replaced(old, content, t).token = t
  BY DEF Replaced, Slot, Content

\* A new token names nothing yet.
LEMMA FreshNamesNothing ==
    ASSUME BackupTypeOK, TokenLeft
    PROVE  /\ FreshToken \in Tokens
           /\ \A s \in Sns :
                /\ slot[s].token # FreshToken
                /\ following[s].token # FreshToken
                /\ \A i \in DOMAIN orders[s] : orders[s][i].token # FreshToken
           /\ \A c \in Clients : import[c].order.token # FreshToken
<1>1. FreshToken \in Tokens /\ ~ Held(FreshToken)
  BY DEF FreshToken, TokenLeft
<1> QED
  BY <1>1 DEF Held

\* Replacing a slot under a new token leaves every order of it without a map,
\* and orders of other slots as they were.
LEMMA StagingKeepsNames ==
    ASSUME BackupInv, NEW s \in Sns, NEW content \in Content, TokenLeft,
           slot' = [slot EXCEPT ![s] = Replaced(@, content, FreshToken)]
    PROVE  \A g \in Sns :
             /\ \A i \in DOMAIN orders[g] : Names(orders[g][i], slot'[g])
             /\ Names(following[g], slot'[g])
             /\ \A c \in Clients : import[c].sn = g => Names(import[c].order, slot'[g])
<1>1. FreshToken \in Tokens
  BY FreshNamesNothing DEF BackupInv
<1>2. slot'[s].token = FreshToken
  BY <1>1, ReplacedType DEF BackupInv, BackupTypeOK
<1>3. ASSUME NEW g \in Sns, g # s
      PROVE  slot'[g] = slot[g]
  BY <1>3 DEF BackupInv, BackupTypeOK
<1>4. ASSUME NEW g \in Sns
      PROVE  /\ \A i \in DOMAIN orders[g] : Names(orders[g][i], slot'[g])
             /\ Names(following[g], slot'[g])
             /\ \A c \in Clients : import[c].sn = g => Names(import[c].order, slot'[g])
  <2>1. CASE g = s
    BY <1>2, <2>1, FreshNamesNothing DEF Names, BackupInv
  <2>2. CASE g # s
    BY <1>3, <2>2 DEF BackupInv, OrdersNameMaps
  <2> QED
    BY <2>1, <2>2
<1> QED
  BY <1>4

LEMMA UploadFacts ==
    ASSUME BackupInv, NEW s \in Sns, upload[s] # NoUpload
    PROVE  /\ upload[s] \in Upload
           /\ upload[s].content # NoBlob => upload[s].content \in Content
           /\ upload[s].md5 = copy[s]
           /\ copy[s] \in Blobs
           /\ made[copy[s]] = s
  BY BackupAssumption, AbsentValues
     DEF BackupInv, BackupTypeOK, Upload, UploadsAreOfCopies, MapsAreOwn

\* Answering changes the answer only.
LEMMA AnswersType ==
    ASSUME BackupTypeOK, NEW s \in Sns, upload[s] # NoUpload,
           NEW a \in {"none", "ok", "retry"}, Answers(s, a)
    PROVE  /\ upload' \in [Sns -> Upload \cup {NoUpload}]
           /\ upload'[s].md5 = upload[s].md5
           /\ upload'[s].answer = a
           /\ \A g \in Sns \ {s} : upload'[g] = upload[g]
<1>1. upload[s] \in Upload
  BY DEF BackupTypeOK
<1>2. [upload[s] EXCEPT !.answer = a] \in Upload
  BY <1>1 DEF Upload
<1>3. upload' = [upload EXCEPT ![s] = [upload[s] EXCEPT !.answer = a]]
  BY DEF Answers
<1> QED
  BY <1>1, <1>2, <1>3 DEF BackupTypeOK, Upload

-----------------------------------------------------------------------------
(* Init and the steps *)

LEMMA InitBackup == Init => BackupInv
<1> SUFFICES ASSUME Init
             PROVE  BackupInv
  OBVIOUS
<1>1. BackupTypeOK
  BY BackupAssumption DEF Init, BackupTypeOK
<1>2. UploadsAreOfCopies /\ BodiesHaveOrders /\ MapsAreOwn
  BY DEF Init, UploadsAreOfCopies, BodiesHaveOrders, MapsAreOwn
<1>3. OrdersNameMaps
  <2>1. ASSUME NEW s \in Sns
        PROVE  Names(following[s], slot[s]) /\ DOMAIN orders[s] = {}
    <3>1. orders[s] = <<>> /\ following[s] = NoOrder /\ slot[s] = Vacant
      BY <2>1 DEF Init
    <3>2. DOMAIN <<>> = {}
      OBVIOUS
    <3> QED
      BY <3>1, <3>2, AbsentValues DEF Names
  <2>2. ASSUME NEW c \in Clients
        PROVE  import[c].sn \notin Sns
    BY <2>2, AbsentValues DEF Init
  <2> QED
    BY <2>1, <2>2 DEF OrdersNameMaps, Names
<1>4. ServedIsOrdered /\ SlotsAreIntact /\ RestoredIsOwn /\ RefusedIsKept
  BY DEF Init, ServedIsOrdered, SlotsAreIntact, RestoredIsOwn, RefusedIsKept
<1> QED
  BY <1>1, <1>2, <1>3, <1>4 DEF BackupInv

LEMMA MakesStep ==
    ASSUME BackupInv, NEW s \in Sns, NEW b \in Blobs, Makes(s, b)
    PROVE  BackupInv'
<1>1. BackupTypeOK'
  <2>1. copy' \in [Sns -> Blobs \cup {NoBlob}]
    BY BackupAssumption, AbsentValues DEF BackupInv, BackupTypeOK, Makes, Replaced, Slot,
        Order, Upload, Import, Content
  <2>2. made' \in [Blobs -> Sns \cup {NoSn}]
    BY BackupAssumption, AbsentValues DEF BackupInv, BackupTypeOK, Makes, Replaced, Slot,
        Order, Upload, Import, Content
  <2> QED
    BY <2>1, <2>2 DEF BackupInv, BackupTypeOK, Makes, vars, serverVars, robotVars,
        historyVars
<1>2. UploadsAreOfCopies'
  BY BackupAssumption, AbsentValues DEF BackupInv, UploadsAreOfCopies, BackupTypeOK,
     Makes, vars, serverVars, robotVars, historyVars
<1>3. MapsAreOwn'
  BY BackupAssumption, AbsentValues DEF BackupInv, MapsAreOwn, BackupTypeOK, Makes, vars,
     serverVars, robotVars, historyVars
<1>4. RestoredIsOwn'
  BY BackupAssumption, AbsentValues DEF BackupInv, RestoredIsOwn, BackupTypeOK, Makes,
     vars, serverVars, robotVars, historyVars
<1>5. /\ OrdersNameMaps'
      /\ BodiesHaveOrders'
      /\ ServedIsOrdered'
      /\ SlotsAreIntact'
      /\ RefusedIsKept'
  BY DEF BackupInv, Makes, vars, serverVars, robotVars, historyVars, OrdersNameMaps,
         BodiesHaveOrders, ServedIsOrdered, SlotsAreIntact, RefusedIsKept, Names
<1> QED
  BY <1>1, <1>2, <1>3, <1>4, <1>5 DEF BackupInv

LEMMA UploadsStep ==
    ASSUME BackupInv, NEW s \in Sns, Uploads(s)
    PROVE  BackupInv'
<1>1. BackupTypeOK'
  <2>1. faults' \in 0 .. MaxFaults
    BY BackupAssumption, AbsentValues DEF BackupInv, BackupTypeOK, Uploads, Fails,
        Replaced, Slot, Order, Upload, Import, Content
  <2>2. upload' \in [Sns -> Upload \cup {NoUpload}]
    BY BackupAssumption, AbsentValues DEF BackupInv, BackupTypeOK, Uploads, Fails,
        Replaced, Slot, Order, Upload, Import, Content
  <2> QED
    BY <2>1, <2>2 DEF BackupInv, BackupTypeOK, Uploads, Fails, vars, serverVars,
        robotVars, historyVars
<1>2. UploadsAreOfCopies'
  BY BackupAssumption, AbsentValues DEF BackupInv, UploadsAreOfCopies, BackupTypeOK,
     Uploads, Fails, vars, serverVars, robotVars, historyVars
<1>3. /\ OrdersNameMaps'
      /\ BodiesHaveOrders'
      /\ MapsAreOwn'
      /\ ServedIsOrdered'
      /\ SlotsAreIntact'
      /\ RestoredIsOwn'
      /\ RefusedIsKept'
  BY DEF BackupInv, Uploads, vars, serverVars, robotVars, historyVars, OrdersNameMaps,
         BodiesHaveOrders, MapsAreOwn, ServedIsOrdered, SlotsAreIntact, RestoredIsOwn,
         RefusedIsKept, Names, Fails
<1> QED
  BY <1>1, <1>2, <1>3 DEF BackupInv

LEMMA OverlooksStep ==
    ASSUME BackupInv, NEW s \in Sns, Overlooks(s)
    PROVE  BackupInv'
<1>1. /\ upload[s] # NoUpload /\ Answers(s, "ok") /\ unread' = unread \cup {copy[s]}
      /\ UNCHANGED <<serverVars, copy, following, body, map, made, staged, unstored, dropped,
                     faults>>
  BY DEF Overlooks, Arrived
<1>2. BackupTypeOK'
  <2>1. upload' \in [Sns -> Upload \cup {NoUpload}]
    BY <1>1, AnswersType DEF BackupInv
  <2>2. unread' \subseteq Blobs
    BY <1>1, UploadFacts DEF BackupInv, BackupTypeOK
  <2> QED
    BY <1>1, <2>1, <2>2 DEF BackupInv, BackupTypeOK, serverVars
<1>3. UploadsAreOfCopies'
  <2>1. ASSUME NEW g \in Sns, upload'[g] # NoUpload
        PROVE  /\ copy[g] \in Blobs
               /\ upload'[g].md5 = copy[g]
               /\ upload'[g].answer = "ok" => copy[g] \in staged \cup unread' \cup unstored
    <3>1. CASE g = s
      BY <1>1, <3>1, UploadFacts, AnswersType DEF BackupInv
    <3>2. CASE g # s
      <4>1. upload'[g] = upload[g]
        BY <1>1, <3>2, AnswersType DEF BackupInv
      <4> QED
        BY <1>1, <2>1, <4>1 DEF BackupInv, UploadsAreOfCopies
    <3> QED
      BY <3>1, <3>2
  <2> QED
    BY <1>1, <2>1 DEF UploadsAreOfCopies
<1>4. /\ OrdersNameMaps'
      /\ BodiesHaveOrders'
      /\ MapsAreOwn'
      /\ ServedIsOrdered'
      /\ SlotsAreIntact'
      /\ RestoredIsOwn'
      /\ RefusedIsKept'
  BY <1>1 DEF BackupInv, serverVars, OrdersNameMaps, BodiesHaveOrders, MapsAreOwn,
              ServedIsOrdered, SlotsAreIntact, RestoredIsOwn, RefusedIsKept, Names
<1> QED
  BY <1>2, <1>3, <1>4 DEF BackupInv

LEMMA RefusesStep ==
    ASSUME BackupInv, NEW s \in Sns, Refuses(s)
    PROVE  BackupInv'
<1>1. BackupTypeOK'
  <2>1. upload' \in [Sns -> Upload \cup {NoUpload}]
    BY AnswersType DEF BackupInv, MapArrived, Arrived, Refuses
  <2> QED
    BY <2>1 DEF BackupInv, BackupTypeOK, Refuses, MapArrived, Arrived, Answers, vars, serverVars,
        robotVars, historyVars
<1>2. UploadsAreOfCopies'
  BY BackupAssumption, AbsentValues DEF BackupInv, UploadsAreOfCopies, BackupTypeOK,
     Refuses, MapArrived, Arrived, Answers, vars, serverVars, robotVars, historyVars
<1>3. /\ OrdersNameMaps'
      /\ BodiesHaveOrders'
      /\ MapsAreOwn'
      /\ ServedIsOrdered'
      /\ SlotsAreIntact'
      /\ RestoredIsOwn'
      /\ RefusedIsKept'
  BY DEF BackupInv, Refuses, vars, serverVars, robotVars, historyVars, OrdersNameMaps,
         BodiesHaveOrders, MapsAreOwn, ServedIsOrdered, SlotsAreIntact, RestoredIsOwn,
         RefusedIsKept, Names, MapArrived, Arrived, Answers
<1> QED
  BY <1>1, <1>2, <1>3 DEF BackupInv

LEMMA StagesStep ==
    ASSUME BackupInv, NEW s \in Sns, Stages(s)
    PROVE  BackupInv'
<1>1. BackupTypeOK'
  <2>1. slot' \in [Sns -> Slot \cup {Vacant}]
    BY UploadFacts, FreshNamesNothing, ReplacedType DEF BackupInv, BackupTypeOK, MapArrived, Arrived, Stages
  <2>2. staged' \subseteq Content
    BY UploadFacts DEF BackupInv, BackupTypeOK, MapArrived, Arrived, Stages
  <2>3. upload' \in [Sns -> Upload \cup {NoUpload}]
    BY AnswersType DEF BackupInv, MapArrived, Arrived, Stages
  <2> QED
    BY <2>1, <2>2, <2>3 DEF BackupInv, BackupTypeOK, Stages,
        MapArrived, Arrived, Answers, AsDeclared, vars, serverVars, robotVars, historyVars
<1>2. UploadsAreOfCopies'
  BY BackupAssumption, AbsentValues DEF BackupInv, UploadsAreOfCopies, BackupTypeOK,
     Stages, MapArrived, Arrived, Answers, AsDeclared, vars, serverVars, robotVars, historyVars
<1>3. OrdersNameMaps'
  BY UploadFacts, StagingKeepsNames DEF OrdersNameMaps, Names, BackupInv, MapArrived, Arrived, Stages
<1>4. MapsAreOwn'
  <2>1. upload[s].content \in Blobs /\ made[upload[s].content] = s
    BY UploadFacts DEF Stages, MapArrived, Arrived, AsDeclared
  <2>2. slot' = [slot EXCEPT ![s] = Replaced(@, upload[s].content, FreshToken)]
    BY DEF Stages
  <2>3. slot'[s].content = upload[s].content
    BY <2>2, ReplacedType, FreshNamesNothing, UploadFacts
       DEF BackupInv, BackupTypeOK, Stages, MapArrived, Arrived
  <2>4. \A g \in Sns \ {s} : slot'[g] = slot[g]
    BY <2>2 DEF BackupInv, BackupTypeOK
  <2>5. UNCHANGED <<files, made, copy, body>>
    BY DEF Stages
  <2> QED
    BY <2>1, <2>3, <2>4, <2>5 DEF BackupInv, MapsAreOwn
<1>5. SlotsAreIntact'
  <2>1. upload[s].content \in Blobs
    BY UploadFacts DEF Stages, MapArrived, Arrived, AsDeclared
  <2>2. slot' = [slot EXCEPT ![s] = Replaced(@, upload[s].content, FreshToken)]
    BY DEF Stages
  <2>3. slot'[s].content = upload[s].content /\ slot'[s].md5 = upload[s].content
    BY <2>2, ReplacedType, FreshNamesNothing, UploadFacts
       DEF BackupInv, BackupTypeOK, Stages, MapArrived, Arrived
  <2>4. \A g \in Sns \ {s} : slot'[g] = slot[g]
    BY <2>2 DEF BackupInv, BackupTypeOK
  <2>5. UNCHANGED files
    BY DEF Stages
  <2> QED
    BY <2>1, <2>3, <2>4, <2>5 DEF BackupInv, SlotsAreIntact
<1>6. RefusedIsKept'
  BY BackupAssumption, AbsentValues DEF BackupInv, RefusedIsKept, BackupTypeOK,
     Stages, MapArrived, Arrived, Answers, AsDeclared, vars, serverVars, robotVars, historyVars
<1>7. BodiesHaveOrders' /\ ServedIsOrdered' /\ RestoredIsOwn'
  BY DEF BackupInv, Stages, vars, serverVars, robotVars, historyVars, BodiesHaveOrders,
         ServedIsOrdered, RestoredIsOwn, MapArrived, Arrived, Answers, AsDeclared
<1> QED
  BY <1>1, <1>2, <1>3, <1>4, <1>5, <1>6, <1>7 DEF BackupInv

LEMMA StageFailsStep ==
    ASSUME BackupInv, NEW s \in Sns, StageFails(s)
    PROVE  BackupInv'
<1>1. BackupTypeOK'
  <2>1. faults' \in 0 .. MaxFaults
    BY BackupAssumption, AbsentValues DEF BackupInv, BackupTypeOK, StageFails,
        MapArrived, Arrived, Answers, AsDeclared, Fails, Replaced, Slot, Order, Upload, Import,
        Content
  <2>2. unstored' \subseteq Blobs
    BY UploadFacts DEF BackupInv, BackupTypeOK, UploadsAreOfCopies, MapArrived, Arrived, StageFails, AsDeclared
  <2>3. upload' \in [Sns -> Upload \cup {NoUpload}]
    BY AnswersType DEF BackupInv, MapArrived, Arrived, StageFails
  <2> QED
    BY <2>1, <2>2, <2>3 DEF BackupInv, BackupTypeOK, StageFails,
        MapArrived, Arrived, Answers, AsDeclared, Fails, vars, serverVars, robotVars, historyVars
<1>2. UploadsAreOfCopies'
  BY BackupAssumption, AbsentValues DEF BackupInv, UploadsAreOfCopies, BackupTypeOK,
     StageFails, MapArrived, Arrived, Answers, AsDeclared, Fails, vars, serverVars, robotVars,
     historyVars
<1>3. RefusedIsKept'
  BY BackupAssumption, AbsentValues DEF BackupInv, RefusedIsKept, BackupTypeOK,
     StageFails, MapArrived, Arrived, Answers, AsDeclared, Fails, vars, serverVars, robotVars,
     historyVars
<1>4. /\ OrdersNameMaps'
      /\ BodiesHaveOrders'
      /\ MapsAreOwn'
      /\ ServedIsOrdered'
      /\ SlotsAreIntact'
      /\ RestoredIsOwn'
  BY DEF BackupInv, StageFails, vars, serverVars, robotVars, historyVars, OrdersNameMaps,
         BodiesHaveOrders, MapsAreOwn, ServedIsOrdered, SlotsAreIntact, RestoredIsOwn,
         Names, MapArrived, Arrived, Answers, AsDeclared, Fails
<1> QED
  BY <1>1, <1>2, <1>3, <1>4 DEF BackupInv

LEMMA HearsAnswerStep ==
    ASSUME BackupInv, NEW s \in Sns, HearsAnswer(s)
    PROVE  BackupInv'
<1>1. BackupTypeOK'
  <2>1. copy' \in [Sns -> Blobs \cup {NoBlob}]
    BY BackupAssumption, AbsentValues DEF BackupInv, BackupTypeOK, HearsAnswer, Replaced,
        Slot, Order, Upload, Import, Content
  <2>2. dropped' \subseteq Blobs
    BY UploadFacts DEF BackupInv, BackupTypeOK, HearsAnswer
  <2>3. upload' \in [Sns -> Upload \cup {NoUpload}]
    BY BackupAssumption, AbsentValues DEF BackupInv, BackupTypeOK, HearsAnswer, Replaced,
        Slot, Order, Upload, Import, Content
  <2> QED
    BY <2>1, <2>2, <2>3 DEF BackupInv, BackupTypeOK, HearsAnswer, vars, serverVars,
        robotVars, historyVars
<1>2. UploadsAreOfCopies'
  BY BackupAssumption, AbsentValues DEF BackupInv, UploadsAreOfCopies, BackupTypeOK,
     HearsAnswer, vars, serverVars, robotVars, historyVars
<1>3. MapsAreOwn'
  <2>1. \A g \in Sns : copy'[g] # NoBlob => copy'[g] = copy[g]
    BY DEF BackupInv, BackupTypeOK, HearsAnswer
  <2>2. UNCHANGED <<slot, files, made, body>>
    BY DEF HearsAnswer, serverVars
  <2> QED
    BY <2>1, <2>2 DEF BackupInv, MapsAreOwn
<1>4. RefusedIsKept'
  <2>1. dropped' \in {dropped, dropped \cup {copy[s]}} /\ UNCHANGED <<staged, unread, unstored>>
    BY DEF HearsAnswer
  <2>2. upload[s].answer = "ok" => copy[s] \in staged \cup unread \cup unstored
    BY DEF BackupInv, UploadsAreOfCopies, HearsAnswer
  <2>3. upload[s].answer # "ok" => dropped' = dropped
    BY DEF HearsAnswer
  <2> QED
    BY <2>1, <2>2, <2>3 DEF BackupInv, RefusedIsKept
<1>5. /\ OrdersNameMaps'
      /\ BodiesHaveOrders'
      /\ ServedIsOrdered'
      /\ SlotsAreIntact'
      /\ RestoredIsOwn'
  BY DEF BackupInv, HearsAnswer, vars, serverVars, robotVars, historyVars, OrdersNameMaps,
         BodiesHaveOrders, ServedIsOrdered, SlotsAreIntact, RestoredIsOwn, Names
<1> QED
  BY <1>1, <1>2, <1>3, <1>4, <1>5 DEF BackupInv

LEMMA AnswerIsLostStep ==
    ASSUME BackupInv, NEW s \in Sns, AnswerIsLost(s)
    PROVE  BackupInv'
<1>1. BackupTypeOK'
  <2>1. faults' \in 0 .. MaxFaults
    BY BackupAssumption, AbsentValues DEF BackupInv, BackupTypeOK, AnswerIsLost, Fails,
        Replaced, Slot, Order, Upload, Import, Content
  <2>2. upload' \in [Sns -> Upload \cup {NoUpload}]
    BY BackupAssumption, AbsentValues DEF BackupInv, BackupTypeOK, AnswerIsLost, Fails,
        Replaced, Slot, Order, Upload, Import, Content
  <2> QED
    BY <2>1, <2>2 DEF BackupInv, BackupTypeOK, AnswerIsLost, Fails, vars, serverVars,
        robotVars, historyVars
<1>2. UploadsAreOfCopies'
  BY BackupAssumption, AbsentValues DEF BackupInv, UploadsAreOfCopies, BackupTypeOK,
     AnswerIsLost, Fails, vars, serverVars, robotVars, historyVars
<1>3. /\ OrdersNameMaps'
      /\ BodiesHaveOrders'
      /\ MapsAreOwn'
      /\ ServedIsOrdered'
      /\ SlotsAreIntact'
      /\ RestoredIsOwn'
      /\ RefusedIsKept'
  BY DEF BackupInv, AnswerIsLost, vars, serverVars, robotVars, historyVars, OrdersNameMaps,
         BodiesHaveOrders, MapsAreOwn, ServedIsOrdered, SlotsAreIntact, RestoredIsOwn,
         RefusedIsKept, Names, Fails
<1> QED
  BY <1>1, <1>2, <1>3 DEF BackupInv

LEMMA ExportsStep ==
    ASSUME BackupInv, NEW s \in Sns, Exports(s)
    PROVE  BackupInv'
<1>1. BackupTypeOK'
  <2>1. files' \subseteq [sn : Sns, blob : Content]
    BY BackupAssumption, AbsentValues DEF BackupInv, BackupTypeOK, Exports, Replaced,
        Slot, Order, Upload, Import, Content
  <2> QED
    BY <2>1 DEF BackupInv, BackupTypeOK, Exports, vars, serverVars, robotVars, historyVars
<1>2. MapsAreOwn'
  BY BackupAssumption, AbsentValues DEF BackupInv, MapsAreOwn, BackupTypeOK, Exports,
     vars, serverVars, robotVars, historyVars
<1>3. SlotsAreIntact'
  BY BackupAssumption, AbsentValues DEF BackupInv, SlotsAreIntact, BackupTypeOK, Exports,
     vars, serverVars, robotVars, historyVars
<1>4. /\ UploadsAreOfCopies'
      /\ OrdersNameMaps'
      /\ BodiesHaveOrders'
      /\ ServedIsOrdered'
      /\ RestoredIsOwn'
      /\ RefusedIsKept'
  BY DEF BackupInv, Exports, vars, serverVars, robotVars, historyVars, UploadsAreOfCopies,
         OrdersNameMaps, BodiesHaveOrders, ServedIsOrdered, RestoredIsOwn,
         RefusedIsKept, Names
<1> QED
  BY <1>1, <1>2, <1>3, <1>4 DEF BackupInv

LEMMA StagesImportStep ==
    ASSUME BackupInv, NEW c \in Clients, NEW s \in Sns, StagesImport(c, s)
    PROVE  BackupInv'
<1>1. BackupTypeOK'
  <2>1. import' \in [Clients -> Import \cup {NoImport}]
    <3>1. PICK content \in Content :
            import' = [import EXCEPT ![c] = [sn |-> s, order |-> [token |-> FreshToken,
                                                                 md5 |-> content]]]
      BY DEF StagesImport
    <3>2. [sn |-> s, order |-> [token |-> FreshToken, md5 |-> content]] \in Import
      BY FreshNamesNothing DEF BackupInv, StagesImport, Import, Order
    <3> QED
      BY <3>1, <3>2 DEF BackupInv, BackupTypeOK
  <2>2. slot' \in [Sns -> Slot \cup {Vacant}]
    BY FreshNamesNothing, ReplacedType DEF BackupInv, BackupTypeOK, StagesImport, Decodes
  <2>3. staged' \subseteq Content
    BY BackupAssumption, AbsentValues DEF BackupInv, BackupTypeOK, StagesImport,
        Replaced, Slot, Order, Upload, Import, Content
  <2> QED
    BY <2>1, <2>2, <2>3 DEF BackupInv, BackupTypeOK, StagesImport, vars, serverVars,
        robotVars, historyVars
<1>2. UploadsAreOfCopies'
  BY BackupAssumption, AbsentValues DEF BackupInv, UploadsAreOfCopies, BackupTypeOK,
     StagesImport, vars, serverVars, robotVars, historyVars
<1>3. OrdersNameMaps'
  <2>1. PICK f \in files, content \in Content :
          /\ content = f.blob /\ f.sn = s
          /\ slot' = [slot EXCEPT ![s] = Replaced(@, content, FreshToken)]
          /\ import' = [import EXCEPT ![c] = [sn |-> s, order |-> [token |-> FreshToken,
                                                                 md5 |-> content]]]
    BY DEF StagesImport, Decodes
  <2>2. UNCHANGED <<orders, following>> /\ TokenLeft
    BY DEF StagesImport, robotVars
  <2>3. \A g \in Sns :
           /\ \A i \in DOMAIN orders[g] : Names(orders[g][i], slot'[g])
           /\ Names(following[g], slot'[g])
           /\ \A e \in Clients : import[e].sn = g => Names(import[e].order, slot'[g])
    BY <2>1, <2>2, StagingKeepsNames
  <2>4. slot'[s].content = content
    BY <2>1, <2>2, ReplacedType, FreshNamesNothing DEF BackupInv, BackupTypeOK
  <2>5. Names(import'[c].order, slot'[s]) /\ import'[c].sn = s
    BY <2>1, <2>4 DEF BackupInv, BackupTypeOK, Names
  <2>6. \A e \in Clients \ {c} : import'[e] = import[e]
    BY <2>1 DEF BackupInv, BackupTypeOK
  <2> QED
    BY <2>2, <2>3, <2>5, <2>6 DEF OrdersNameMaps, Names
<1>4. MapsAreOwn'
  <2>1. PICK f \in files, content \in Content :
          /\ content = f.blob /\ f.sn = s
          /\ slot' = [slot EXCEPT ![s] = Replaced(@, content, FreshToken)]
          /\ import' = [import EXCEPT ![c] = [sn |-> s, order |-> [token |-> FreshToken,
                                                                 md5 |-> content]]]
    BY DEF StagesImport, Decodes
  <2>2. UNCHANGED <<files, made, copy, body>> /\ TokenLeft
    BY DEF StagesImport, robotVars
  <2>3. slot'[s].content = f.blob
    BY <2>1, <2>2, ReplacedType, FreshNamesNothing DEF BackupInv, BackupTypeOK
  <2>4. \A g \in Sns \ {s} : slot'[g] = slot[g]
    BY <2>1 DEF BackupInv, BackupTypeOK
  <2> QED
    BY <2>1, <2>2, <2>3, <2>4 DEF BackupInv, MapsAreOwn
<1>5. SlotsAreIntact'
  <2>1. PICK f \in files, content \in Content :
          /\ content = f.blob /\ f.sn = s
          /\ slot' = [slot EXCEPT ![s] = Replaced(@, content, FreshToken)]
          /\ import' = [import EXCEPT ![c] = [sn |-> s, order |-> [token |-> FreshToken,
                                                                 md5 |-> content]]]
    BY DEF StagesImport, Decodes
  <2>2. UNCHANGED files /\ TokenLeft
    BY DEF StagesImport
  <2>3. slot'[s].content = f.blob /\ slot'[s].md5 = f.blob
    BY <2>1, <2>2, ReplacedType, FreshNamesNothing DEF BackupInv, BackupTypeOK
  <2>4. \A g \in Sns \ {s} : slot'[g] = slot[g]
    BY <2>1 DEF BackupInv, BackupTypeOK
  <2> QED
    BY <2>1, <2>2, <2>3, <2>4 DEF BackupInv, SlotsAreIntact
<1>6. RefusedIsKept'
  BY BackupAssumption, AbsentValues DEF BackupInv, RefusedIsKept, BackupTypeOK,
     StagesImport, vars, serverVars, robotVars, historyVars
<1>7. BodiesHaveOrders' /\ ServedIsOrdered' /\ RestoredIsOwn'
  BY DEF BackupInv, StagesImport, vars, serverVars, robotVars, historyVars,
         BodiesHaveOrders, ServedIsOrdered, RestoredIsOwn
<1> QED
  BY <1>1, <1>2, <1>3, <1>4, <1>5, <1>6, <1>7 DEF BackupInv

LEMMA QueuesRestoreStep ==
    ASSUME BackupInv, NEW c \in Clients, QueuesRestore(c)
    PROVE  BackupInv'
<1>1. BackupTypeOK'
  <2>1. import' \in [Clients -> Import \cup {NoImport}]
    BY BackupAssumption, AbsentValues DEF BackupInv, BackupTypeOK, QueuesRestore,
        Replaced, Slot, Order, Upload, Import, Content
  <2>2. orders' \in [Sns -> Seq(Order)]
    <3>1. import[c].sn \in Sns /\ import[c].order \in Order
      BY DEF BackupInv, BackupTypeOK, QueuesRestore, Import
    <3>2. Append(orders[import[c].sn], import[c].order) \in Seq(Order)
      BY <3>1 DEF BackupInv, BackupTypeOK
    <3> QED
      BY <3>1, <3>2 DEF BackupInv, BackupTypeOK, QueuesRestore
  <2> QED
    BY <2>1, <2>2 DEF BackupInv, BackupTypeOK, QueuesRestore, vars, serverVars,
        robotVars, historyVars
<1>2. OrdersNameMaps'
  BY BackupAssumption, AbsentValues DEF BackupInv, OrdersNameMaps, BackupTypeOK,
     QueuesRestore, vars, serverVars, robotVars, historyVars
<1>3. /\ UploadsAreOfCopies'
      /\ BodiesHaveOrders'
      /\ MapsAreOwn'
      /\ ServedIsOrdered'
      /\ SlotsAreIntact'
      /\ RestoredIsOwn'
      /\ RefusedIsKept'
  BY DEF BackupInv, QueuesRestore, vars, serverVars, robotVars, historyVars,
         UploadsAreOfCopies, BodiesHaveOrders, MapsAreOwn, ServedIsOrdered, SlotsAreIntact,
         RestoredIsOwn, RefusedIsKept
<1> QED
  BY <1>1, <1>2, <1>3 DEF BackupInv

LEMMA QueueFailsStep ==
    ASSUME BackupInv, NEW c \in Clients, QueueFails(c)
    PROVE  BackupInv'
<1>1. BackupTypeOK'
  <2>1. faults' \in 0 .. MaxFaults
    BY BackupAssumption, AbsentValues DEF BackupInv, BackupTypeOK, QueueFails, Fails,
        Replaced, Slot, Order, Upload, Import, Content
  <2>2. import' \in [Clients -> Import \cup {NoImport}]
    BY BackupAssumption, AbsentValues DEF BackupInv, BackupTypeOK, QueueFails, Fails,
        Replaced, Slot, Order, Upload, Import, Content
  <2> QED
    BY <2>1, <2>2 DEF BackupInv, BackupTypeOK, QueueFails, Fails, vars, serverVars,
        robotVars, historyVars
<1>2. OrdersNameMaps'
  BY BackupAssumption, AbsentValues DEF BackupInv, OrdersNameMaps, BackupTypeOK,
     QueueFails, Fails, vars, serverVars, robotVars, historyVars
<1>3. /\ UploadsAreOfCopies'
      /\ BodiesHaveOrders'
      /\ MapsAreOwn'
      /\ ServedIsOrdered'
      /\ SlotsAreIntact'
      /\ RestoredIsOwn'
      /\ RefusedIsKept'
  BY DEF BackupInv, QueueFails, vars, serverVars, robotVars, historyVars,
         UploadsAreOfCopies, BodiesHaveOrders, MapsAreOwn, ServedIsOrdered, SlotsAreIntact,
         RestoredIsOwn, RefusedIsKept, Fails
<1> QED
  BY <1>1, <1>2, <1>3 DEF BackupInv

LEMMA DeliversStep ==
    ASSUME BackupInv, NEW s \in Sns, Delivers(s)
    PROVE  BackupInv'
<1>1. BackupTypeOK'
  <2>1. faults' \in 0 .. MaxFaults
    BY BackupAssumption, AbsentValues DEF BackupInv, BackupTypeOK, Delivers, Fails,
        Replaced, Slot, Order, Upload, Import, Content
  <2>2. following' \in [Sns -> Order \cup {NoOrder}]
    <3>1. Head(orders[s]) \in Order
      BY DEF BackupInv, BackupTypeOK, Delivers
    <3> QED
      BY <3>1 DEF BackupInv, BackupTypeOK, Delivers
  <2>3. orders' \in [Sns -> Seq(Order)]
    <3>1. Tail(orders[s]) \in Seq(Order)
      BY DEF BackupInv, BackupTypeOK, Delivers
    <3> QED
      BY <3>1 DEF BackupInv, BackupTypeOK, Delivers
  <2> QED
    BY <2>1, <2>2, <2>3 DEF BackupInv, BackupTypeOK, Delivers, Fails, vars, serverVars,
        robotVars, historyVars
<1>2. OrdersNameMaps'
  BY BackupAssumption, AbsentValues DEF BackupInv, OrdersNameMaps, BackupTypeOK,
     Delivers, Fails, vars, serverVars, robotVars, historyVars
<1>3. BodiesHaveOrders'
  BY BackupAssumption, AbsentValues DEF BackupInv, BodiesHaveOrders, BackupTypeOK,
     Delivers, Fails, vars, serverVars, robotVars, historyVars
<1>4. ServedIsOrdered'
  BY BackupAssumption, AbsentValues DEF BackupInv, ServedIsOrdered, BackupTypeOK,
     Delivers, Fails, vars, serverVars, robotVars, historyVars
<1>5. /\ UploadsAreOfCopies'
      /\ MapsAreOwn'
      /\ SlotsAreIntact'
      /\ RestoredIsOwn'
      /\ RefusedIsKept'
  BY DEF BackupInv, Delivers, vars, serverVars, robotVars, historyVars, UploadsAreOfCopies,
         MapsAreOwn, SlotsAreIntact, RestoredIsOwn, RefusedIsKept, Fails
<1> QED
  BY <1>1, <1>2, <1>3, <1>4, <1>5 DEF BackupInv

LEMMA ServesStep ==
    ASSUME BackupInv, NEW s \in Sns, Serves(s)
    PROVE  BackupInv'
<1>1. BackupTypeOK'
  <2>1. body' \in [Sns -> Content \cup {NoBlob}]
    BY BackupAssumption, AbsentValues DEF BackupInv, BackupTypeOK, Serves, Fetched,
        Replaced, Slot, Order, Upload, Import, Content
  <2> QED
    BY <2>1 DEF BackupInv, BackupTypeOK, Serves, Fetched, vars, serverVars, robotVars,
        historyVars
<1>2. BodiesHaveOrders'
  BY BackupAssumption, AbsentValues DEF BackupInv, BodiesHaveOrders, BackupTypeOK,
     Serves, Fetched, vars, serverVars, robotVars, historyVars
<1>3. MapsAreOwn'
  BY BackupAssumption, AbsentValues DEF BackupInv, MapsAreOwn, BackupTypeOK, Serves,
     Fetched, vars, serverVars, robotVars, historyVars
<1>4. ServedIsOrdered'
  <2>1. slot[s].token = following[s].token /\ body' = [body EXCEPT ![s] = slot[s].content]
    BY DEF Serves, Fetched
  <2>2. slot[s].content = following[s].md5
    BY <2>1 DEF BackupInv, OrdersNameMaps, Names
  <2>3. UNCHANGED following
    BY DEF Serves
  <2> QED
    BY <2>1, <2>2, <2>3 DEF BackupInv, BackupTypeOK, ServedIsOrdered
<1>5. /\ UploadsAreOfCopies'
      /\ OrdersNameMaps'
      /\ SlotsAreIntact'
      /\ RestoredIsOwn'
      /\ RefusedIsKept'
  BY DEF BackupInv, Serves, vars, serverVars, robotVars, historyVars, UploadsAreOfCopies,
         OrdersNameMaps, SlotsAreIntact, RestoredIsOwn, RefusedIsKept, Names, Fetched
<1> QED
  BY <1>1, <1>2, <1>3, <1>4, <1>5 DEF BackupInv

LEMMA NotFoundStep ==
    ASSUME BackupInv, NEW s \in Sns, NotFound(s)
    PROVE  BackupInv'
<1>1. BackupTypeOK'
  <2>1. following' \in [Sns -> Order \cup {NoOrder}]
    BY BackupAssumption, AbsentValues DEF BackupInv, BackupTypeOK, NotFound, Fetched,
        Replaced, Slot, Order, Upload, Import, Content
  <2> QED
    BY <2>1 DEF BackupInv, BackupTypeOK, NotFound, Fetched, vars, serverVars, robotVars,
        historyVars
<1>2. OrdersNameMaps'
  <2>1. following' = [following EXCEPT ![s] = NoOrder] /\ UNCHANGED serverVars
    BY DEF NotFound
  <2> QED
    BY <2>1, NoOrderNames DEF BackupInv, BackupTypeOK, OrdersNameMaps, Names, serverVars
<1>3. BodiesHaveOrders'
  BY BackupAssumption, AbsentValues DEF BackupInv, BodiesHaveOrders, BackupTypeOK,
     NotFound, Fetched, vars, serverVars, robotVars, historyVars
<1>4. ServedIsOrdered'
  BY BackupAssumption, AbsentValues DEF BackupInv, ServedIsOrdered, BackupTypeOK,
     NotFound, Fetched, vars, serverVars, robotVars, historyVars
<1>5. /\ UploadsAreOfCopies'
      /\ MapsAreOwn'
      /\ SlotsAreIntact'
      /\ RestoredIsOwn'
      /\ RefusedIsKept'
  BY DEF BackupInv, NotFound, vars, serverVars, robotVars, historyVars, UploadsAreOfCopies,
         MapsAreOwn, SlotsAreIntact, RestoredIsOwn, RefusedIsKept, Fetched
<1> QED
  BY <1>1, <1>2, <1>3, <1>4, <1>5 DEF BackupInv

LEMMA RestoresStep ==
    ASSUME BackupInv, NEW s \in Sns, Restores(s)
    PROVE  BackupInv'
<1>1. BackupTypeOK'
  <2>1. body' \in [Sns -> Content \cup {NoBlob}]
    BY BackupAssumption, AbsentValues DEF BackupInv, BackupTypeOK, Restores, Fails,
        Replaced, Slot, Order, Upload, Import, Content
  <2>2. faults' \in 0 .. MaxFaults
    BY BackupAssumption, AbsentValues DEF BackupInv, BackupTypeOK, Restores, Fails,
        Replaced, Slot, Order, Upload, Import, Content
  <2>3. following' \in [Sns -> Order \cup {NoOrder}]
    BY BackupAssumption, AbsentValues DEF BackupInv, BackupTypeOK, Restores, Fails,
        Replaced, Slot, Order, Upload, Import, Content
  <2>4. map' \in [Sns -> Content \cup {NoBlob}]
    BY BackupAssumption, AbsentValues DEF BackupInv, BackupTypeOK, Restores, Fails,
        Replaced, Slot, Order, Upload, Import, Content
  <2> QED
    BY <2>1, <2>2, <2>3, <2>4 DEF BackupInv, BackupTypeOK, Restores, Fails, vars,
        serverVars, robotVars, historyVars
<1>2. OrdersNameMaps'
  <2>1. following' = [following EXCEPT ![s] = NoOrder] /\ UNCHANGED serverVars
    BY DEF Restores
  <2> QED
    BY <2>1, NoOrderNames DEF BackupInv, BackupTypeOK, OrdersNameMaps, Names, serverVars
<1>3. BodiesHaveOrders'
  BY BackupAssumption, AbsentValues DEF BackupInv, BodiesHaveOrders, BackupTypeOK,
     Restores, Fails, vars, serverVars, robotVars, historyVars
<1>4. MapsAreOwn'
  BY BackupAssumption, AbsentValues DEF BackupInv, MapsAreOwn, BackupTypeOK, Restores,
     Fails, vars, serverVars, robotVars, historyVars
<1>5. ServedIsOrdered'
  BY BackupAssumption, AbsentValues DEF BackupInv, ServedIsOrdered, BackupTypeOK,
     Restores, Fails, vars, serverVars, robotVars, historyVars
<1>6. RestoredIsOwn'
  <2>1. map' \in {map, [map EXCEPT ![s] = body[s]]} /\ UNCHANGED made
    BY DEF Restores, historyVars
  <2>2. body[s] \in Blobs /\ made[body[s]] = s
    BY DEF BackupInv, MapsAreOwn, Restores
  <2> QED
    BY <2>1, <2>2 DEF BackupInv, BackupTypeOK, RestoredIsOwn
<1>7. UploadsAreOfCopies' /\ SlotsAreIntact' /\ RefusedIsKept'
  BY DEF BackupInv, Restores, vars, serverVars, robotVars, historyVars, UploadsAreOfCopies,
         SlotsAreIntact, RefusedIsKept, Fails
<1> QED
  BY <1>1, <1>2, <1>3, <1>4, <1>5, <1>6, <1>7 DEF BackupInv

LEMMA NextBackup == BackupInv /\ [Next]_vars => BackupInv'
<1> SUFFICES ASSUME BackupInv, [Next]_vars
             PROVE  BackupInv'
  OBVIOUS
<1>1. CASE UNCHANGED vars
  BY <1>1 DEF vars, serverVars, robotVars, historyVars, BackupInv, BackupTypeOK,
         UploadsAreOfCopies, OrdersNameMaps, Names, BodiesHaveOrders, MapsAreOwn,
         ServedIsOrdered, SlotsAreIntact, RestoredIsOwn, RefusedIsKept
<1>2. ASSUME NEW s \in Sns, \/ \E b \in Blobs : Makes(s, b)
                            \/ Uploads(s) \/ Overlooks(s) \/ Refuses(s) \/ Stages(s)
                            \/ StageFails(s) \/ HearsAnswer(s) \/ AnswerIsLost(s)
      PROVE  BackupInv'
  BY <1>2, MakesStep, UploadsStep, OverlooksStep, RefusesStep, StagesStep, StageFailsStep,
     HearsAnswerStep, AnswerIsLostStep
<1>3. ASSUME NEW s \in Sns, \/ Exports(s)
                            \/ Delivers(s) \/ Serves(s) \/ NotFound(s) \/ Restores(s)
                            \/ \E c \in Clients : StagesImport(c, s)
      PROVE  BackupInv'
  BY <1>3, ExportsStep, DeliversStep, ServesStep, NotFoundStep, RestoresStep,
     StagesImportStep
<1>4. ASSUME NEW c \in Clients, QueuesRestore(c) \/ QueueFails(c)
      PROVE  BackupInv'
  BY <1>4, QueuesRestoreStep, QueueFailsStep
<1> QED
  BY <1>1, <1>2, <1>3, <1>4 DEF Next

-----------------------------------------------------------------------------
(* The theorems *)

\* The invariant of a map's way from the robot into the slot, out to an export
\* file, back and to the robot again (store_multipart, backup_export,
\* backup_import, backup_blob).
THEOREM BackupInvariance == Spec => []BackupInv
  BY InitBackup, NextBackup, PTL DEF Spec

\* Slots, orders, uploads and files have the shape the code gives them.
THEOREM BackupTypeCorrect == Spec => []BackupTypeOK
<1>1. BackupInv => BackupTypeOK
  BY DEF BackupInv
<1> QED
  BY BackupInvariance, <1>1, PTL

\* What a robot downloads is what its restore order named (backup_blob).
THEOREM ServedIsAlwaysOrdered == Spec => []ServedIsOrdered
<1>1. BackupInv => ServedIsOrdered
  BY DEF BackupInv
<1> QED
  BY BackupInvariance, <1>1, PTL

\* Slots and export files hold whole maps and their own sums (store_multipart,
\* decode).
THEOREM SlotsAreAlwaysIntact == Spec => []SlotsAreIntact
<1>1. BackupInv => SlotsAreIntact
  BY DEF BackupInv
<1> QED
  BY BackupInvariance, <1>1, PTL

\* A robot restores only maps it made (backup_import).
THEOREM RestoredIsAlwaysOwn == Spec => []RestoredIsOwn
<1>1. BackupInv => RestoredIsOwn
  BY DEF BackupInv
<1> QED
  BY BackupInvariance, <1>1, PTL

\* A map is lost in the two ways that the code answers with success, no map
\* found in the body or the statement failed, never because what arrived was
\* not what the robot declared (store_multipart).
THEOREM RefusedIsAlwaysKept == Spec => []RefusedIsKept
<1>1. BackupInv => RefusedIsKept
  BY DEF BackupInv
<1> QED
  BY BackupInvariance, <1>1, PTL
=============================================================================
