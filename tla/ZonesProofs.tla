---------------------------- MODULE ZonesProofs ----------------------------
(***************************************************************************)
(* Zone lists and zone cleans, for any operators, lists and bounds: an     *)
(* etag names one list, the cache shows no list nobody sent, and no start  *)
(* overtakes its selection.                                                *)
(***************************************************************************)
EXTENDS Zones, TLAPS

\* The list of a save is a list, from the request to the row.
SavesHaveLists ==
    \A c \in Clients :
        request[c].step \in {"guardSave", "version", "write", "record"} =>
            request[c].copy.list \in Lists

\* No page is ahead of the cache: an etag that was never given out names no
\* list, which is why a new one names one list only.
PagesAreRead ==
    \A c \in Clients :
        /\ page[c].version <= area.version
        /\ page[c].version = area.version => page[c] = area

\* Whatever may yet get into the cache is a list of the robot's, or in a row.
ListsAreBacked ==
    /\ CacheIsBacked
    /\ zones \in backed
    /\ answers \subseteq backed
    /\ \A l \in Lists, i \in DOMAIN line : line[i] = WriteRow(l) => l \in backed
    /\ \A c \in Clients :
          request[c].step = "record" => request[c].copy.list \in backed

\* A clean that has not queued its selection has nothing in the line.
CleansAreOrdered ==
    /\ StartFollowsSelection
    /\ \A c \in Clients :
          request[c].step \in {"guardClean", "select"} => ~OnItsWay(c)

ZonesInv ==
    ZonesTypeOK /\ SavesHaveLists /\ PagesAreRead /\ ListsAreBacked /\ CleansAreOrdered

-----------------------------------------------------------------------------
(* Rows and the line.                                                      *)

\* The kinds of rows differ, and a row says what it is of.
LEMMA RowKinds ==
    ASSUME NEW r \in Rows
    PROVE  r.op = "write" => \E l \in Lists : r = WriteRow(l) /\ r.list = l
<1>1. \/ \E l \in Lists : r = WriteRow(l)
      \/ r = ReadRow \/ r = DeleteRow
      \/ \E c \in Clients : r = SelectRow(c) \/ r = StartRow(c)
  BY DEF Rows
<1>2. ReadRow.op = "read" /\ DeleteRow.op = "delete"
  BY DEF ReadRow, DeleteRow
<1>3. \A c : SelectRow(c).op = "select" /\ StartRow(c).op = "start"
  BY DEF SelectRow, StartRow
<1>4. \A l : WriteRow(l).list = l
  BY DEF WriteRow
<1>5. QED
  BY <1>1, <1>2, <1>3, <1>4

LEMMA RowTypes ==
    /\ \A l \in Lists : WriteRow(l) \in Rows
    /\ ReadRow \in Rows /\ DeleteRow \in Rows
    /\ \A c \in Clients : SelectRow(c) \in Rows /\ StartRow(c) \in Rows
BY DEF Rows

LEMMA RowsDiffer ==
    /\ \A c, d : SelectRow(c) # StartRow(d) /\ SelectRow(c) # ReadRow
                 /\ SelectRow(c) # DeleteRow /\ StartRow(c) # ReadRow
                 /\ StartRow(c) # DeleteRow
    /\ \A c, l : SelectRow(c) # WriteRow(l) /\ StartRow(c) # WriteRow(l)
    /\ \A l : WriteRow(l) # ReadRow /\ WriteRow(l) # DeleteRow
    /\ \A c, d : SelectRow(c) = SelectRow(d) => c = d
    /\ \A c, d : StartRow(c) = StartRow(d) => c = d
    /\ \A l, m : WriteRow(l) = WriteRow(m) => l = m
BY DEF WriteRow, ReadRow, SelectRow, StartRow, DeleteRow

\* What is appended is last, what is left after the first keeps its order.
LEMMA Appended ==
    ASSUME NEW s \in Seq(Rows), NEW r \in Rows
    PROVE  /\ Append(s, r) \in Seq(Rows)
           /\ DOMAIN s = 1 .. Len(s)
           /\ DOMAIN Append(s, r) = 1 .. (Len(s) + 1)
           /\ Len(s) \in Nat
           /\ \A i \in DOMAIN s : Append(s, r)[i] = s[i]
           /\ Append(s, r)[Len(s) + 1] = r
OBVIOUS

LEMMA Shortened ==
    ASSUME NEW s \in Seq(Rows), s # <<>>
    PROVE  /\ Tail(s) \in Seq(Rows)
           /\ Head(s) \in Rows /\ Head(s) = s[1] /\ 1 \in DOMAIN s
           /\ DOMAIN Tail(s) \subseteq Nat
           /\ \A i \in DOMAIN Tail(s) : i + 1 \in DOMAIN s /\ Tail(s)[i] = s[i + 1]
OBVIOUS

-----------------------------------------------------------------------------
(* Requests.                                                               *)

RequestsOK == request \in [Clients -> Requests]

LEMMA IdleType == Idle \in Requests /\ Idle.step = "idle" /\ Unread \in Cached
BY ZonesAssumption DEF Idle, Requests, Steps, Cached, Unread

LEMMA EndsRequest ==
    ASSUME RequestsOK, NEW c \in Clients, Ends(c)
    PROVE  /\ RequestsOK'
           /\ \A d \in Clients : request'[d] = IF d = c THEN Idle ELSE request[d]
BY IdleType DEF RequestsOK, Ends

LEMMA GoesOnRequest ==
    ASSUME RequestsOK, NEW c \in Clients, NEW step \in Steps, GoesOn(c, step)
    PROVE  /\ RequestsOK'
           /\ \A d \in Clients :
                 /\ request'[d].step = IF d = c THEN step ELSE request[d].step
                 /\ request'[d].copy = request[d].copy
BY DEF RequestsOK, GoesOn, Requests

LEMMA AsksRequest ==
    ASSUME RequestsOK, NEW c \in Clients, NEW step \in Steps, NEW copy \in Cached,
           Asks(c, step, copy)
    PROVE  /\ RequestsOK'
           /\ \A d \in Clients :
                 /\ request'[d].step = IF d = c THEN step ELSE request[d].step
                 /\ request'[d].copy = IF d = c THEN copy ELSE request[d].copy
BY DEF RequestsOK, Asks, Requests

-----------------------------------------------------------------------------
(* The steps.                                                              *)

\* Every step keeps the types, and the lists of saves.
LEMMA TypeStep ==
    ASSUME ZonesTypeOK, SavesHaveLists, [Next]_vars
    PROVE  ZonesTypeOK' /\ SavesHaveLists'
<1> USE DEF ZonesTypeOK, RequestsOK, SavesHaveLists, Steps, robotVars
<1>1. ASSUME NEW c \in Clients, Reads(c)
      PROVE  ZonesTypeOK' /\ SavesHaveLists'
  BY <1>1 DEF Reads
<1>2. ASSUME NEW c \in Clients, NEW l \in Lists, AsksToSave(c, l)
      PROVE  ZonesTypeOK' /\ SavesHaveLists'
  BY <1>2, AsksRequest, IdleType DEF AsksToSave, Asks, Cached
<1>3. ASSUME NEW c \in Clients, AsksToClean(c)
      PROVE  ZonesTypeOK' /\ SavesHaveLists'
  BY <1>3, AsksRequest, IdleType DEF AsksToClean, Asks
<1>4. ASSUME NEW c \in Clients, AsksToDelete(c)
      PROVE  ZonesTypeOK' /\ SavesHaveLists'
  BY <1>4, AsksRequest, IdleType DEF AsksToDelete, Asks
<1>5. ASSUME NEW c \in Clients, Refreshes(c)
      PROVE  ZonesTypeOK' /\ SavesHaveLists'
  BY <1>5, RowTypes, Appended DEF Refreshes, Inserts
<1>6. ASSUME NEW c \in Clients, Fails(c)
      PROVE  ZonesTypeOK' /\ SavesHaveLists'
  BY <1>6, EndsRequest, IdleType DEF Fails
<1>7. ASSUME NEW c \in Clients, Guards(c, "guardSave", "version")
      PROVE  ZonesTypeOK' /\ SavesHaveLists'
  BY <1>7, EndsRequest, IdleType, GoesOnRequest DEF Guards
<1>8. ASSUME NEW c \in Clients, Guards(c, "guardClean", "select")
      PROVE  ZonesTypeOK' /\ SavesHaveLists'
  BY <1>8, EndsRequest, IdleType, GoesOnRequest DEF Guards
<1>9. ASSUME NEW c \in Clients, Guards(c, "guardDelete", "delete")
      PROVE  ZonesTypeOK' /\ SavesHaveLists'
  BY <1>9, EndsRequest, IdleType, GoesOnRequest DEF Guards
<1>10. ASSUME NEW c \in Clients, ChecksVersion(c)
      PROVE  ZonesTypeOK' /\ SavesHaveLists'
  BY <1>10, EndsRequest, IdleType, GoesOnRequest DEF ChecksVersion
<1>11. ASSUME NEW c \in Clients, InsertsWrite(c)
      PROVE  ZonesTypeOK' /\ SavesHaveLists'
  <2>1. request[c].copy.list \in Lists
    BY <1>11 DEF InsertsWrite
  <2>2. line' \in Seq(Rows) /\ backed' \in SUBSET Lists
    BY <1>11, <2>1, RowTypes, Appended DEF InsertsWrite, Inserts
  <2>3. QED
    BY <1>11, <2>1, <2>2, GoesOnRequest DEF InsertsWrite
<1>12. ASSUME NEW c \in Clients, Records(c)
      PROVE  ZonesTypeOK' /\ SavesHaveLists'
  <2>1. request[c].copy.list \in Lists
    BY <1>12 DEF Records
  <2>2. area' \in Cached
    BY <1>12, <2>1, ZonesAssumption DEF Records, Renewed, Cached
  <2>3. page' \in [Clients -> Cached]
    BY <1>12, <2>2 DEF Records
  <2>4. QED
    BY <1>12, <2>2, <2>3, EndsRequest, IdleType DEF Records
<1>13. ASSUME NEW c \in Clients, InsertsSelection(c)
      PROVE  ZonesTypeOK' /\ SavesHaveLists'
  BY <1>13, RowTypes, Appended, GoesOnRequest DEF InsertsSelection, Inserts
<1>14. ASSUME NEW c \in Clients, InsertsStart(c)
      PROVE  ZonesTypeOK' /\ SavesHaveLists'
  BY <1>14, RowTypes, Appended, EndsRequest, IdleType DEF InsertsStart, Inserts
<1>15. ASSUME NEW c \in Clients, InsertsDelete(c)
      PROVE  ZonesTypeOK' /\ SavesHaveLists'
  BY <1>15, RowTypes, Appended, EndsRequest, IdleType DEF InsertsDelete, Inserts
<1>16. CASE TakesList
  BY <1>16, RowKinds, Shortened DEF TakesList, Given
<1>17. CASE AnswersRead
  BY <1>17, RowKinds, Shortened DEF AnswersRead, Given
<1>18. CASE StartsAppointed
  BY <1>18, RowKinds, Shortened DEF StartsAppointed, Given
<1>19. CASE RowLeaves
  BY <1>19, Shortened DEF RowLeaves
<1>20. CASE StartsOrEnds
  BY <1>20 DEF StartsOrEnds
<1>21. CASE Restores
  BY <1>21 DEF Restores
<1>22. CASE StatusStored
  BY <1>22 DEF StatusStored
<1>23. ASSUME NEW l \in Lists, AnswerStored(l)
      PROVE  ZonesTypeOK' /\ SavesHaveLists'
  BY <1>23, ZonesAssumption DEF AnswerStored, Renewed, Cached
<1>24. ASSUME NEW l \in Lists, AnswerIsLost(l)
      PROVE  ZonesTypeOK' /\ SavesHaveLists'
  BY <1>24 DEF AnswerIsLost
<1>25. CASE UNCHANGED vars
  BY <1>25 DEF vars
<1>26. QED
  BY <1>1, <1>2, <1>3, <1>4, <1>5, <1>6, <1>7, <1>8, <1>9,
     <1>10, <1>11, <1>12, <1>13, <1>14, <1>15, <1>16, <1>17,
     <1>18, <1>19, <1>20, <1>21, <1>22, <1>23, <1>24, <1>25
  DEF Next, ClientStep, HandlerStep, RobotStep

\* Three actions touch the cache or a page.
LEMMA CacheSteps ==
    ASSUME [Next]_vars
    PROVE  \/ \E c \in Clients : Reads(c) \/ Records(c)
           \/ \E l \in Lists : AnswerStored(l)
           \/ UNCHANGED <<area, page>>
BY DEF Next, ClientStep, HandlerStep, RobotStep, vars, AsksToSave, AsksToClean,
       AsksToDelete, Asks, Refreshes, Fails, Guards, ChecksVersion, InsertsWrite,
       InsertsSelection, InsertsStart, InsertsDelete, TakesList, AnswersRead,
       StartsAppointed, RowLeaves, StartsOrEnds, Restores, StatusStored, AnswerIsLost

\* Every update of the cache has an etag of its own.
LEMMA PagesStep ==
    ASSUME ZonesTypeOK, PagesAreRead, [Next]_vars
    PROVE  PagesAreRead'
<1> USE DEF ZonesTypeOK, PagesAreRead, Cached
<1>1. ASSUME NEW c \in Clients, Reads(c)
      PROVE  PagesAreRead'
  BY <1>1 DEF Reads
<1>2. ASSUME NEW c \in Clients, Records(c)
      PROVE  PagesAreRead'
  <2>1. area'.version = area.version + 1
    BY <1>2 DEF Records, Renewed
  <2>2. \A d \in Clients : page'[d] = page[d] \/ page'[d] = area'
    BY <1>2 DEF Records
  <2>3. QED
    BY <2>1, <2>2, ZonesAssumption
<1>3. ASSUME NEW l \in Lists, AnswerStored(l)
      PROVE  PagesAreRead'
  BY <1>3, ZonesAssumption DEF AnswerStored, Renewed
<1>4. CASE UNCHANGED <<area, page>>
  BY <1>4
<1>5. QED
  BY <1>1, <1>2, <1>3, <1>4, CacheSteps

\* What may get into the cache was the robot's or was queued: the row goes
\* into the line before the list goes into the cache.
LEMMA BackedStep ==
    ASSUME ZonesTypeOK, SavesHaveLists, ListsAreBacked, [Next]_vars
    PROVE  ListsAreBacked'
<1> USE DEF ZonesTypeOK, RequestsOK, SavesHaveLists, ListsAreBacked, CacheIsBacked, robotVars
<1>1. ASSUME NEW c \in Clients, Reads(c)
      PROVE  ListsAreBacked'
  BY <1>1 DEF Reads
<1>2. ASSUME NEW c \in Clients, NEW l \in Lists, AsksToSave(c, l)
      PROVE  ListsAreBacked'
  BY <1>2, AsksRequest, IdleType DEF AsksToSave, Asks, Steps, Cached
<1>3. ASSUME NEW c \in Clients, AsksToClean(c)
      PROVE  ListsAreBacked'
  BY <1>3, AsksRequest, IdleType DEF AsksToClean, Asks, Steps
<1>4. ASSUME NEW c \in Clients, AsksToDelete(c)
      PROVE  ListsAreBacked'
  BY <1>4, AsksRequest, IdleType DEF AsksToDelete, Asks, Steps
<1>5. ASSUME NEW c \in Clients, Refreshes(c)
      PROVE  ListsAreBacked'
  BY <1>5, RowTypes, RowsDiffer, Appended DEF Refreshes, Inserts
<1>6. ASSUME NEW c \in Clients, Fails(c)
      PROVE  ListsAreBacked'
  BY <1>6, EndsRequest, IdleType DEF Fails
<1>7. ASSUME NEW c \in Clients, Guards(c, "guardSave", "version")
      PROVE  ListsAreBacked'
  BY <1>7, EndsRequest, IdleType, GoesOnRequest DEF Guards, Steps
<1>8. ASSUME NEW c \in Clients, Guards(c, "guardClean", "select")
      PROVE  ListsAreBacked'
  BY <1>8, EndsRequest, IdleType, GoesOnRequest DEF Guards, Steps
<1>9. ASSUME NEW c \in Clients, Guards(c, "guardDelete", "delete")
      PROVE  ListsAreBacked'
  BY <1>9, EndsRequest, IdleType, GoesOnRequest DEF Guards, Steps
<1>10. ASSUME NEW c \in Clients, ChecksVersion(c)
      PROVE  ListsAreBacked'
  BY <1>10, EndsRequest, IdleType, GoesOnRequest DEF ChecksVersion, Steps
<1>11. ASSUME NEW c \in Clients, InsertsWrite(c)
      PROVE  ListsAreBacked'
  <2>1. request[c].copy.list \in Lists
    BY <1>11 DEF InsertsWrite
  <2>2. \A l \in Lists, i \in DOMAIN line' : line'[i] = WriteRow(l) => l \in backed'
    BY <1>11, <2>1, RowTypes, RowsDiffer, Appended DEF InsertsWrite, Inserts
  <2>3. \A d \in Clients :
          request'[d].step = "record" => request'[d].copy.list \in backed'
    BY <1>11, GoesOnRequest DEF InsertsWrite, Steps
  <2>4. QED
    BY <1>11, <2>2, <2>3 DEF InsertsWrite
<1>12. ASSUME NEW c \in Clients, Records(c)
      PROVE  ListsAreBacked'
  BY <1>12, EndsRequest, IdleType, ZonesAssumption DEF Records, Renewed
<1>13. ASSUME NEW c \in Clients, InsertsSelection(c)
      PROVE  ListsAreBacked'
  <2>1. \A l \in Lists, i \in DOMAIN line' : line'[i] = WriteRow(l) => l \in backed'
    BY <1>13, RowTypes, RowsDiffer, Appended DEF InsertsSelection, Inserts
  <2>2. QED
    BY <1>13, <2>1, GoesOnRequest DEF InsertsSelection, Steps
<1>14. ASSUME NEW c \in Clients, InsertsStart(c)
      PROVE  ListsAreBacked'
  BY <1>14, RowTypes, RowsDiffer, Appended, EndsRequest, IdleType DEF InsertsStart, Inserts
<1>15. ASSUME NEW c \in Clients, InsertsDelete(c)
      PROVE  ListsAreBacked'
  BY <1>15, RowTypes, RowsDiffer, Appended, EndsRequest, IdleType DEF InsertsDelete, Inserts
<1>16. CASE TakesList
  <2>1. PICK l \in Lists : Head(line) = WriteRow(l) /\ Head(line).list = l
    BY <1>16, RowKinds, Shortened DEF TakesList, Given
  <2>2. zones' \in backed
    BY <1>16, <2>1, Shortened DEF TakesList, Given
  <2>3. QED
    BY <1>16, <2>2, Shortened DEF TakesList, Given
<1>17. CASE AnswersRead
  BY <1>17, Shortened DEF AnswersRead, Given
<1>18. CASE StartsAppointed
  BY <1>18, Shortened DEF StartsAppointed, Given
<1>19. CASE RowLeaves
  BY <1>19, Shortened DEF RowLeaves
<1>20. CASE StartsOrEnds
  BY <1>20 DEF StartsOrEnds
<1>21. CASE Restores
  BY <1>21 DEF Restores
<1>22. CASE StatusStored
  BY <1>22 DEF StatusStored
<1>23. ASSUME NEW l \in Lists, AnswerStored(l)
      PROVE  ListsAreBacked'
  BY <1>23, ZonesAssumption DEF AnswerStored, Renewed
<1>24. ASSUME NEW l \in Lists, AnswerIsLost(l)
      PROVE  ListsAreBacked'
  BY <1>24 DEF AnswerIsLost
<1>25. CASE UNCHANGED vars
  BY <1>25 DEF vars
<1>26. QED
  BY <1>1, <1>2, <1>3, <1>4, <1>5, <1>6, <1>7, <1>8, <1>9,
     <1>10, <1>11, <1>12, <1>13, <1>14, <1>15, <1>16, <1>17,
     <1>18, <1>19, <1>20, <1>21, <1>22, <1>23, <1>24, <1>25
  DEF Next, ClientStep, HandlerStep, RobotStep

\* The line as it was, with a row behind it.
LineKept(row) ==
    /\ Len(line) \in Nat /\ DOMAIN line = 1 .. Len(line)
    /\ DOMAIN line' = 1 .. (Len(line) + 1)
    /\ \A i \in DOMAIN line : line'[i] = line[i]
    /\ line'[Len(line) + 1] = row

\* The line without its first row.
LineShortened ==
    /\ DOMAIN line' \subseteq Nat /\ DOMAIN line \subseteq Nat
    /\ \A i \in DOMAIN line' : i + 1 \in DOMAIN line /\ line'[i] = line[i + 1]

\* Rows that leave keep what is left in order.
LEMMA OrderOfTheRest ==
    ASSUME ZonesTypeOK, CleansAreOrdered, LineShortened, UNCHANGED request
    PROVE  CleansAreOrdered'
BY DEF CleansAreOrdered, StartFollowsSelection, OnItsWay, LineShortened

\* Rows of no clean change no order.
LEMMA OrderKept ==
    ASSUME ZonesTypeOK, CleansAreOrdered, NEW row, LineKept(row),
           \A d \in Clients : row # SelectRow(d) /\ row # StartRow(d),
           \A d \in Clients : request'[d].step \in {"guardClean", "select"} =>
                                  request[d].step \in {"guardClean", "select"},
           \A d \in Clients : request'[d].step = "select" => request[d].step = "select"
    PROVE  CleansAreOrdered'
<1>1. \A d \in Clients, i \in DOMAIN line' :
          line'[i] \in {SelectRow(d), StartRow(d)} => i \in DOMAIN line /\ line'[i] = line[i]
  BY DEF LineKept
<1>2. QED
  BY <1>1 DEF CleansAreOrdered, StartFollowsSelection, OnItsWay

\* The selection goes in where nothing of its clean is, and the start behind
\* it: that the line stays ordered.
LEMMA OrderStep ==
    ASSUME ZonesTypeOK, SavesHaveLists, CleansAreOrdered, [Next]_vars
    PROVE  CleansAreOrdered'
<1> USE DEF ZonesTypeOK, RequestsOK, SavesHaveLists, robotVars
<1>1. ASSUME NEW c \in Clients, Reads(c)
      PROVE  CleansAreOrdered'
  BY <1>1 DEF Reads, CleansAreOrdered, StartFollowsSelection, OnItsWay
<1>2. ASSUME NEW c \in Clients, NEW l \in Lists, AsksToSave(c, l)
      PROVE  CleansAreOrdered'
  BY <1>2, AsksRequest, IdleType
  DEF AsksToSave, Asks, Steps, Cached, CleansAreOrdered, StartFollowsSelection, OnItsWay
<1>3. ASSUME NEW c \in Clients, AsksToClean(c)
      PROVE  CleansAreOrdered'
  BY <1>3, AsksRequest, IdleType
  DEF AsksToClean, Asks, Steps, CleansAreOrdered, StartFollowsSelection, OnItsWay
<1>4. ASSUME NEW c \in Clients, AsksToDelete(c)
      PROVE  CleansAreOrdered'
  BY <1>4, AsksRequest, IdleType
  DEF AsksToDelete, Asks, Steps, CleansAreOrdered, StartFollowsSelection, OnItsWay
<1>5. ASSUME NEW c \in Clients, Refreshes(c)
      PROVE  CleansAreOrdered'
  <2>1. LineKept(ReadRow)
    BY <1>5, RowTypes, Appended DEF Refreshes, Inserts, LineKept
  <2>2. QED
    BY <1>5, <2>1, RowsDiffer, OrderKept DEF Refreshes
<1>6. ASSUME NEW c \in Clients, Fails(c)
      PROVE  CleansAreOrdered'
  BY <1>6, EndsRequest, IdleType DEF Fails, CleansAreOrdered, StartFollowsSelection, OnItsWay
<1>7. ASSUME NEW c \in Clients, Guards(c, "guardSave", "version")
      PROVE  CleansAreOrdered'
  BY <1>7, EndsRequest, IdleType, GoesOnRequest
  DEF Guards, Steps, CleansAreOrdered, StartFollowsSelection, OnItsWay
<1>8. ASSUME NEW c \in Clients, Guards(c, "guardClean", "select")
      PROVE  CleansAreOrdered'
  BY <1>8, EndsRequest, IdleType, GoesOnRequest
  DEF Guards, Steps, CleansAreOrdered, StartFollowsSelection, OnItsWay
<1>9. ASSUME NEW c \in Clients, Guards(c, "guardDelete", "delete")
      PROVE  CleansAreOrdered'
  BY <1>9, EndsRequest, IdleType, GoesOnRequest
  DEF Guards, Steps, CleansAreOrdered, StartFollowsSelection, OnItsWay
<1>10. ASSUME NEW c \in Clients, ChecksVersion(c)
      PROVE  CleansAreOrdered'
  BY <1>10, EndsRequest, IdleType, GoesOnRequest
  DEF ChecksVersion, Steps, CleansAreOrdered, StartFollowsSelection, OnItsWay
<1>11. ASSUME NEW c \in Clients, InsertsWrite(c)
      PROVE  CleansAreOrdered'
  <2>1. request[c].copy.list \in Lists
    BY <1>11 DEF InsertsWrite
  <2>2. LineKept(WriteRow(request[c].copy.list))
    BY <1>11, <2>1, RowTypes, Appended DEF InsertsWrite, Inserts, LineKept
  <2>3. \A d \in Clients : request'[d].step = IF d = c THEN "record" ELSE request[d].step
    BY <1>11, GoesOnRequest DEF InsertsWrite, Steps
  <2>4. QED
    BY <2>2, <2>3, RowsDiffer, OrderKept
<1>12. ASSUME NEW c \in Clients, Records(c)
      PROVE  CleansAreOrdered'
  BY <1>12, EndsRequest, IdleType DEF Records, CleansAreOrdered, StartFollowsSelection, OnItsWay
<1>13. ASSUME NEW c \in Clients, InsertsSelection(c)
      PROVE  CleansAreOrdered'
  <2>1. LineKept(SelectRow(c))
    BY <1>13, RowTypes, Appended DEF InsertsSelection, Inserts, LineKept
  <2>2. \A d \in Clients :
          request'[d].step = IF d = c THEN "start" ELSE request[d].step
    BY <1>13, GoesOnRequest DEF InsertsSelection, Steps
  <2>3. \A i \in DOMAIN line : line[i] # StartRow(c) /\ line[i] # SelectRow(c)
    BY <1>13 DEF InsertsSelection, CleansAreOrdered, OnItsWay
  <2>4. \A d \in Clients, i \in DOMAIN line' : line'[i] = StartRow(d) =>
          /\ d # c /\ i \in DOMAIN line /\ line[i] = StartRow(d)
    BY <2>1, <2>3, RowsDiffer DEF LineKept
  <2>5. \A d \in Clients, j \in DOMAIN line' :
          d # c /\ line'[j] = SelectRow(d) => j \in DOMAIN line /\ line[j] = SelectRow(d)
    BY <2>1, RowsDiffer DEF LineKept
  <2>6. QED
    BY <2>2, <2>4, <2>5 DEF CleansAreOrdered, StartFollowsSelection, OnItsWay
<1>14. ASSUME NEW c \in Clients, InsertsStart(c)
      PROVE  CleansAreOrdered'
  <2>1. LineKept(StartRow(c))
    BY <1>14, RowTypes, Appended DEF InsertsStart, Inserts, LineKept
  <2>2. \A d \in Clients :
          request'[d].step = IF d = c THEN "idle" ELSE request[d].step
    BY <1>14, EndsRequest, IdleType DEF InsertsStart
  <2>3. \A d \in Clients, j \in DOMAIN line' :
          line'[j] = SelectRow(d) => j \in DOMAIN line /\ line[j] = SelectRow(d)
    BY <2>1, RowsDiffer DEF LineKept
  <2>4. \A d \in Clients, i \in DOMAIN line' : line'[i] = StartRow(d) =>
          \/ i \in DOMAIN line /\ line[i] = StartRow(d)
          \/ d = c /\ \A j \in DOMAIN line : j < i
    BY <2>1, RowsDiffer DEF LineKept
  <2>5. QED
    BY <2>2, <2>3, <2>4 DEF CleansAreOrdered, StartFollowsSelection, OnItsWay
<1>15. ASSUME NEW c \in Clients, InsertsDelete(c)
      PROVE  CleansAreOrdered'
  <2>1. LineKept(DeleteRow)
    BY <1>15, RowTypes, Appended DEF InsertsDelete, Inserts, LineKept
  <2>2. QED
    BY <1>15, <2>1, RowsDiffer, OrderKept, EndsRequest, IdleType DEF InsertsDelete
<1>16. CASE TakesList
  <2>1. LineShortened
    BY <1>16, Shortened DEF TakesList, Given, LineShortened
  <2>2. QED
    BY <1>16, <2>1, OrderOfTheRest DEF TakesList
<1>17. CASE AnswersRead
  <2>1. LineShortened
    BY <1>17, Shortened DEF AnswersRead, Given, LineShortened
  <2>2. QED
    BY <1>17, <2>1, OrderOfTheRest DEF AnswersRead
<1>18. CASE StartsAppointed
  <2>1. LineShortened
    BY <1>18, Shortened DEF StartsAppointed, Given, LineShortened
  <2>2. QED
    BY <1>18, <2>1, OrderOfTheRest DEF StartsAppointed
<1>19. CASE RowLeaves
  <2>1. LineShortened
    BY <1>19, Shortened DEF RowLeaves, LineShortened
  <2>2. QED
    BY <1>19, <2>1, OrderOfTheRest DEF RowLeaves
<1>20. CASE StartsOrEnds
  BY <1>20 DEF StartsOrEnds, CleansAreOrdered, StartFollowsSelection, OnItsWay
<1>21. CASE Restores
  BY <1>21 DEF Restores, CleansAreOrdered, StartFollowsSelection, OnItsWay
<1>22. CASE StatusStored
  BY <1>22 DEF StatusStored, CleansAreOrdered, StartFollowsSelection, OnItsWay
<1>23. ASSUME NEW l \in Lists, AnswerStored(l)
      PROVE  CleansAreOrdered'
  BY <1>23 DEF AnswerStored, Renewed, CleansAreOrdered, StartFollowsSelection, OnItsWay
<1>24. ASSUME NEW l \in Lists, AnswerIsLost(l)
      PROVE  CleansAreOrdered'
  BY <1>24 DEF AnswerIsLost, CleansAreOrdered, StartFollowsSelection, OnItsWay
<1>25. CASE UNCHANGED vars
  BY <1>25 DEF vars, CleansAreOrdered, StartFollowsSelection, OnItsWay
<1>26. QED
  BY <1>1, <1>2, <1>3, <1>4, <1>5, <1>6, <1>7, <1>8, <1>9,
     <1>10, <1>11, <1>12, <1>13, <1>14, <1>15, <1>16, <1>17,
     <1>18, <1>19, <1>20, <1>21, <1>22, <1>23, <1>24, <1>25
  DEF Next, ClientStep, HandlerStep, RobotStep

-----------------------------------------------------------------------------
(* The theorems.                                                           *)

LEMMA ZonesInit == Init => ZonesInv
<1> SUFFICES ASSUME Init PROVE ZonesInv
  OBVIOUS
<1>1. ZonesTypeOK /\ SavesHaveLists
  <2>1. area \in Cached /\ page \in [Clients -> Cached]
    BY IdleType DEF Init
  <2>2. request \in [Clients -> Requests] /\ SavesHaveLists
    BY IdleType DEF Init, SavesHaveLists
  <2>3. line \in Seq(Rows)
    BY DEF Init
  <2>4. QED
    BY <2>1, <2>2, <2>3 DEF Init, ZonesTypeOK
<1>2. PagesAreRead
  <2>1. area.version = 0
    BY DEF Init, Unread
  <2>2. \A c \in Clients : page[c] = area
    BY DEF Init
  <2>3. ASSUME NEW c \in Clients
        PROVE  /\ page[c].version <= area.version
               /\ page[c].version = area.version => page[c] = area
    <3>1. page[c] = area
      BY <2>2
    <3>2. area.version <= area.version
      BY <2>1
    <3>3. QED
      BY <3>1, <3>2
  <2>4. QED
    BY <2>3 DEF PagesAreRead
<1>3. ListsAreBacked
  BY IdleType DEF Init, ListsAreBacked, CacheIsBacked, Unread
<1>4. CleansAreOrdered
  BY IdleType DEF Init, CleansAreOrdered, StartFollowsSelection, OnItsWay
<1>5. QED
  BY <1>1, <1>2, <1>3, <1>4 DEF ZonesInv

\* The inductive invariant: etags of pages and the cache, lists and where
\* they come from, cleans and their rows.
THEOREM ZonesInvariant == Spec => []ZonesInv
<1>1. ZonesInv /\ [Next]_vars => ZonesInv'
  BY TypeStep, PagesStep, BackedStep, OrderStep DEF ZonesInv
<1>2. QED
  BY <1>1, ZonesInit, PTL DEF Spec

\* The types of the cache, the pages, the requests and the line.
THEOREM ZonesTypeCorrect == Spec => []ZonesTypeOK
<1>1. ZonesInv => ZonesTypeOK
  BY DEF ZonesInv
<1>2. QED
  BY <1>1, ZonesInvariant, PTL

\* An editor can only save the list it read: its etag names no other list.
THEOREM EtagsAlwaysNameLists == Spec => []EtagNamesList
<1>1. ZonesInv => EtagNamesList
  BY DEF ZonesInv, PagesAreRead, EtagNamesList
<1>2. QED
  BY <1>1, ZonesInvariant, PTL

\* The cache never shows a list that no robot had and nobody queued.
THEOREM CacheIsAlwaysBacked == Spec => []CacheIsBacked
<1>1. ZonesInv => CacheIsBacked
  BY DEF ZonesInv, ListsAreBacked
<1>2. QED
  BY <1>1, ZonesInvariant, PTL

\* No start of a zone clean is ahead of its selection.
THEOREM StartsAlwaysFollow == Spec => []StartFollowsSelection
<1>1. ZonesInv => StartFollowsSelection
  BY DEF ZonesInv, CleansAreOrdered
<1>2. QED
  BY <1>1, ZonesInvariant, PTL
=============================================================================
