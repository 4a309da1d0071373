----------------------------- MODULE MapBackup -----------------------------
(***************************************************************************)
(* Map backups: the one slot per robot that a robot's clean record fills   *)
(* (src/channel_a/handlers/uploads.rs), the export file an operator keeps  *)
(* of it (src/backup.rs), and the restore: the file is staged in the slot, *)
(* the robot is told where to fetch it and what its md5 is, and fetches it *)
(* later (src/web.rs).  The statements of a restore are steps, and other   *)
(* uploads, imports and fetches fall in between.  A crash between two of   *)
(* them does what a failed statement and a lost answer do.                 *)
(*                                                                         *)
(* The md5 of a map is the map itself: two maps have two sums.  What a bad *)
(* transfer leaves of a map is Damaged, and its sum is nobody's; if it     *)
(* leaves no map part that can be found in the body, NoBlob arrives.       *)
(***************************************************************************)
EXTENDS Naturals, Sequences

CONSTANTS
    Sns,         \* robots
    Blobs,       \* the maps they make
    Tokens,      \* the tokens of download addresses
    Clients,     \* operators
    NoSn,
    NoBlob,
    NoToken,
    Damaged,
    MaxOrders,   \* bound on the restore orders waiting for one robot
    MaxFaults    \* bound on bad transfers, lost answers and failed statements

ASSUME BackupAssumption ==
    /\ NoSn \notin Sns
    /\ NoBlob \notin Blobs
    /\ NoToken \notin Tokens
    /\ Damaged \notin Blobs \cup {NoBlob}
    /\ MaxOrders \in Nat
    /\ MaxFaults \in Nat

VARIABLES
    slot,        \* map_backups: content, md5 and token of each robot's row
    files,       \* export files: the serial number and the map in them
    orders,      \* the waiting 21025 rows: token and md5
    import,      \* imports between their two statements
    upload,      \* uploads under way: what arrived, what was declared, the answer
    copy,        \* the clean record a robot has not got rid of
    following,   \* the restore order a robot is following
    body,        \* the bytes on the way to it
    map,         \* the map it restored
    made,        \* history: who made a map
    staged,      \* history: maps that were in a slot
    unread,      \* history: maps not found in an upload that was answered
    unstored,    \* history: maps found in one, answered and not stored
    dropped,     \* history: maps whose clean record the robot deleted
    faults

serverVars == <<slot, files, orders, import>>
robotVars == <<upload, copy, following, body, map>>
historyVars == <<made, staged, unread, unstored, dropped>>
vars == <<serverVars, robotVars, historyVars, faults>>

Content == Blobs \cup {Damaged}

Slot == [content : Content, md5 : Blobs \cup {Damaged}, token : Tokens]
Vacant == [content |-> NoBlob, md5 |-> NoBlob, token |-> NoToken]

Order == [token : Tokens, md5 : Content]
NoOrder == [token |-> NoToken, md5 |-> NoBlob]

Upload == [content : Content \cup {NoBlob}, md5 : Content, answer : {"none", "ok", "retry"}]
NoUpload == [content |-> NoBlob, md5 |-> NoBlob, answer |-> "none"]

Import == [sn : Sns, order : Order]
NoImport == [sn |-> NoSn, order |-> NoOrder]

BackupTypeOK ==
    /\ slot \in [Sns -> Slot \cup {Vacant}]
    /\ files \subseteq [sn : Sns, blob : Content]
    /\ orders \in [Sns -> Seq(Order)]
    /\ import \in [Clients -> Import \cup {NoImport}]
    /\ upload \in [Sns -> Upload \cup {NoUpload}]
    /\ copy \in [Sns -> Blobs \cup {NoBlob}]
    /\ following \in [Sns -> Order \cup {NoOrder}]
    /\ body \in [Sns -> Content \cup {NoBlob}]
    /\ map \in [Sns -> Content \cup {NoBlob}]
    /\ made \in [Blobs -> Sns \cup {NoSn}]
    /\ staged \subseteq Content
    /\ unread \subseteq Blobs
    /\ unstored \subseteq Blobs
    /\ dropped \subseteq Blobs
    /\ faults \in 0 .. MaxFaults

Init ==
    /\ slot = [s \in Sns |-> Vacant]
    /\ files = {}
    /\ orders = [s \in Sns |-> <<>>]
    /\ import = [c \in Clients |-> NoImport]
    /\ upload = [s \in Sns |-> NoUpload]
    /\ copy = [s \in Sns |-> NoBlob]
    /\ following = [s \in Sns |-> NoOrder]
    /\ body = [s \in Sns |-> NoBlob]
    /\ map = [s \in Sns |-> NoBlob]
    /\ made = [b \in Blobs |-> NoSn]
    /\ staged = {}
    /\ unread = {}
    /\ unstored = {}
    /\ dropped = {}
    /\ faults = 0

Fails ==
    /\ faults < MaxFaults
    /\ faults' = faults + 1

-----------------------------------------------------------------------------
(* Tokens and the slot                                                     *)

\* A token is 16 random bytes: which of the unused ones makes no difference.
Held(t) ==
    \/ \E s \in Sns : \/ t \in {slot[s].token, following[s].token}
                      \/ \E i \in DOMAIN orders[s] : orders[s][i].token = t
    \/ \E c \in Clients : import[c].order.token = t
TokenLeft == ~ \A t \in Tokens : Held(t)
FreshToken == CHOOSE t \in Tokens : ~ Held(t)

\* A slip: the row has no md5.
ReplacedWithoutSum(old, content, t) == [content |-> content, md5 |-> NoBlob, token |-> t]

\* A slip: the md5 of the map before stays.
ReplacedKeepingSum(old, content, t) ==
    [content |-> content, md5 |-> IF old.md5 = NoBlob THEN content ELSE old.md5, token |-> t]

\* upsert_map_backup: one row per robot, every column replaced
Replaced(old, content, t) == [content |-> content, md5 |-> content, token |-> t]

\* A slip: the declared md5 is not looked at.
AsDeclaredOrNot(content, md5) == TRUE

\* The handler's own sum of what arrived against the one the robot declared
AsDeclared(content, md5) == content = md5

-----------------------------------------------------------------------------
(* The clean record's upload                                               *)

\* A clean has ended.
Makes(s, b) ==
    /\ made[b] = NoSn
    /\ copy[s] = NoBlob
    /\ made' = [made EXCEPT ![b] = s]
    /\ copy' = [copy EXCEPT ![s] = b]
    /\ UNCHANGED <<serverVars, upload, following, body, map, staged, unread, unstored, dropped,
                   faults>>

\* It arrives whole, with a map that is not the one it was sent with, or as a
\* body in which no map is found: over MAX_BODY_BYTES, broken off, not quite
\* multipart, or without the part's name.
Uploads(s) ==
    /\ copy[s] # NoBlob
    /\ upload[s] = NoUpload
    /\ \E content \in {copy[s], Damaged, NoBlob} :
         /\ upload' = [upload EXCEPT ![s] = [content |-> content, md5 |-> copy[s],
                                            answer |-> "none"]]
         /\ IF content = copy[s] THEN UNCHANGED faults ELSE Fails
    /\ UNCHANGED <<serverVars, copy, following, body, map, historyVars>>

Answers(s, answer) == upload' = [upload EXCEPT ![s].answer = answer]

Arrived(s) == upload[s] # NoUpload /\ upload[s].answer = "none"
MapArrived(s) == Arrived(s) /\ upload[s].content # NoBlob

\* raw and store_multipart: no map is found, and the answer is code 0, as for
\* any other upload.
Overlooks(s) ==
    /\ Arrived(s)
    /\ upload[s].content = NoBlob
    /\ unread' = unread \cup {copy[s]}
    /\ Answers(s, "ok")
    /\ UNCHANGED <<serverVars, copy, following, body, map, made, staged, unstored, dropped,
                   faults>>

\* A slip: the refusal looks like success to the robot.
RefusesPolitely(s) ==
    /\ MapArrived(s)
    /\ ~ AsDeclared(upload[s].content, upload[s].md5)
    /\ Answers(s, "ok")
    /\ UNCHANGED <<serverVars, copy, following, body, map, historyVars, faults>>

\* store_multipart: a body that is not what was declared is refused with 500.
Refuses(s) ==
    /\ MapArrived(s)
    /\ ~ AsDeclared(upload[s].content, upload[s].md5)
    /\ Answers(s, "retry")
    /\ UNCHANGED <<serverVars, copy, following, body, map, historyVars, faults>>

\* store_multipart: the map is staged.
Stages(s) ==
    /\ MapArrived(s)
    /\ AsDeclared(upload[s].content, upload[s].md5)
    /\ TokenLeft
    /\ slot' = [slot EXCEPT ![s] = Replaced(@, upload[s].content, FreshToken)]
    /\ staged' = staged \cup {upload[s].content}
    /\ Answers(s, "ok")
    /\ UNCHANGED <<files, orders, import, copy, following, body, map, made, unread,
                   unstored, dropped, faults>>

\* store_multipart: the statement failed; code 0 all the same.
StageFails(s) ==
    /\ MapArrived(s)
    /\ AsDeclared(upload[s].content, upload[s].md5)
    /\ Fails
    /\ unstored' = unstored \cup {upload[s].content}
    /\ Answers(s, "ok")
    /\ UNCHANGED <<serverVars, copy, following, body, map, made, staged, unread, dropped>>

\* The robot deletes its record on success and repeats the upload otherwise.
HearsAnswer(s) ==
    /\ upload[s] # NoUpload
    /\ upload[s].answer # "none"
    /\ upload' = [upload EXCEPT ![s] = NoUpload]
    /\ IF upload[s].answer = "ok"
       THEN /\ copy' = [copy EXCEPT ![s] = NoBlob]
            /\ dropped' = dropped \cup {copy[s]}
       ELSE UNCHANGED <<copy, dropped>>
    /\ UNCHANGED <<serverVars, following, body, map, made, staged, unread, unstored, faults>>

\* The connection broke, before the handler ran or after it.
AnswerIsLost(s) ==
    /\ upload[s] # NoUpload
    /\ Fails
    /\ upload' = [upload EXCEPT ![s] = NoUpload]
    /\ UNCHANGED <<serverVars, copy, following, body, map, historyVars>>

-----------------------------------------------------------------------------
(* Export and import                                                       *)

\* backup_export: the slot's map under its robot's serial number
Exports(s) ==
    /\ slot[s] # Vacant
    /\ files' = files \cup {[sn |-> s, blob |-> slot[s].content]}
    /\ UNCHANGED <<slot, orders, import, robotVars, historyVars, faults>>

\* A slip: any robot's export will do.
DecodesAnySn(f, content, s) == content = f.blob

\* decode and the serial number's comparison: `content` is the map in the file
\* as it arrives, f.blob the one its header was written for.
Decodes(f, content, s) == content = f.blob /\ f.sn = s

\* backup_import up to its first statement
StagesImport(c, s) ==
    /\ import[c] = NoImport
    /\ TokenLeft
    /\ \E f \in files, content \in Content :
         /\ content \in {f.blob, Damaged}
         /\ Decodes(f, content, s)
         /\ slot' = [slot EXCEPT ![s] = Replaced(@, content, FreshToken)]
         /\ staged' = staged \cup {content}
         /\ import' = [import EXCEPT ![c] = [sn |-> s, order |-> [token |-> FreshToken,
                                                                 md5 |-> content]]]
    /\ UNCHANGED <<files, orders, robotVars, made, unread, unstored, dropped, faults>>

\* backup_import, its second statement: insert_command
QueuesRestore(c) ==
    /\ import[c] # NoImport
    /\ Len(orders[import[c].sn]) < MaxOrders
    /\ orders' = [orders EXCEPT ![import[c].sn] = Append(@, import[c].order)]
    /\ import' = [import EXCEPT ![c] = NoImport]
    /\ UNCHANGED <<slot, files, robotVars, historyVars, faults>>

\* It fails: 500, and the slot keeps what was staged.
QueueFails(c) ==
    /\ import[c] # NoImport
    /\ Fails
    /\ import' = [import EXCEPT ![c] = NoImport]
    /\ UNCHANGED <<slot, files, orders, robotVars, historyVars>>

-----------------------------------------------------------------------------
(* The restore                                                             *)

\* The row is pushed, and the robot gets its frame or does not.
Delivers(s) ==
    /\ orders[s] # <<>>
    /\ orders' = [orders EXCEPT ![s] = Tail(@)]
    /\ \/ /\ following[s] = NoOrder
          /\ following' = [following EXCEPT ![s] = Head(orders[s])]
          /\ UNCHANGED faults
       \/ /\ Fails
          /\ UNCHANGED following
    /\ UNCHANGED <<slot, files, import, upload, copy, body, map, historyVars>>

\* A slip: the token is not looked at.
FetchedBySn(s, t) == IF slot[s] = Vacant THEN NoBlob ELSE slot[s].content

\* load_map_backup_by_token: the bytes, or none
Fetched(s, t) == IF slot[s].token = t THEN slot[s].content ELSE NoBlob

\* backup_blob finds the slot under the token.
Serves(s) ==
    /\ following[s] # NoOrder
    /\ body[s] = NoBlob
    /\ Fetched(s, following[s].token) # NoBlob
    /\ body' = [body EXCEPT ![s] = Fetched(s, following[s].token)]
    /\ UNCHANGED <<serverVars, upload, copy, following, map, historyVars, faults>>

\* 404: the slot was replaced.  The robot gives the restore up.
NotFound(s) ==
    /\ following[s] # NoOrder
    /\ body[s] = NoBlob
    /\ Fetched(s, following[s].token) = NoBlob
    /\ following' = [following EXCEPT ![s] = NoOrder]
    /\ UNCHANGED <<serverVars, upload, copy, body, map, historyVars, faults>>

\* The bytes arrive whole, or not: then the robot's own check fails.
Restores(s) ==
    /\ body[s] # NoBlob
    /\ body' = [body EXCEPT ![s] = NoBlob]
    /\ following' = [following EXCEPT ![s] = NoOrder]
    /\ \/ /\ body[s] = following[s].md5
          /\ map' = [map EXCEPT ![s] = body[s]]
          /\ UNCHANGED faults
       \/ /\ Fails
          /\ UNCHANGED map
    /\ UNCHANGED <<serverVars, upload, copy, historyVars>>

-----------------------------------------------------------------------------
Next ==
    \/ \E s \in Sns :
         \/ \E b \in Blobs : Makes(s, b)
         \/ Uploads(s) \/ Overlooks(s) \/ Refuses(s) \/ Stages(s) \/ StageFails(s)
         \/ HearsAnswer(s) \/ AnswerIsLost(s)
         \/ Exports(s)
         \/ Delivers(s) \/ Serves(s) \/ NotFound(s) \/ Restores(s)
         \/ \E c \in Clients : StagesImport(c, s)
    \/ \E c \in Clients : QueuesRestore(c) \/ QueueFails(c)

Spec == Init /\ [][Next]_vars

-----------------------------------------------------------------------------
(* Properties                                                              *)

\* What a robot downloads is what its restore order named, to the byte, even
\* if the slot was replaced, by its own upload or by another import, since the
\* order was queued: then there is nothing to download
\* (upsert_map_backup, load_map_backup_by_token, backup_blob).
ServedIsOrdered ==
    \A s \in Sns : body[s] # NoBlob => body[s] = following[s].md5

\* Nothing damaged is ever staged, ordered or exported, whichever way it came
\* in, and a slot's md5 is of its own bytes (store_multipart, decode,
\* upsert_map_backup).
SlotsAreIntact ==
    /\ \A s \in Sns : slot[s] # Vacant => /\ slot[s].content \in Blobs
                                         /\ slot[s].md5 = slot[s].content
    /\ \A f \in files : f.blob \in Blobs

\* A robot only ever restores a map that it made itself: slots, export files
\* and orders do not mix robots up (backup_export, backup_import).
RestoredIsOwn ==
    \A s \in Sns : map[s] # NoBlob => map[s] \in Blobs /\ made[map[s]] = s

\* "A body that does not match the md5 the robot computed must be refused, not
\* stored: it retries" (uploads.rs), and keeps the map until then.  So a map
\* is lost, deleted by its robot and staged nowhere, in two ways only: no map
\* was found in what arrived, or the statement failed; the code answers both
\* with success.
RefusedIsKept == dropped \ staged \subseteq unread \cup unstored
=============================================================================
