--------------------------- MODULE CommandTable ---------------------------
(***************************************************************************)
(* The `commands` table and the statements run on it (src/db/queries.rs,   *)
(* built with `history`, the default, where a finished row stays).  A      *)
(* table is a function from row ids to rows; each operator is one SQL      *)
(* statement, hence atomic.                                                *)
(*                                                                         *)
(* created_ms and sent_ms appear as ages, the ticks that have passed since *)
(* then, counted up to MaxAge: every statement compares them with now.     *)
(***************************************************************************)
EXTENDS Identities

CONSTANTS
    InfoTypes,   \* command numbers
    NoType,      \* the command number of a row not inserted yet
    Ttl,         \* gateway.command_ttl_secs, in ticks
    MaxAge       \* where ages stop counting

ASSUME TableAssumption ==
    /\ NoType \notin InfoTypes
    /\ Ttl \in Nat
    /\ MaxAge \in Nat
    /\ MaxAge > Ttl

Live == {"pending", "sent"}
States == Live \cup {"none", "acked", "expired", "failed"}

Never == MaxAge + 1     \* sent_ms IS NULL

Row == [state : States,
        sn : Sns \cup {NoSn},
        infoType : InfoTypes \cup {NoType},
        age : 0 .. MaxAge,
        sentAge : 0 .. Never]

Table == [Commands -> Row]

NoRow == [state |-> "none", sn |-> NoSn, infoType |-> NoType,
          age |-> 0, sentAge |-> Never]

EmptyTable == [i \in Commands |-> NoRow]

\* The id the next INSERT gets.
IsNextId(t, i) ==
    /\ t[i].state = "none"
    /\ \A j \in Commands : j < i => t[j].state # "none"

\* insert_command
Insert(t, i, s, ty) ==
    [t EXCEPT ![i] = [state |-> "pending", sn |-> s, infoType |-> ty,
                      age |-> 0, sentAge |-> Never]]

\* COALESCE(sent_ms, created_ms), as an age.
SinceSent(row) == IF row.sentAge = Never THEN row.age ELSE row.sentAge

\* A slip: rows nobody answered are left alone.
OverdueIfPending(row) == row.state = "pending" /\ row.age > Ttl

\* A slip: rows that never went out wait for ever.
OverdueIfSent(row) == row.state = "sent" /\ SinceSent(row) > Ttl

\* The WHERE of expire_commands, with the cutoff drain_once passes.
Overdue(row) ==
    \/ row.state = "pending" /\ row.age > Ttl
    \/ row.state = "sent" /\ SinceSent(row) > Ttl

\* expire_commands
Expire(t) ==
    [i \in Commands |->
        IF Overdue(t[i]) THEN [t[i] EXCEPT !.state = "expired"] ELSE t[i]]

\* pending_command_sns
PendingSns(t) == {t[i].sn : i \in {j \in Commands : t[j].state = "pending"}}

\* A slip: a claim that takes what is out already.
LiveOf(t, s) == {i \in Commands : t[i].sn = s /\ t[i].state \in Live}

\* What claim_commands returns for s.
PendingOf(t, s) == {i \in Commands : t[i].sn = s /\ t[i].state = "pending"}

\* claim_commands
Claim(t, s) ==
    [i \in Commands |->
        IF i \in PendingOf(t, s)
        THEN [t[i] EXCEPT !.state = "sent", !.sentAge = 0] ELSE t[i]]

\* A slip: the state is not looked at.
FailAnyway(t, i) == [t EXCEPT ![i].state = "failed", ![i].sentAge = Never]

\* A slip: a row that could not be pushed is left for the next pass.
LeaveForLater(t, i) ==
    IF t[i].state = "acked" THEN t
    ELSE [t EXCEPT ![i].state = "pending", ![i].sentAge = Never]

\* fail_command
Fail(t, i) ==
    IF t[i].state = "acked" THEN t
    ELSE [t EXCEPT ![i].state = "failed", ![i].sentAge = Never]

\* Rows a reply (s, ty) can acknowledge: sent within the window, the TTL.
Ackable(t, s, ty) ==
    {i \in Commands : /\ t[i].sn = s
                      /\ t[i].infoType = ty
                      /\ t[i].state = "sent"
                      /\ t[i].sentAge # Never
                      /\ t[i].sentAge <= Ttl}

\* A slip: no LIMIT 1.
EveryAckTarget(t, s, ty) == Ackable(t, s, ty)

\* A slip: DESC is left out.
OldestAckTarget(t, s, ty) ==
    {i \in Ackable(t, s, ty) :
        \A j \in Ackable(t, s, ty) :
            \/ t[i].sentAge > t[j].sentAge
            \/ t[i].sentAge = t[j].sentAge /\ i <= j}

\* ORDER BY sent_ms DESC, id DESC LIMIT 1: a set of at most one row.
AckTarget(t, s, ty) ==
    {i \in Ackable(t, s, ty) :
        \A j \in Ackable(t, s, ty) :
            \/ t[i].sentAge < t[j].sentAge
            \/ t[i].sentAge = t[j].sentAge /\ i >= j}

\* ack_command
Ack(t, s, ty) ==
    [i \in Commands |->
        IF i \in AckTarget(t, s, ty)
        THEN [t[i] EXCEPT !.state = "acked"] ELSE t[i]]

\* active_command: the oldest live row, if any.
IsActive(t, s, ty, i) ==
    LET live == {j \in Commands : /\ t[j].sn = s
                                  /\ t[j].infoType = ty
                                  /\ t[j].state \in Live}
    IN  i \in live /\ \A j \in live : i <= j

\* One tick later.
Older(a) == IF a < MaxAge THEN a + 1 ELSE a
Aged(t) ==
    [i \in Commands |->
        IF t[i].state = "none" THEN t[i]
        ELSE [t[i] EXCEPT !.age = Older(@),
                          !.sentAge = IF @ = Never THEN @ ELSE Older(@)]]
=============================================================================
