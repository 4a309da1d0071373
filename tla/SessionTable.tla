---------------------------- MODULE SessionTable ----------------------------
(***************************************************************************)
(* The `sessions` rows of one robot and the statements run on them         *)
(* (src/db/queries.rs).  A table is a sequence of rows in the order of     *)
(* their ids; each operator is one statement or one transaction.           *)
(*                                                                         *)
(* A session's cookie and its key are minted together and never repeat, so *)
(* one name stands for both.                                               *)
(***************************************************************************)
EXTENDS Integers, Sequences

CONSTANTS
    Keys,        \* the sessions a robot can be given
    Ttl,         \* registration.session_ttl_secs, in ticks
    MaxClock     \* the readings of the server's clock go up to here

ASSUME SessionAssumption ==
    /\ Ttl \in Nat
    /\ MaxClock \in Nat

Clock == 0 .. MaxClock

SessionRow == [key : Keys, created : Clock, revoked : BOOLEAN]

KeysOf(t) == {t[i].key : i \in DOMAIN t}

\* A slip: the row is stamped with the time it ends.
InsertSessionUntil(t, k, now, history) ==
    LET row == [key |-> k, created |-> now + Ttl + 1, revoked |-> FALSE]
    IN IF history THEN Append(t, row) ELSE <<row>>

\* A slip: the rows of earlier sessions stay.
InsertSessionAnyway(t, k, now, history) ==
    Append(t, [key |-> k, created |-> now, revoked |-> FALSE])

\* insert_session, in the build with history and in the one without
InsertSession(t, k, now, history) ==
    LET row == [key |-> k, created |-> now, revoked |-> FALSE]
    IN IF history THEN Append(t, row) ELSE <<row>>

\* find_session
Finds(t, k) == \E i \in DOMAIN t : t[i].key = k /\ ~ t[i].revoked

\* The TTL test of session::check
Expired(t, k, now) ==
    \E i \in DOMAIN t : t[i].key = k /\ ~ t[i].revoked /\ now - t[i].created > Ttl

\* revoke_session
Revoke(t, k) ==
    [i \in DOMAIN t |-> IF t[i].key = k THEN [t[i] EXCEPT !.revoked = TRUE] ELSE t[i]]

\* ORDER BY created_ms DESC, id DESC
Before(t, i, j) ==
    \/ t[i].created < t[j].created
    \/ t[i].created = t[j].created /\ i < j

\* A slip: the first row wins.
LatestFirst(t) ==
    {t[i].key : i \in {j \in DOMAIN t : ~ t[j].revoked
                         /\ \A n \in DOMAIN t : t[n].revoked \/ j <= n}}

\* latest_session_key: a set of one key, or empty
Latest(t) ==
    {t[i].key : i \in {j \in DOMAIN t : /\ ~ t[j].revoked
                                        /\ \A n \in DOMAIN t \ {j} :
                                             t[n].revoked \/ Before(t, n, j)}}

\* prune_sessions_latest_only: the one row no other is newer than stays,
\* revoked or not
PruneSessions(t) ==
    LET newest == {i \in DOMAIN t : \A n \in DOMAIN t \ {i} : Before(t, n, i)}
    IN IF newest = {} THEN <<>> ELSE <<t[CHOOSE i \in newest : TRUE]>>
=============================================================================
