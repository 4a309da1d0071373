--------------------------- MODULE GatewayProofs ---------------------------
(***************************************************************************)
(* The registry theorems of the gateway, for any number of connections and *)
(* serial numbers and any queue size.                                      *)
(***************************************************************************)
EXTENDS Gateway, TLAPS

\* What every step preserves: the types, and that an entry names a living
\* connection that goes by its number.  EntriesAreLive is what makes the
\* guard's removal reach every entry of a connection that ends.
GatewayInv == GatewayTypeOK /\ EntriesAreLive

\* Registry::remove returns a registry.
LEMMA RemoveType ==
    ASSUME NEW reg \in [Sns -> Conns \cup {NoConn}],
           NEW s, NEW c
    PROVE  Remove(reg, s, c) \in [Sns -> Conns \cup {NoConn}]
BY DEF Remove

\* Registry::remove takes out the entry of s if it is c's, and no other.
LEMMA RemoveEntry ==
    ASSUME NEW reg \in [Sns -> Conns \cup {NoConn}],
           NEW s, NEW c, NEW t \in Sns
    PROVE  Remove(reg, s, c)[t] = IF t = s /\ reg[t] = c THEN NoConn ELSE reg[t]
BY DEF Remove

\* bind leaves c with the entry of s alone, whichever it had before.
LEMMA BindEntry ==
    ASSUME GatewayInv,
           NEW c \in Conns, NEW s \in Sns, bound[c] # s,
           Bind(c, s), NEW t \in Sns
    PROVE  /\ registry' \in [Sns -> Conns \cup {NoConn}]
           /\ bound' = [bound EXCEPT ![c] = s]
           /\ registry'[t] = IF t = s THEN c
                             ELSE IF registry[t] = c THEN NoConn
                             ELSE registry[t]
<1>1. s # NoSn
  BY IdentitiesAssumption
<1>2. /\ registry' = Remove(Register(registry, s, c), bound[c], c)
      /\ bound' = [bound EXCEPT ![c] = s]
  BY <1>1 DEF Bind
<1>3. /\ Register(registry, s, c) \in [Sns -> Conns \cup {NoConn}]
      /\ Register(registry, s, c)[t] = IF t = s THEN c ELSE registry[t]
  BY DEF Register, GatewayInv, GatewayTypeOK
<1>4. registry' \in [Sns -> Conns \cup {NoConn}]
  BY <1>2, <1>3, RemoveType
<1>5. registry'[t] = IF t = bound[c] /\ Register(registry, s, c)[t] = c
                     THEN NoConn ELSE Register(registry, s, c)[t]
  BY <1>2, <1>3, RemoveEntry
<1>6. registry[t] = c => bound[c] = t
  BY GatewayAssumption DEF GatewayInv, EntriesAreLive
<1>7. QED
  BY <1>2, <1>3, <1>4, <1>5, <1>6

\* A connection's end takes out exactly the entries that name it.
LEMMA EndReaderEntry ==
    ASSUME GatewayInv, NEW c \in Conns, EndReader(c), NEW t \in Sns
    PROVE  /\ registry' \in [Sns -> Conns \cup {NoConn}]
           /\ registry'[t] = IF registry[t] = c THEN NoConn ELSE registry[t]
<1>1. registry' = Remove(registry, bound[c], c)
  BY DEF EndReader
<1>2. registry \in [Sns -> Conns \cup {NoConn}]
  BY DEF GatewayInv, GatewayTypeOK
<1>3. registry[t] = c => bound[c] = t
  BY GatewayAssumption DEF GatewayInv, EntriesAreLive
<1>4. QED
  BY <1>1, <1>2, <1>3, RemoveType, RemoveEntry

-----------------------------------------------------------------------------
LEMMA InitInv == GatewayInit => GatewayInv
BY GatewayAssumption
   DEF GatewayInit, GatewayInv, GatewayTypeOK, EntriesAreLive, Frame

\* The queues keep their type and their bound whichever way a send returns.
LEMMA SendType ==
    ASSUME GatewayTypeOK, NEW c \in Conns, NEW f \in Frame, SendReturns(c, f)
    PROVE  /\ queue' \in [Conns -> Seq(Frame)]
           /\ \A d \in Conns : Len(queue'[d]) <= WriteQueue
<1>1. /\ queue \in [Conns -> Seq(Frame)]
      /\ queue[c] \in Seq(Frame)
      /\ \A d \in Conns : Len(queue[d]) <= WriteQueue
  BY DEF GatewayTypeOK
<1>2. CASE queue' = queue
  BY <1>1, <1>2
<1>3. CASE HasRoom(c) /\ queue' = [queue EXCEPT ![c] = Append(queue[c], f)]
  <2>1. Append(queue[c], f) \in Seq(Frame) /\ Len(Append(queue[c], f)) <= WriteQueue
    BY <1>1, <1>3, GatewayAssumption DEF HasRoom
  <2> HIDE DEF HasRoom
  <2>2. QED
    BY <1>1, <1>3, <2>1
<1>4. QED
  BY <1>2, <1>3 DEF SendReturns

\* Steps that leave the registry alone and let no reader and no number go.
LEMMA LiveUnlessEnded ==
    ASSUME EntriesAreLive, UNCHANGED <<registry, bound>>,
           \A c \in Conns : ReaderAlive(c) => ReaderAlive(c)',
           registry \in [Sns -> Conns \cup {NoConn}]
    PROVE  EntriesAreLive'
<1>1. SUFFICES ASSUME NEW s \in Sns, registry[s] # NoConn
               PROVE  ReaderAlive(registry[s])' /\ bound[registry[s]] = s
  BY DEF EntriesAreLive, ReaderAlive
<1>2. registry[s] \in Conns
  BY <1>1
<1>3. ReaderAlive(registry[s]) /\ bound[registry[s]] = s
  BY <1>1 DEF EntriesAreLive
<1>4. QED
  BY <1>2, <1>3 DEF ReaderAlive

LEMMA StepInv == GatewayInv /\ [GatewayNext]_gatewayVars => GatewayInv'
<1> SUFFICES ASSUME GatewayInv, [GatewayNext]_gatewayVars
             PROVE  GatewayInv'
  OBVIOUS
<1> USE GatewayAssumption, IdentitiesAssumption
<1>0. /\ GatewayTypeOK
      /\ EntriesAreLive
      /\ NoCommand \in Frame
  BY DEF GatewayInv, Frame
<1>1. ASSUME NEW c \in Conns, Accept(c)
      PROVE  GatewayInv'
  <2>1. GatewayTypeOK'
    BY <1>0, <1>1 DEF Accept, GatewayTypeOK
  <2>2. \A s \in Sns : registry[s] # c
    BY <1>0, <1>1 DEF Accept, Finished, EntriesAreLive
  <2>3. EntriesAreLive'
    BY <1>0, <1>1, <2>2 DEF Accept, EntriesAreLive, GatewayTypeOK, ReaderAlive
  <2>4. QED
    BY <2>1, <2>3 DEF GatewayInv
<1>2. ASSUME NEW c \in Conns, NEW s \in Sns \cup {NoSn}, Handshake(c, s)
      PROVE  GatewayInv'
  <2>1. CASE s = NoSn \/ bound[c] = s
    <3>1. UNCHANGED <<registry, bound>>
      BY <1>2, <2>1 DEF Handshake, Bind
    <3>2. GatewayTypeOK'
      BY <1>0, <1>2, <3>1 DEF Handshake, GatewayTypeOK
    <3>3. EntriesAreLive'
      BY <1>0, <1>2, <3>1, LiveUnlessEnded DEF Handshake, GatewayTypeOK, ReaderAlive
    <3>4. QED
      BY <3>2, <3>3 DEF GatewayInv
  <2>2. CASE s \in Sns /\ bound[c] # s
    <3>1. \A t \in Sns :
            /\ registry' \in [Sns -> Conns \cup {NoConn}]
            /\ bound' = [bound EXCEPT ![c] = s]
            /\ registry'[t] = IF t = s THEN c
                              ELSE IF registry[t] = c THEN NoConn
                              ELSE registry[t]
      BY <1>2, <2>2, BindEntry DEF Handshake
    <3>2. GatewayTypeOK'
      BY <1>0, <1>2, <2>2, <3>1 DEF Handshake, GatewayTypeOK
    <3>3. \A d \in Conns : ReaderAlive(d) => ReaderAlive(d)'
      BY <1>0, <1>2 DEF Handshake, GatewayTypeOK, ReaderAlive
    <3>4. ReaderAlive(c)'
      BY <1>2, <3>3 DEF Handshake, ReaderAlive
    <3>5. EntriesAreLive'
      <4>1. SUFFICES ASSUME NEW t \in Sns, registry'[t] # NoConn
                     PROVE  ReaderAlive(registry[t])' /\ (bound[registry[t]] = t)'
        BY DEF EntriesAreLive
      <4>2. bound' = [bound EXCEPT ![c] = s] /\ bound \in [Conns -> Sns \cup {NoSn}]
        BY <1>0, <3>1, <4>1 DEF GatewayTypeOK
      <4>3. CASE t = s
        BY <2>2, <3>1, <3>4, <4>2, <4>3 DEF ReaderAlive
      <4>4. CASE t # s
        <5>1. registry'[t] = registry[t] /\ registry[t] # c /\ registry[t] # NoConn
          BY <3>1, <4>1, <4>4
        <5>2. registry[t] \in Conns
          BY <1>0, <5>1 DEF GatewayTypeOK
        <5>3. ReaderAlive(registry[t]) /\ bound[registry[t]] = t
          BY <1>0, <5>1 DEF EntriesAreLive
        <5>4. QED
          BY <3>3, <4>2, <5>1, <5>2, <5>3 DEF ReaderAlive
      <4>5. QED
        BY <4>3, <4>4
    <3>6. QED
      BY <3>2, <3>5 DEF GatewayInv
  <2>3. QED
    BY <2>1, <2>2
<1>3. ASSUME NEW c \in Conns, Ping(c)
      PROVE  GatewayInv'
  <2>1. GatewayTypeOK'
    BY <1>0, <1>3 DEF Ping, GatewayTypeOK
  <2>2. EntriesAreLive'
    BY <1>0, <1>3, LiveUnlessEnded DEF Ping, GatewayTypeOK, ReaderAlive
  <2>3. QED
    BY <2>1, <2>2 DEF GatewayInv
<1>4. ASSUME NEW c \in Conns, Reply(c)
      PROVE  GatewayInv'
  <2>1. /\ queue' \in [Conns -> Seq(Frame)]
        /\ \A d \in Conns : Len(queue'[d]) <= WriteQueue
    BY <1>0, <1>4, SendType DEF Reply
  <2>2. GatewayTypeOK'
    BY <1>0, <1>4, <2>1 DEF Reply, GatewayTypeOK
  <2>3. EntriesAreLive'
    BY <1>0, <1>4, LiveUnlessEnded DEF Reply, GatewayTypeOK, ReaderAlive
  <2>4. QED
    BY <2>2, <2>3 DEF GatewayInv
<1>5. ASSUME NEW c \in Conns, EndReader(c)
      PROVE  GatewayInv'
  <2>1. \A t \in Sns :
          /\ registry' \in [Sns -> Conns \cup {NoConn}]
          /\ registry'[t] = IF registry[t] = c THEN NoConn ELSE registry[t]
    BY <1>5, EndReaderEntry
  <2>2. registry' \in [Sns -> Conns \cup {NoConn}]
    BY <1>0, <1>5, RemoveType DEF EndReader, GatewayTypeOK
  <2>3. GatewayTypeOK'
    BY <1>0, <1>5, <2>2 DEF EndReader, GatewayTypeOK
  <2>4. EntriesAreLive'
    BY <1>0, <1>5, <2>1 DEF EndReader, EntriesAreLive, GatewayTypeOK, ReaderAlive
  <2>5. QED
    BY <2>3, <2>4 DEF GatewayInv
<1>6. ASSUME NEW c \in Conns, WriterStep(c)
      PROVE  GatewayInv'
  <2>1. GatewayTypeOK'
    <3>1. CASE WriterTakes(c)
      BY <1>0, <3>1 DEF WriterTakes, GatewayTypeOK
    <3>2. CASE WriterWrites(c)
      BY <1>0, <3>2 DEF WriterWrites, GatewayTypeOK
    <3>3. CASE WriterFails(c)
      BY <1>0, <3>3 DEF WriterFails, GatewayTypeOK
    <3>4. CASE WriterExits(c)
      BY <1>0, <3>4 DEF WriterExits, GatewayTypeOK
    <3>5. QED
      BY <1>6, <3>1, <3>2, <3>3, <3>4 DEF WriterStep
  <2>2. UNCHANGED <<reader, bound, registry>>
    BY <1>6 DEF WriterStep, WriterTakes, WriterWrites, WriterFails, WriterExits
  <2>3. EntriesAreLive'
    BY <1>0, <2>2, LiveUnlessEnded DEF GatewayTypeOK, ReaderAlive
  <2>4. QED
    BY <2>1, <2>3 DEF GatewayInv
<1>7. ASSUME NEW s \in Sns, TakeHandle(s)
      PROVE  GatewayInv'
  BY <1>0, <1>7, LiveUnlessEnded DEF TakeHandle, GatewayTypeOK, GatewayInv, ReaderAlive
<1>8. ASSUME NEW c \in Conns, SendAndDrop(c)
      PROVE  GatewayInv'
  <2>1. /\ queue' \in [Conns -> Seq(Frame)]
        /\ \A d \in Conns : Len(queue'[d]) <= WriteQueue
    BY <1>0, <1>8, SendType DEF SendAndDrop
  <2>2. GatewayTypeOK'
    BY <1>0, <1>8, <2>1 DEF SendAndDrop, GatewayTypeOK
  <2>3. EntriesAreLive'
    BY <1>0, <1>8, LiveUnlessEnded DEF SendAndDrop, GatewayTypeOK, ReaderAlive
  <2>4. QED
    BY <2>2, <2>3 DEF GatewayInv
<1>9. CASE GatewayTick
  <2>1. GatewayTypeOK'
    BY <1>0, <1>9 DEF GatewayTick, SilenceGrows, GatewayTypeOK
  <2>2. EntriesAreLive'
    BY <1>0, <1>9, LiveUnlessEnded DEF GatewayTick, GatewayTypeOK, ReaderAlive
  <2>3. QED
    BY <2>1, <2>2 DEF GatewayInv
<1>10. CASE ProcessEnds
  BY <1>0, <1>10 DEF ProcessEnds, GatewayInv, GatewayTypeOK, EntriesAreLive
<1>11. CASE UNCHANGED gatewayVars
  BY <1>0, <1>11
     DEF gatewayVars, GatewayInv, GatewayTypeOK, EntriesAreLive, ReaderAlive
<1>12. ASSUME NEW c \in Conns, ReaderStep(c)
       PROVE  GatewayInv'
  BY <1>2, <1>3, <1>4, <1>5, <1>11, <1>12
     DEF ReaderStep, Telemetry, Hangup, WatchdogTrips
<1>13. QED
  BY <1>1, <1>6, <1>7, <1>8, <1>9, <1>10, <1>11, <1>12 DEF GatewayNext

\* The invariant of every behaviour of the gateway.
THEOREM GatewayInvariant == GatewaySpec => []GatewayInv
BY InitInv, StepInv, PTL DEF GatewaySpec

\* Type correctness of the gateway.
THEOREM GatewayTypeCorrect == GatewaySpec => []GatewayTypeOK
<1>1. GatewayInv => GatewayTypeOK
  BY DEF GatewayInv
<1>2. QED
  BY <1>1, GatewayInvariant, PTL

\* A registry entry always names a connection that is being read and goes by
\* that serial number, whatever order handshakes, replacements, moves to
\* another number and hang-ups come in.
THEOREM EntriesAreAlwaysLive == GatewaySpec => []EntriesAreLive
<1>1. GatewayInv => EntriesAreLive
  BY DEF GatewayInv
<1>2. QED
  BY <1>1, GatewayInvariant, PTL

\* What EntriesAreStable says of one step, for one serial number.
EntryIsStable(s) ==
    registry[s] # NoConn =>
        \/ registry'[s] = registry[s]
        \/ bound'[registry[s]] # s
        \/ /\ registry'[s] # NoConn
           /\ bound[registry'[s]] # s
           /\ bound'[registry'[s]] = s

LEMMA StepStable ==
    ASSUME GatewayInv, [GatewayNext]_gatewayVars, NEW s \in Sns
    PROVE  EntryIsStable(s)
<1> USE GatewayAssumption, IdentitiesAssumption
<1>0. /\ GatewayTypeOK
      /\ registry[s] # NoConn => registry[s] \in Conns
  BY DEF GatewayInv, GatewayTypeOK
<1>1. ASSUME UNCHANGED registry PROVE EntryIsStable(s)
  BY <1>1 DEF EntryIsStable
<1>2. ASSUME NEW c \in Conns, NEW n \in Sns \cup {NoSn}, Handshake(c, n)
      PROVE  EntryIsStable(s)
  <2>1. CASE n = NoSn \/ bound[c] = n
    BY <1>1, <1>2, <2>1 DEF Handshake, Bind
  <2>2. CASE n \in Sns /\ bound[c] # n
    <3>1. /\ bound' = [bound EXCEPT ![c] = n]
          /\ registry'[s] = IF s = n THEN c
                            ELSE IF registry[s] = c THEN NoConn
                            ELSE registry[s]
      BY <1>2, <2>2, BindEntry DEF Handshake
    <3>2. bound'[c] = n
      BY <1>0, <3>1 DEF GatewayTypeOK
    <3>3. QED
      BY <2>2, <3>1, <3>2 DEF EntryIsStable
  <2>3. QED
    BY <2>1, <2>2
<1>3. ASSUME NEW c \in Conns, EndReader(c)
      PROVE  EntryIsStable(s)
  <2>1. registry'[s] = IF registry[s] = c THEN NoConn ELSE registry[s]
    BY <1>3, EndReaderEntry
  <2>2. bound'[c] = NoSn
    BY <1>0, <1>3 DEF EndReader, GatewayTypeOK
  <2>3. QED
    BY <2>1, <2>2 DEF EntryIsStable
<1>4. ASSUME NEW c \in Conns, ReaderStep(c)
      PROVE  EntryIsStable(s)
  BY <1>1, <1>2, <1>3, <1>4
     DEF ReaderStep, Ping, Telemetry, Reply, Hangup, WatchdogTrips, gatewayVars
<1>5. CASE ProcessEnds
  BY <1>0, <1>5 DEF ProcessEnds, EntryIsStable
<1>6. ASSUME NEW c \in Conns, Accept(c) \/ WriterStep(c) \/ SendAndDrop(c)
      PROVE  EntryIsStable(s)
  BY <1>1, <1>6 DEF Accept, WriterStep, WriterTakes, WriterWrites, WriterFails,
                    WriterExits, SendAndDrop
<1>7. CASE (\E n \in Sns : TakeHandle(n)) \/ GatewayTick \/ UNCHANGED gatewayVars
  BY <1>1, <1>7 DEF TakeHandle, GatewayTick, gatewayVars
<1>8. QED
  BY <1>4, <1>5, <1>6, <1>7 DEF GatewayNext

\* A robot keeps its registry entry until its own connection stops going by
\* its number or another connection takes the number: no guard of an older
\* connection evicts the one that replaced it.
THEOREM EntriesAreAlwaysStable == GatewaySpec => EntriesAreStable
<1>1. GatewayInv /\ [GatewayNext]_gatewayVars =>
        [\A s \in Sns : EntryIsStable(s)]_gatewayVars
  BY StepStable
<1>2. []GatewayInv /\ [][GatewayNext]_gatewayVars =>
        [][\A s \in Sns : EntryIsStable(s)]_gatewayVars
  BY <1>1, PTL
<1>3. EntriesAreStable <=> [][\A s \in Sns : EntryIsStable(s)]_gatewayVars
  BY DEF EntriesAreStable, EntryIsStable
<1>4. QED
  BY <1>2, <1>3, GatewayInvariant, PTL DEF GatewaySpec
=============================================================================
