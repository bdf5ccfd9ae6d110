---------------------------- MODULE PlatformProofs ----------------------------
(***************************************************************************)
(* Theorems about four of the components that MCPlatform runs one at a     *)
(* time: the Redis connection, the health checks, the migrations and the   *)
(* users' credentials, for every value of their constants.  Each is proved  *)
(* of the component's own steps; the last section takes the results over to *)
(* MCPlatform, whose behaviors are those of a component.                   *)
(***************************************************************************)
EXTENDS MCPlatform, FiniteSetTheorems, TLAPS

-----------------------------------------------------------------------------
(* The Redis connection.                                                    *)

RedisSpec == RedisInit /\ [][RedisNext]_redisVars

ConnStates == {"new", "opening", "open", "closing", "closed"}
Promises == {"none", "waiting", "connected", "failed"}
RedisCheck == [at : {"idle", "config", "connect", "ping", "over"},
               client : 0 .. NumRedisClients, verdict : {"none", "ok", "error"}]

\* A check pings a client only when there is one.
RedisChecksTyped ==
    /\ redisCheck \in [RedisChecks -> RedisCheck]
    /\ \A h \in RedisChecks : redisCheck[h].at = "ping" => redisCheck[h].client # 0

RedisTyped ==
    /\ redisStatus \in {"connected", "disconnected", "connecting", "error"}
    /\ redisClient \in 0 .. NumRedisClients /\ quitting \in 0 .. NumRedisClients
    /\ conn \in [RedisClients -> ConnStates] /\ waitFor \in [RedisClients -> Promises]
    /\ onceConnected \subseteq RedisClients /\ onceError \subseteq RedisClients
    /\ reconnects \in 0 .. MaxReconnectAttempts
    /\ RedisChecksTyped
    /\ leaked \in BOOLEAN

\* Who is connected has a client that is, or is about to be closed.
ConnectedClient ==
    redisStatus = "connected" => \E k \in RedisClients : conn[k] \in {"open", "closing"}

\* While no client has been left behind, the one that the service hands out is
\* the only one that may connect, and while it says connected has.
NoneLeftBehind ==
    ~ leaked =>
        /\ \A k \in RedisClients : conn[k] \in {"opening", "open"} => k = redisClient
        /\ redisClient # 0 =>
             /\ \A k \in RedisClients \ {redisClient} : conn[k] \in {"new", "closed"}
             /\ redisStatus = "connected" => conn[redisClient] \in {"open", "closing"}

RedisInv == RedisTyped /\ ConnectedClient /\ NoneLeftBehind

-----------------------------------------------------------------------------
(* The health checks.                                                       *)

HealthSpec == HealthInit /\ [][HealthNext]_healthVars

HealthAt == {"idle", "check", "select", "insert", "update", "log", "over"}

\* A run that has its result and has not stored it yet.
Storing(t) == healthTask[t].at \in {"select", "insert", "update", "log"}

HealthTyped ==
    /\ healthTimer \in BOOLEAN
    /\ healthTask \in [Tasks -> [at : HealthAt, result : Results \cup {NoResult}]]
    /\ \A t \in Tasks : Storing(t) => healthTask[t].result \in Results
    /\ healthRow \in [HealthNames -> Results \cup {NoResult}]
    /\ healthLog \in [HealthNames -> SUBSET Results]
    /\ healthMade \in [HealthNames -> Nat]
    /\ healthErrors \in 0 .. MaxHealthErrors

\* The runs of a check that have made their result: as many as there are results.
Made(n) == {c \in HealthCalls : healthTask[<<c, n>>].at \notin {"idle", "check"}}

ResultsCounted(n) == healthMade[n] = Cardinality(Made(n))

\* A check is logged after its row was written, and an update follows an insert.
LoggedHasRow(n) ==
    /\ healthLog[n] # {} => healthRow[n] # NoResult
    /\ \A c \in HealthCalls :
         healthTask[<<c, n>>].at \in {"update", "log"} => healthRow[n] # NoResult

\* One run at a time, of a check whose runs have not overlapped.
OneRun(n) ==
    n \notin healthRaced => \A c, d \in UnderWay(n) : c = d

\* While it has a result to store, that is the last, and the ones in the log are
\* older; before and after, the row and the log show the last.
LastResult(n) ==
    healthErrors = 0 /\ n \notin healthRaced =>
        /\ \A r \in healthLog[n] : r.made <= healthRow[n].made /\ r.made <= healthMade[n]
        /\ \A r, q \in healthLog[n] : r.made = q.made => r = q
        /\ \A c \in HealthCalls : Storing(<<c, n>>) =>
             /\ healthTask[<<c, n>>].result.made = healthMade[n]
             /\ \A r \in healthLog[n] : r.made < healthMade[n]
             /\ healthTask[<<c, n>>].at = "insert" => healthRow[n] = NoResult
             /\ healthTask[<<c, n>>].at = "log" => healthRow[n] = healthTask[<<c, n>>].result
        /\ healthMade[n] > 0 /\ (\A c \in HealthCalls : ~ Storing(<<c, n>>)) =>
             healthRow[n] \in healthLog[n] /\ healthRow[n].made = healthMade[n]

HealthInv ==
    /\ HealthTyped
    /\ \A n \in HealthNames : /\ ResultsCounted(n) /\ LoggedHasRow(n)
                              /\ OneRun(n) /\ LastResult(n)

-----------------------------------------------------------------------------
(* The migrations.                                                          *)

MigSpec == MigInit /\ [][MigNext]_migVars

Instance == [at : {"idle", "ensure", "list", "migrate", "record", "rls", "over"},
             pending : SUBSET MigrationIds, ok : BOOLEAN, next : 1 .. NumPolicies + 1]

MigTyped ==
    /\ migTable \in {"none", "service", "script"}
    /\ migRow \in [MigrationIds -> {"none", "applied", "failed"}]
    /\ migDone \subseteq MigrationIds /\ migRefused \subseteq MigrationIds
    /\ migRuns \in [MigrationIds -> Nat]
    /\ scriptRow \in BOOLEAN /\ apiColumns \in BOOLEAN /\ apiIndexes \in BOOLEAN
    /\ migrating \in BOOLEAN
    /\ policies \subseteq 1 .. NumPolicies
    /\ instance \in [Instances -> Instance]
    /\ script \in [Scripts -> {"idle", "ensure", "applied", "column", "alter", "index",
                               "record", "over"}]
    /\ migFaults \in Nat

Migrates(m) == instance[m].at \in {"migrate", "record"}
UnderWayInstance(m) == instance[m].at \notin {"idle", "over"}
NextOf(m) == NextPending(instance[m].pending)

\* Migrations take effect in order, and have when their row says so.
DoneInOrder ==
    /\ \A i \in migDone : \A j \in 1 .. i : j \in migDone
    /\ \A i \in MigrationIds : migRow[i] = "applied" => i \in migDone

\* What an instance has left to run starts at its first migration that has not
\* taken effect; one that it has run and is to record has, or was refused.
PendingInOrder(m) ==
    Migrates(m) =>
        /\ instance[m].pending # {}
        /\ \A i \in MigrationIds \ instance[m].pending : i \in migDone
        /\ instance[m].at = "record" =>
             NextOf(m) \in (IF instance[m].ok THEN migDone ELSE migRefused)

\* Instances that do not overlap find what they have left to run unapplied.
OneInstance ==
    ~ migrating =>
        /\ \A m, o \in Instances : UnderWayInstance(m) /\ UnderWayInstance(o) => m = o
        /\ \A m \in Instances : Migrates(m) =>
             \A i \in instance[m].pending : migRow[i] # "applied"

\* Then a migration has been run once at most, and is recorded once it has.
RunOnce(i) ==
    ~ migrating /\ migFaults = 0 /\ i \notin migRefused =>
        /\ migRuns[i] <= 1
        /\ migRuns[i] = 1 => \/ migRow[i] = "applied"
                             \/ \E m \in Instances : instance[m].at = "record" /\ NextOf(m) = i

\* The script records its columns once they are there, and its indexes follow
\* them unless a statement fails.
ScriptInOrder ==
    /\ scriptRow => apiColumns
    /\ \A s \in Scripts : script[s] \in {"index", "record"} => apiColumns
    /\ migFaults = 0 /\ apiColumns => apiIndexes \/ \E s \in Scripts : script[s] = "index"

MigInv ==
    /\ MigTyped /\ DoneInOrder /\ OneInstance /\ ScriptInOrder
    /\ \A m \in Instances : PendingInOrder(m)
    /\ \A i \in MigrationIds : RunOnce(i)

-----------------------------------------------------------------------------
(* The credentials of users.                                                *)

CredSpec == CredInit /\ [][CredNext]_credVars

CredRow == [state : {"none", "active", "inactive", "gone"}, user : CredUsers \cup {"none"},
            name : CredNames \cup {"none"}, touched : 0 .. MaxCredOps]
CredOpNames == {"none", "add", "get", "getByService", "update", "delete", "hardDelete"}
CredCall == [at : {"idle", "write", "log"}, op : CredOpNames, number : 0 .. MaxCredOps,
             id : 0 .. NumCredentials, user : CredUsers \cup {"none"}]

\* The calls that are to write a row, each of which will touch it once.
Writing == {c \in CredCallers : credCall[c].at = "write"}

CredEntry == [number : CredOps, id : CredIds]

CredTyped ==
    /\ credRow \in [CredIds -> CredRow]
    /\ credCall \in [CredCallers -> CredCall]
    /\ credOps \in 0 .. MaxCredOps
    /\ credChanged \subseteq CredEntry /\ credLogged \subseteq CredEntry
    /\ credUnread \subseteq CredEntry
    /\ credDeleted \subseteq CredIds
    /\ credErrors \in Nat

TouchesCounted ==
    /\ IsFiniteSet(Writing) /\ Cardinality(Writing) <= credOps
    /\ \A i \in CredIds : credRow[i].touched + Cardinality(Writing) <= credOps

\* Deleted rows stay so, and one that is gone was deleted.
DeletedStay ==
    \A i \in CredIds : /\ i \in credDeleted => credRow[i].state \in {"inactive", "gone"}
                       /\ credRow[i].state = "gone" => i \in credDeleted

\* The row that a call has selected is still its user's unless it is gone; a
\* call that logs a change that it did not make found its row gone.
CallCurrent(c) ==
    /\ credCall[c].at # "idle" => Entry(credCall[c]) \in CredEntry
    /\ credCall[c].at = "write" =>
         /\ credCall[c].op \notin {"none", "add"}
         /\ credCall[c].id \in CredIds
         /\ credRow[credCall[c].id].user = credCall[c].user
         /\ credRow[credCall[c].id].state # "none"
    /\ credCall[c].at = "log" =>
         Entry(credCall[c]) \in credChanged \/ credRow[credCall[c].id].state = "gone"

ChangesLogged ==
    /\ \A e \in credLogged \ credChanged : credRow[e.id].state = "gone"
    /\ credErrors = 0 =>
         \A e \in credChanged \ credLogged :
             \/ e \in credUnread
             \/ \E c \in CredCallers : credCall[c].at = "log" /\ Entry(credCall[c]) = e

CredInv ==
    /\ CredTyped /\ TouchesCounted /\ DeletedStay /\ ChangesLogged
    /\ \A c \in CredCallers : CallCurrent(c)

-----------------------------------------------------------------------------
(* The Redis connection.                                                    *)

LEMMA RedisInvInit == RedisInit => RedisInv
<1> SUFFICES ASSUME RedisInit
             PROVE  RedisInv
  OBVIOUS
<1>1. 0 \in 0 .. NumRedisClients /\ 0 \in 0 .. MaxReconnectAttempts
  BY RedisAssumption
<1>2. [at |-> "idle", client |-> 0, verdict |-> "none"] \in RedisCheck
  BY <1>1 DEF RedisCheck
<1>3. RedisTyped
  BY <1>1, <1>2 DEF RedisInit, RedisTyped, RedisChecksTyped, ConnStates, Promises
<1>4. ConnectedClient /\ NoneLeftBehind
  BY DEF RedisInit, ConnectedClient, NoneLeftBehind
<1>5. QED
  BY <1>3, <1>4 DEF RedisInv

(* The promises that settle keep their type.                                *)
LEMMA SettleTyped ==
    ASSUME waitFor \in [RedisClients -> Promises], NEW ks, NEW outcome \in Promises,
           Settle(ks, outcome)
    PROVE  waitFor' \in [RedisClients -> Promises]
  BY DEF Settle

(* A check that moves on keeps its type.                                    *)
LEMMA CheckMoves ==
    ASSUME RedisTyped, NEW h \in RedisChecks,
           \/ \E label \in {"config", "connect", "ping"}, k \in 0 .. NumRedisClients :
                (label = "ping" => k # 0) /\ CheckGoto(h, label, k)
           \/ \E verdict \in {"ok", "error"} : CheckOver(h, verdict)
           \/ PingOrGiveUp(h)
    PROVE  RedisChecksTyped'
<1> USE DEF RedisChecksTyped
<1>1. RedisChecksTyped /\ redisClient \in 0 .. NumRedisClients
  BY DEF RedisTyped
<1>2. ASSUME NEW label \in {"config", "connect", "ping"}, NEW k \in 0 .. NumRedisClients,
             (label = "ping" => k # 0) /\ CheckGoto(h, label, k)
      PROVE  RedisChecksTyped'
  BY <1>1, <1>2 DEF CheckGoto, RedisCheck
<1>3. ASSUME NEW verdict \in {"ok", "error"}, CheckOver(h, verdict)
      PROVE  RedisChecksTyped'
  BY <1>1, <1>3 DEF CheckOver, RedisCheck
<1>4. CASE PingOrGiveUp(h)
  BY <1>1, <1>2, <1>3, <1>4 DEF PingOrGiveUp
<1>5. QED
  BY <1>2, <1>3, <1>4

(* A new client takes the place of the old, or leaves one behind.           *)
LEMMA ConnectKeeps ==
    ASSUME RedisInv, NEW k \in RedisClients, Connect(k),
           RedisChecksTyped',
           reconnects' = reconnects, quitting' = quitting
    PROVE  RedisInv'
<1>1. k # 0 /\ k \in 0 .. NumRedisClients
  BY RedisAssumption DEF RedisClients
<1>2. leaked' = (leaked \/ \E j \in RedisClients : conn[j] \notin {"new", "closed"})
  BY DEF Connect
<1>3. leaked' \in BOOLEAN
  BY <1>2, Zenon
<1>4. RedisTyped'
  BY <1>1, <1>3 DEF RedisInv, RedisTyped, Connect, ConnStates, Promises
<1>5. ConnectedClient'
  BY DEF ConnectedClient, Connect
<1>6. ASSUME ~ leaked'
      PROVE  \A j \in RedisClients : conn[j] \in {"new", "closed"}
  BY <1>2, <1>6, Zenon
<1>7. NoneLeftBehind'
  <2>1. /\ conn' = [conn EXCEPT ![k] = "opening"] /\ redisClient' = k
        /\ redisStatus' = "connecting" /\ conn \in [RedisClients -> ConnStates]
    BY DEF Connect, RedisInv, RedisTyped
  <2>2. QED
    BY <1>6, <2>1 DEF NoneLeftBehind
<1>8. QED
  BY <1>4, <1>5, <1>7 DEF RedisInv

LEMMA RedisInvStep ==
    ASSUME RedisInv, [RedisNext]_redisVars
    PROVE  RedisInv'
<1> USE DEF RedisInv
<1>1. ASSUME NEW k \in RedisClients, ConnectionTimesOut(k)
      PROVE  RedisInv'
  <2>1. waitFor' \in [RedisClients -> Promises]
    BY <1>1, SettleTyped DEF ConnectionTimesOut, RedisTyped, RedisChecksTyped, Promises
  <2>2. RedisTyped'
    BY <1>1, <2>1 DEF ConnectionTimesOut, RedisTyped, RedisChecksTyped
  <2>3. QED
    BY <1>1, <2>2 DEF ConnectionTimesOut, ConnectedClient, NoneLeftBehind
<1>2. ASSUME NEW k \in RedisClients, HandleConnect(k)
      PROVE  RedisInv'
  <2>1. waitFor' \in [RedisClients -> Promises]
    BY <1>2, SettleTyped DEF HandleConnect, RedisTyped, RedisChecksTyped, Promises
  <2>2. /\ conn[k] = "opening" /\ conn' = [conn EXCEPT ![k] = "open"]
        /\ conn \in [RedisClients -> ConnStates]
        /\ redisClient' = redisClient /\ leaked' = leaked
    BY <1>2 DEF HandleConnect, RedisTyped, RedisChecksTyped
  <2>3. 0 \in 0 .. MaxReconnectAttempts
    BY RedisAssumption
  <2>4. RedisTyped'
    BY <1>2, <2>1, <2>3 DEF HandleConnect, RedisTyped, RedisChecksTyped, ConnStates
  <2>5. ConnectedClient'
    BY <2>2 DEF ConnectedClient
  <2>6. NoneLeftBehind'
    BY <2>2 DEF NoneLeftBehind
  <2>7. QED
    BY <2>4, <2>5, <2>6
<1>3. ASSUME NEW k \in RedisClients, HandleError(k)
      PROVE  RedisInv'
  <2>1. waitFor' \in [RedisClients -> Promises]
    BY <1>3, SettleTyped DEF HandleError, RedisTyped, RedisChecksTyped, Promises
  <2>2. /\ conn[k] \in {"opening", "open"} /\ conn' = [conn EXCEPT ![k] = "closing"]
        /\ conn \in [RedisClients -> ConnStates] /\ redisStatus' = redisStatus
        /\ redisClient' = redisClient /\ leaked' = leaked
    BY <1>3 DEF HandleError, RedisTyped, RedisChecksTyped
  <2>3. RedisTyped'
    BY <1>3, <2>1 DEF HandleError, RedisTyped, RedisChecksTyped, ConnStates
  <2>4. ConnectedClient'
    BY <2>2 DEF ConnectedClient
  <2>5. NoneLeftBehind'
    BY <2>2 DEF NoneLeftBehind
  <2>6. QED
    BY <2>3, <2>4, <2>5
<1>4. ASSUME NEW k \in RedisClients, HandleDisconnect(k)
      PROVE  RedisInv'
  <2>1. /\ conn[k] \in {"open", "closing"} /\ conn' = [conn EXCEPT ![k] = "closed"]
        /\ conn \in [RedisClients -> ConnStates]
        /\ redisClient' = redisClient /\ leaked' = leaked
    BY <1>4 DEF HandleDisconnect, RedisTyped, RedisChecksTyped
  <2>2. redisStatus' = IF redisStatus = "connected" THEN "disconnected" ELSE redisStatus
    BY <1>4 DEF HandleDisconnect, WasConnected
  <2>3. reconnects' \in 0 .. MaxReconnectAttempts
    BY <1>4, RedisAssumption DEF HandleDisconnect, RedisTyped, RedisChecksTyped, AttemptsUsedUp
  <2>4. RedisTyped'
    BY <1>4, <2>1, <2>2, <2>3
       DEF HandleDisconnect, redisListeners, RedisTyped, RedisChecksTyped, ConnStates
  <2>5. ConnectedClient' /\ NoneLeftBehind'
    BY <2>1, <2>2 DEF ConnectedClient, NoneLeftBehind
  <2>6. QED
    BY <2>4, <2>5
<1>5. ASSUME UNCHANGED <<redisStatus, redisClient, conn, redisListeners, leaked>>,
             reconnects' = reconnects, quitting' \in {quitting, redisClient},
             RedisChecksTyped'
      PROVE  RedisInv'
  <2>1. RedisTyped'
    BY <1>5 DEF RedisTyped, RedisChecksTyped, redisListeners
  <2>2. QED
    BY <1>5, <2>1 DEF ConnectedClient, NoneLeftBehind
<1>6. CASE ReconnectTimerFires
  <2>1. RedisChecksTyped' /\ reconnects' = reconnects /\ quitting' = quitting
    BY <1>6 DEF ReconnectTimerFires, RedisTyped, RedisChecksTyped
  <2>2. CASE UNCHANGED <<redisStatus, redisClient, conn, redisListeners, leaked>>
    BY <1>5, <2>1, <2>2
  <2>3. CASE \E k \in RedisClients : Connect(k)
    BY <2>1, <2>3, ConnectKeeps
  <2>4. QED
    BY <1>6, <2>2, <2>3 DEF ReconnectTimerFires
<1>7. ASSUME NEW h \in RedisChecks, CheckRedisHealth(h)
      PROVE  RedisInv'
  <2>1. 0 \in 0 .. NumRedisClients
    BY RedisAssumption
  <2>2. RedisChecksTyped'
    BY <1>7, <2>1, CheckMoves DEF CheckRedisHealth
  <2>3. QED
    BY <1>5, <1>7, <2>2 DEF CheckRedisHealth
<1>8. ASSUME NEW h \in RedisChecks, InitializeRedis(h)
      PROVE  RedisInv'
  <2>1. reconnects' = reconnects /\ quitting' = quitting
    BY <1>8 DEF InitializeRedis
  <2>2. ASSUME NEW k \in RedisClients, Connect(k), CheckGoto(h, "connect", k)
        PROVE  RedisInv'
    <3>1. k \in 0 .. NumRedisClients
      BY RedisAssumption DEF RedisClients
    <3>2. RedisChecksTyped'
      BY <2>2, <3>1, CheckMoves
    <3>3. QED
      BY <2>1, <2>2, <3>2, ConnectKeeps
  <2>3. ASSUME PingOrGiveUp(h),
               UNCHANGED <<redisStatus, redisClient, conn, redisListeners, leaked>>
        PROVE  RedisInv'
    BY <1>5, <2>1, <2>3, CheckMoves
  <2>4. QED
    BY <1>8, <2>2, <2>3 DEF InitializeRedis
<1>9. ASSUME NEW h \in RedisChecks, RedisInitialized(h)
      PROVE  RedisInv'
  <2>1. RedisChecksTyped'
    BY <1>9, CheckMoves DEF RedisInitialized
  <2>2. QED
    BY <1>5, <1>9, <2>1 DEF RedisInitialized
<1>10. ASSUME NEW h \in RedisChecks, PingAnswered(h)
       PROVE  RedisInv'
  <2> DEFINE k == redisCheck[h].client
  <2>1. k \in 0 .. NumRedisClients
    BY DEF RedisTyped, RedisChecksTyped, RedisCheck
  <2>2. RedisChecksTyped'
    BY <1>10, CheckMoves DEF PingAnswered
  <2>3. /\ redisClient' = redisClient /\ conn' = conn /\ leaked' = leaked
        /\ \/ conn[k] = "open" /\ redisStatus' = "connected"
           \/ redisStatus' = "error"
    BY <1>10 DEF PingAnswered
  <2>4. RedisTyped'
    BY <1>10, <2>2, <2>3 DEF PingAnswered, redisListeners, RedisTyped, RedisChecksTyped
  <2>5. redisStatus' = "connected" => k \in RedisClients /\ conn[k] = "open"
    <3>1. k # 0
      BY <1>10 DEF PingAnswered, RedisTyped, RedisChecksTyped
    <3>2. QED
      BY <2>1, <2>3, <3>1, RedisAssumption DEF RedisClients
  <2>6. ConnectedClient' /\ NoneLeftBehind'
    BY <2>3, <2>5 DEF ConnectedClient, NoneLeftBehind
  <2>7. QED
    BY <2>4, <2>6
<1>11. CASE CloseRedis
  <2>1. RedisChecksTyped'
    BY <1>11 DEF CloseRedis, RedisTyped, RedisChecksTyped
  <2>2. QED
    BY <1>5, <1>11, <2>1 DEF CloseRedis
<1>12. CASE RedisQuits
  <2>1. /\ conn' = [conn EXCEPT ![quitting] = IF @ = "closed" THEN @ ELSE "closing"]
        /\ redisClient' = 0 /\ redisStatus' = "disconnected" /\ quitting' = 0
        /\ leaked' = (leaked \/ redisClient # quitting)
        /\ conn \in [RedisClients -> ConnStates] /\ quitting \in RedisClients
    BY <1>12, RedisAssumption DEF RedisQuits, RedisTyped, RedisChecksTyped, RedisClients
  <2>2. leaked' \in BOOLEAN
    BY <2>1, Zenon
  <2>3. 0 \in 0 .. NumRedisClients
    BY RedisAssumption
  <2>4. RedisTyped'
    BY <1>12, <2>1, <2>2, <2>3 DEF RedisQuits, redisListeners, RedisTyped, RedisChecksTyped, ConnStates
  <2>5. ~ leaked' => ~ leaked /\ redisClient = quitting
    BY <2>1, Zenon
  <2>6. ConnectedClient'
    BY <2>1 DEF ConnectedClient
  <2>7. NoneLeftBehind'
    BY <2>1, <2>5 DEF NoneLeftBehind
  <2>8. QED
    BY <2>4, <2>6, <2>7
<1>13. CASE UNCHANGED redisVars
  <2>1. UNCHANGED <<redisStatus, redisClient, conn, redisListeners, leaked, reconnects, quitting,
                    redisCheck>>
    BY <1>13 DEF redisVars, redisListeners
  <2>2. RedisChecksTyped'
    BY <2>1 DEF RedisTyped, RedisChecksTyped
  <2>3. QED
    BY <1>5, <2>1, <2>2
<1>14. QED
  BY <1>1, <1>2, <1>3, <1>4, <1>6, <1>7, <1>8, <1>9, <1>10, <1>11, <1>12, <1>13 DEF RedisNext

LEMMA RedisInvAlways == RedisSpec => []RedisInv
  BY RedisInvInit, RedisInvStep, PTL DEF RedisSpec

(* The Redis service keeps to its types: no more reconnections are counted  *)
(* than allowed, and a check's verdict is one of those the route knows.     *)
THEOREM RedisTypeCorrect == RedisSpec => []RedisTypeOK
<1>1. RedisInv => RedisTypeOK
  BY DEF RedisInv, RedisTyped, RedisChecksTyped, RedisTypeOK, RedisCheck, ConnStates, Promises
<1>2. QED
  BY <1>1, RedisInvAlways, PTL

(* Whatever the events of however many clients come to, in whatever order,   *)
(* redisService says connected only while some client of its own has not     *)
(* been closed, and hands out a client that is, unless one was left behind.  *)
THEOREM RedisHonest == RedisSpec => []RedisStatusHonest
<1>1. ASSUME RedisInv
      PROVE  RedisStatusHonest
  BY <1>1 DEF RedisInv, ConnectedClient, NoneLeftBehind, RedisStatusHonest, RedisAvailable
<1>2. QED
  BY <1>1, RedisInvAlways, PTL

-----------------------------------------------------------------------------
(* The health checks.                                                       *)

TaskRecord == [at : HealthAt, result : Results \cup {NoResult}]

Checked(n) == ResultsCounted(n) /\ LoggedHasRow(n) /\ OneRun(n) /\ LastResult(n)

LEMMA ResultsOfChecks ==
    /\ \A r \in Results : r # NoResult /\ r.made \in Nat /\ r.made > 0
    /\ \A c \in HealthCalls, n \in HealthNames : <<c, n>> \in Tasks
<1>1. Cardinality(HealthCalls) \in Nat
  BY HealthAssumption, FS_CardinalityType
<1>2. QED
  BY <1>1 DEF Results, NoResult, Tasks

LEMMA HealthInvInit == HealthInit => HealthInv
<1> SUFFICES ASSUME HealthInit
             PROVE  HealthInv
  OBVIOUS
<1>1. /\ healthTask = [t \in Tasks |-> [at |-> "idle", result |-> NoResult]]
      /\ healthRow = [n \in HealthNames |-> NoResult]
      /\ healthLog = [n \in HealthNames |-> {}] /\ healthMade = [n \in HealthNames |-> 0]
      /\ healthRaced = {} /\ healthErrors = 0 /\ healthTimer = FALSE
  BY DEF HealthInit
<1>2. 0 \in 0 .. MaxHealthErrors
  BY HealthAssumption
<1>3. [at |-> "idle", result |-> NoResult] \in TaskRecord
  BY DEF TaskRecord, HealthAt
<1>4. HealthTyped
  BY <1>1, <1>2, <1>3 DEF HealthTyped, TaskRecord, Storing
<1>5. ASSUME NEW n \in HealthNames
      PROVE  Checked(n)
  <2>1. \A c \in HealthCalls : healthTask[<<c, n>>].at = "idle"
    BY <1>1, ResultsOfChecks
  <2>2. healthLog[n] = {} /\ healthMade[n] = 0
    BY <1>1
  <2>3. Made(n) = {} /\ UnderWay(n) = {}
    BY <2>1 DEF Made, UnderWay
  <2>4. ResultsCounted(n)
    BY <2>2, <2>3, FS_EmptySet DEF ResultsCounted
  <2>5. QED
    BY <2>1, <2>2, <2>3, <2>4 DEF Checked, LoggedHasRow, OneRun, LastResult, Storing
<1>6. QED
  BY <1>4, <1>5 DEF HealthInv, Checked

(* What holds of a check goes on holding when nothing of it changes but that *)
(* a run begins, and a statement fails of another.                          *)
LEMMA QuietCheck ==
    ASSUME HealthTyped, NEW n \in HealthNames, Checked(n),
           healthRow'[n] = healthRow[n], healthLog'[n] = healthLog[n],
           healthMade'[n] = healthMade[n],
           healthErrors' = 0 => healthErrors = 0,
           healthRaced \subseteq healthRaced',
           \A c \in HealthCalls :
               \/ healthTask'[<<c, n>>] = healthTask[<<c, n>>]
               \/ healthTask[<<c, n>>].at = "idle" /\ healthTask'[<<c, n>>].at = "check",
           OneRun(n)'
    PROVE  Checked(n)'
<1>1. Made(n)' = Made(n)
  BY DEF Made
<1>2. ResultsCounted(n)'
  BY <1>1 DEF Checked, ResultsCounted
<1>3. LoggedHasRow(n)'
  BY DEF Checked, LoggedHasRow
<1>4. \A c \in HealthCalls :
        /\ Storing(<<c, n>>)' <=> Storing(<<c, n>>)
        /\ Storing(<<c, n>>) => healthTask'[<<c, n>>] = healthTask[<<c, n>>]
  BY DEF Storing
<1>5. LastResult(n)'
  BY <1>4 DEF Checked, LastResult
<1>6. QED
  BY <1>2, <1>3, <1>5 DEF Checked

(* A run that begins is alone, or its check is marked as raced.             *)
LEMMA BeginChecksStep ==
    ASSUME HealthInv, NEW c \in HealthCalls, NEW names \in SUBSET HealthNames,
           BeginChecks(c, names)
    PROVE  HealthInv'
<1>1. /\ healthTask' = [t \in Tasks |-> IF t[1] = c /\ t[2] \in names
                                        THEN [healthTask[t] EXCEPT !.at = "check"]
                                        ELSE healthTask[t]]
      /\ \A n \in HealthNames : healthTask[<<c, n>>].at = "idle"
      /\ healthRaced' = healthRaced \cup {n \in names : UnderWay(n) # {}}
      /\ UNCHANGED <<healthTimer, healthRow, healthLog, healthMade, healthErrors>>
  BY DEF BeginChecks
<1>2. HealthTyped /\ \A n \in HealthNames : Checked(n)
  BY DEF HealthInv, Checked
<1>3. healthTask \in [Tasks -> TaskRecord]
  BY <1>2 DEF HealthTyped, TaskRecord
<1>4. ASSUME NEW d \in HealthCalls, NEW n \in HealthNames
      PROVE  /\ d = c /\ n \in names => /\ healthTask[<<d, n>>].at = "idle"
                                        /\ healthTask'[<<d, n>>].at = "check"
             /\ ~ (d = c /\ n \in names) => healthTask'[<<d, n>>] = healthTask[<<d, n>>]
  <2>1. <<d, n>> \in Tasks
    BY ResultsOfChecks
  <2>2. healthTask[<<d, n>>] \in TaskRecord
    BY <1>3, <2>1
  <2>3. QED
    BY <1>1, <2>1, <2>2 DEF TaskRecord
<1>5. healthTask' \in [Tasks -> TaskRecord]
  <2>1. ASSUME NEW t \in Tasks
        PROVE  healthTask'[t] \in TaskRecord
    BY <1>1, <1>3 DEF TaskRecord, HealthAt
  <2>2. QED
    BY <1>1, <2>1
<1>6. \A t \in Tasks : Storing(t)' => healthTask'[t] = healthTask[t]
  <2>1. ASSUME NEW t \in Tasks
        PROVE  healthTask'[t].at = "check" \/ healthTask'[t] = healthTask[t]
    BY <1>1, <1>3 DEF TaskRecord
  <2>2. QED
    BY <2>1 DEF Storing
<1>7. HealthTyped'
  BY <1>1, <1>2, <1>5, <1>6 DEF HealthTyped, TaskRecord, Storing
<1>8. ASSUME NEW n \in HealthNames
      PROVE  OneRun(n)'
  <2>1. CASE n \in names
    <3>1. UnderWay(n)' \subseteq UnderWay(n) \cup {c}
      BY <1>4, <2>1 DEF UnderWay
    <3>2. n \notin healthRaced' => UnderWay(n) = {}
      BY <1>1, <2>1
    <3>3. QED
      BY <3>1, <3>2 DEF OneRun
  <2>2. CASE n \notin names
    <3>1. UnderWay(n)' = UnderWay(n)
      BY <1>4, <2>2 DEF UnderWay
    <3>2. QED
      BY <1>1, <1>2, <3>1 DEF Checked, OneRun
  <2>3. QED
    BY <2>1, <2>2
<1>9. ASSUME NEW n \in HealthNames
      PROVE  Checked(n)'
  <2>1. \A d \in HealthCalls :
          \/ healthTask'[<<d, n>>] = healthTask[<<d, n>>]
          \/ healthTask[<<d, n>>].at = "idle" /\ healthTask'[<<d, n>>].at = "check"
    BY <1>4
  <2>2. QED
    BY <1>1, <1>2, <1>8, <2>1, QuietCheck
<1>10. QED
  BY <1>7, <1>9 DEF HealthInv, Checked

(* A step of one run of one check leaves the others as they are.            *)
LEMMA OneTaskStep ==
    ASSUME HealthInv, NEW c \in HealthCalls, NEW n \in HealthNames,
           healthTask' \in [Tasks -> TaskRecord],
           \A t \in Tasks \ {<<c, n>>} : healthTask'[t] = healthTask[t],
           Storing(<<c, n>>)' => healthTask'[<<c, n>>].result \in Results,
           healthRow' \in [HealthNames -> Results \cup {NoResult}],
           healthLog' \in [HealthNames -> SUBSET Results],
           healthMade' \in [HealthNames -> Nat],
           \A m \in HealthNames \ {n} : /\ healthRow'[m] = healthRow[m]
                                       /\ healthLog'[m] = healthLog[m]
                                       /\ healthMade'[m] = healthMade[m],
           healthErrors' = healthErrors \/ HealthStatementFails,
           UNCHANGED <<healthTimer, healthRaced>>
    PROVE  /\ HealthTyped'
           /\ \A d \in HealthCalls \ {c} : healthTask'[<<d, n>>] = healthTask[<<d, n>>]
           /\ \A m \in HealthNames \ {n} : Checked(m)'
           /\ healthErrors' = 0 => healthErrors = 0
<1>1. HealthTyped /\ \A m \in HealthNames : Checked(m)
  BY DEF HealthInv, Checked
<1>2. healthErrors' \in 0 .. MaxHealthErrors /\ (healthErrors' = 0 => healthErrors = 0)
  BY <1>1, HealthAssumption DEF HealthTyped, HealthStatementFails
<1>3. HealthTyped'
  <2>1. \A t \in Tasks : Storing(t)' => healthTask'[t].result \in Results
    BY <1>1 DEF HealthTyped, Storing
  <2>2. QED
    BY <1>1, <1>2, <2>1 DEF HealthTyped, TaskRecord
<1>4. ASSUME NEW d \in HealthCalls, NEW m \in HealthNames, d # c \/ m # n
      PROVE  healthTask'[<<d, m>>] = healthTask[<<d, m>>]
  <2>1. <<d, m>> \in Tasks /\ <<d, m>> # <<c, n>>
    BY <1>4, ResultsOfChecks
  <2>2. QED
    BY <2>1
<1>5. ASSUME NEW m \in HealthNames \ {n}
      PROVE  Checked(m)'
  <2>1. \A d \in HealthCalls : healthTask'[<<d, m>>] = healthTask[<<d, m>>]
    BY <1>4
  <2>2. UnderWay(m)' = UnderWay(m)
    BY <2>1 DEF UnderWay
  <2>3. OneRun(m)'
    BY <1>1, <2>2 DEF Checked, OneRun
  <2>4. QED
    BY <1>1, <1>2, <2>1, <2>3, QuietCheck
<1>6. QED
  BY <1>2, <1>3, <1>4, <1>5

(* What a task's record becomes, and that the others stay.                  *)
LEMMA TaskBecomes ==
    ASSUME HealthTyped, NEW c \in HealthCalls, NEW n \in HealthNames, NEW r \in TaskRecord,
           healthTask' = [healthTask EXCEPT ![<<c, n>>] = r]
    PROVE  /\ healthTask' \in [Tasks -> TaskRecord] /\ healthTask'[<<c, n>>] = r
           /\ \A t \in Tasks \ {<<c, n>>} : healthTask'[t] = healthTask[t]
  BY ResultsOfChecks DEF HealthTyped, TaskRecord

LEMMA TaskGoes ==
    ASSUME HealthTyped, NEW c \in HealthCalls, NEW n \in HealthNames, NEW label \in HealthAt,
           HealthGoto(<<c, n>>, label)
    PROVE  /\ healthTask' \in [Tasks -> TaskRecord] /\ healthTask'[<<c, n>>].at = label
           /\ healthTask'[<<c, n>>].result = healthTask[<<c, n>>].result
           /\ \A t \in Tasks \ {<<c, n>>} : healthTask'[t] = healthTask[t]
<1> DEFINE r == [healthTask[<<c, n>>] EXCEPT !.at = label]
<1>1. <<c, n>> \in Tasks /\ healthTask \in [Tasks -> TaskRecord]
  BY ResultsOfChecks DEF HealthTyped, TaskRecord
<1>2. healthTask[<<c, n>>] \in TaskRecord
  BY <1>1
<1>3. r \in TaskRecord /\ r.at = label /\ r.result = healthTask[<<c, n>>].result
  BY <1>2 DEF TaskRecord
<1>4. healthTask' = [healthTask EXCEPT ![<<c, n>>] = r]
  BY DEF HealthGoto
<1> HIDE DEF r
<1>5. /\ healthTask' \in [Tasks -> TaskRecord] /\ healthTask'[<<c, n>>] = r
      /\ \A t \in Tasks \ {<<c, n>>} : healthTask'[t] = healthTask[t]
  BY <1>3, <1>4, TaskBecomes
<1>6. QED
  BY <1>3, <1>5

(* A run that has its result keeps the count of results; and it is the only *)
(* one that may be storing one, if its check's runs have not overlapped.     *)
LEMMA StoringAlone ==
    ASSUME HealthInv, NEW c \in HealthCalls, NEW n \in HealthNames,
           healthTask[<<c, n>>].at \notin {"idle", "over"}, n \notin healthRaced
    PROVE  \A d \in HealthCalls \ {c} : healthTask[<<d, n>>].at \in {"idle", "over"}
  BY DEF HealthInv, OneRun, UnderWay

LEMMA StoringGoesOn ==
    ASSUME HealthInv, NEW c \in HealthCalls, NEW n \in HealthNames, Storing(<<c, n>>),
           healthTask'[<<c, n>>].at \in {"select", "insert", "update", "log", "over"},
           \A d \in HealthCalls \ {c} : healthTask'[<<d, n>>] = healthTask[<<d, n>>],
           healthMade'[n] = healthMade[n], healthRaced' = healthRaced
    PROVE  ResultsCounted(n)' /\ OneRun(n)'
<1>1. Made(n)' = Made(n) /\ UnderWay(n)' \subseteq UnderWay(n)
  BY DEF Made, UnderWay, Storing
<1>2. QED
  BY <1>1 DEF HealthInv, ResultsCounted, OneRun

LEMMA CheckMadeStep ==
    ASSUME HealthInv, NEW c \in HealthCalls, NEW n \in HealthNames, CheckMade(c, n)
    PROVE  HealthInv'
<1>1. PICK status \in HealthResults[n] :
        healthTask' = [healthTask EXCEPT
            ![<<c, n>>] = [at |-> "select",
                           result |-> [status |-> status, made |-> healthMade[n] + 1]]]
  BY DEF CheckMade
<1> DEFINE made == [status |-> status, made |-> healthMade[n] + 1]
           r == [at |-> "select", result |-> made]
<1>2. /\ healthTask[<<c, n>>].at = "check" /\ healthMade' = [healthMade EXCEPT ![n] = @ + 1]
      /\ UNCHANGED <<healthTimer, healthRow, healthLog, healthRaced, healthErrors>>
  BY DEF CheckMade
<1>3. HealthTyped /\ \A m \in HealthNames : Checked(m)
  BY DEF HealthInv, Checked
<1>4. status \in {"ok", "warning", "error"}
  <2>1. n \in DOMAIN HealthResults
    BY HealthAssumption
  <2>2. QED
    BY <1>1, <2>1 DEF HealthResults
<1>5. /\ IsFiniteSet(Made(n)) /\ c \notin Made(n)
      /\ Cardinality(Made(n) \cup {c}) = healthMade[n] + 1
      /\ Cardinality(Made(n) \cup {c}) <= Cardinality(HealthCalls)
      /\ healthMade[n] \in Nat /\ Cardinality(HealthCalls) \in Nat
  <2>1. Made(n) \subseteq HealthCalls /\ Made(n) \cup {c} \subseteq HealthCalls /\ c \notin Made(n)
    BY <1>2 DEF Made
  <2>2. healthMade[n] = Cardinality(Made(n))
    BY <1>3 DEF Checked, ResultsCounted
  <2>3. QED
    BY <2>1, <2>2, HealthAssumption, FS_Subset, FS_AddElement, FS_CardinalityType
<1>6. made \in Results
  BY <1>4, <1>5 DEF Results
<1>7. r \in TaskRecord
  BY <1>6 DEF TaskRecord, HealthAt
<1>8. /\ healthRow' \in [HealthNames -> Results \cup {NoResult}]
      /\ healthLog' \in [HealthNames -> SUBSET Results]
      /\ healthRow' = healthRow /\ healthLog' = healthLog
  BY <1>2, <1>3 DEF HealthTyped
<1>9. /\ healthMade' \in [HealthNames -> Nat] /\ healthMade'[n] = healthMade[n] + 1
      /\ \A m \in HealthNames \ {n} : healthMade'[m] = healthMade[m]
  BY <1>2, <1>3 DEF HealthTyped
<1>10. /\ HealthTyped' /\ healthTask'[<<c, n>>] = r
       /\ \A d \in HealthCalls \ {c} : healthTask'[<<d, n>>] = healthTask[<<d, n>>]
       /\ \A m \in HealthNames \ {n} : Checked(m)'
  <2>1. /\ healthTask' \in [Tasks -> TaskRecord] /\ healthTask'[<<c, n>>] = r
        /\ \A t \in Tasks \ {<<c, n>>} : healthTask'[t] = healthTask[t]
    <3> HIDE DEF r
    <3>1. healthTask' = [healthTask EXCEPT ![<<c, n>>] = r]
      BY <1>1 DEF r
    <3>2. QED
      BY <1>3, <1>7, <3>1, TaskBecomes
  <2>2. healthTask'[<<c, n>>].result \in Results
    BY <1>6, <2>1
  <2>3. healthErrors' = healthErrors /\ UNCHANGED <<healthTimer, healthRaced>>
    BY <1>2
  <2>4. QED
    BY <1>8, <1>9, <2>1, <2>2, <2>3, OneTaskStep
<1>11. Made(n)' = Made(n) \cup {c} /\ UnderWay(n)' = UnderWay(n)
  BY <1>2, <1>10 DEF Made, UnderWay
<1>12. ResultsCounted(n)' /\ OneRun(n)'
  BY <1>2, <1>3, <1>5, <1>9, <1>11 DEF Checked, ResultsCounted, OneRun
<1>13. LoggedHasRow(n)'
  BY <1>2, <1>3, <1>10 DEF Checked, LoggedHasRow
<1>14. LastResult(n)'
  <2> SUFFICES ASSUME healthErrors = 0, n \notin healthRaced
               PROVE  LastResult(n)'
    BY <1>2 DEF LastResult
  <2>1. \A d \in HealthCalls \ {c} : ~ Storing(<<d, n>>)'
    BY <1>2, <1>10, StoringAlone DEF Storing
  <2>2. Storing(<<c, n>>)'
    BY <1>10 DEF Storing
  <2>3. \A q \in healthLog[n] : q.made \in Nat
    BY <1>3, ResultsOfChecks DEF HealthTyped
  <2>4. QED
    BY <1>2, <1>3, <1>5, <1>10, <1>9, <2>1, <2>2, <2>3 DEF Checked, LastResult
<1>15. QED
  BY <1>10, <1>12, <1>13, <1>14 DEF HealthInv, Checked

(* The run finds whether its check has a row.                               *)
LEMMA SelectCheckStep ==
    ASSUME HealthInv, NEW c \in HealthCalls, NEW n \in HealthNames, SelectCheck(c, n)
    PROVE  HealthInv'
<1>1. HealthTyped /\ \A m \in HealthNames : Checked(m)
  BY DEF HealthInv, Checked
<1>2. /\ healthTask[<<c, n>>].at = "select" /\ Storing(<<c, n>>)
      /\ UNCHANGED <<healthTimer, healthRow, healthLog, healthMade, healthRaced>>
  BY DEF SelectCheck, Storing
<1>3. PICK label \in {"insert", "update", "over"} :
        /\ HealthGoto(<<c, n>>, label)
        /\ label # "over" => /\ healthErrors' = healthErrors
                             /\ label = "insert" <=> healthRow[n] = NoResult
        /\ label = "over" => HealthStatementFails
  BY DEF SelectCheck
<1>4. /\ healthTask' \in [Tasks -> TaskRecord] /\ healthTask'[<<c, n>>].at = label
      /\ healthTask'[<<c, n>>].result = healthTask[<<c, n>>].result
      /\ \A t \in Tasks \ {<<c, n>>} : healthTask'[t] = healthTask[t]
  BY <1>1, <1>3, TaskGoes DEF HealthAt
<1>5. Storing(<<c, n>>)' => healthTask'[<<c, n>>].result \in Results
  BY <1>1, <1>2, <1>4, ResultsOfChecks DEF HealthTyped
<1>6. /\ HealthTyped'
      /\ \A d \in HealthCalls \ {c} : healthTask'[<<d, n>>] = healthTask[<<d, n>>]
      /\ \A m \in HealthNames \ {n} : Checked(m)'
      /\ healthErrors' = 0 => healthErrors = 0
  <2>1. /\ healthRow' \in [HealthNames -> Results \cup {NoResult}]
        /\ healthLog' \in [HealthNames -> SUBSET Results] /\ healthMade' \in [HealthNames -> Nat]
        /\ healthRow' = healthRow /\ healthLog' = healthLog /\ healthMade' = healthMade
    BY <1>1, <1>2 DEF HealthTyped
  <2>2. healthErrors' = healthErrors \/ HealthStatementFails
    BY <1>3
  <2>3. UNCHANGED <<healthTimer, healthRaced>>
    BY <1>2
  <2>4. QED
    BY <1>4, <1>5, <2>1, <2>2, <2>3, OneTaskStep
<1>7. ResultsCounted(n)' /\ OneRun(n)'
  BY <1>2, <1>4, <1>6, StoringGoesOn
<1>8. LoggedHasRow(n)'
  BY <1>1, <1>2, <1>3, <1>4, <1>6 DEF Checked, LoggedHasRow
<1>9. LastResult(n)'
  <2> SUFFICES ASSUME healthErrors' = 0, n \notin healthRaced
               PROVE  LastResult(n)'
    BY <1>2 DEF LastResult
  <2>1. healthErrors = 0 /\ label # "over"
    BY <1>1, <1>3, <1>6 DEF HealthTyped, HealthStatementFails
  <2>2. Storing(<<c, n>>)' /\ healthTask'[<<c, n>>].at # "log"
    BY <1>3, <1>4, <2>1 DEF Storing
  <2>3. \A d \in HealthCalls \ {c} : ~ Storing(<<d, n>>)'
    BY <1>2, <1>6, StoringAlone DEF Storing
  <2>4. QED
    BY <1>1, <1>2, <1>3, <1>4, <2>1, <2>2, <2>3 DEF Checked, LastResult
<1>10. QED
  BY <1>6, <1>7, <1>8, <1>9 DEF HealthInv, Checked

(* The row is written: an insert that meets a row, or a statement that fails, *)
(* ends the run.                                                            *)
LEMMA WriteCheckStep ==
    ASSUME HealthInv, NEW c \in HealthCalls, NEW n \in HealthNames, WriteCheck(c, n)
    PROVE  HealthInv'
<1> DEFINE at == healthTask[<<c, n>>].at
           result == healthTask[<<c, n>>].result
<1>1. HealthTyped /\ \A m \in HealthNames : Checked(m)
  BY DEF HealthInv, Checked
<1>2. /\ at \in {"insert", "update"} /\ Storing(<<c, n>>)
      /\ UNCHANGED <<healthTimer, healthLog, healthMade, healthRaced>>
  BY DEF WriteCheck, Storing
<1>3. result \in Results
  BY <1>1, <1>2, ResultsOfChecks DEF HealthTyped
<1>4. PICK label \in {"log", "over"} :
        /\ HealthGoto(<<c, n>>, label)
        /\ label = "log" => /\ healthErrors' = healthErrors
                            /\ healthRow' = [healthRow EXCEPT ![n] = result]
        /\ label = "over" =>
             \/ /\ at = "insert" /\ healthRow[n] # NoResult
                /\ healthRow' = healthRow /\ healthErrors' = healthErrors
             \/ /\ HealthStatementFails
                /\ healthRow' \in {healthRow, [healthRow EXCEPT ![n] = result]}
  BY DEF WriteCheck, NewRow
<1>5. /\ healthTask' \in [Tasks -> TaskRecord] /\ healthTask'[<<c, n>>].at = label
      /\ healthTask'[<<c, n>>].result = result
      /\ \A t \in Tasks \ {<<c, n>>} : healthTask'[t] = healthTask[t]
  BY <1>1, <1>4, TaskGoes DEF HealthAt
<1>6. /\ healthRow' \in [HealthNames -> Results \cup {NoResult}]
      /\ \A m \in HealthNames \ {n} : healthRow'[m] = healthRow[m]
      /\ healthRow'[n] \in {healthRow[n], result}
      /\ label = "log" => healthRow'[n] = result
  BY <1>1, <1>3, <1>4 DEF HealthTyped
<1>7. /\ HealthTyped'
      /\ \A d \in HealthCalls \ {c} : healthTask'[<<d, n>>] = healthTask[<<d, n>>]
      /\ \A m \in HealthNames \ {n} : Checked(m)'
      /\ healthErrors' = 0 => healthErrors = 0
  <2>1. /\ healthLog' \in [HealthNames -> SUBSET Results] /\ healthMade' \in [HealthNames -> Nat]
        /\ healthLog' = healthLog /\ healthMade' = healthMade
    BY <1>1, <1>2 DEF HealthTyped
  <2>2. healthErrors' = healthErrors \/ HealthStatementFails
    BY <1>4
  <2>3. UNCHANGED <<healthTimer, healthRaced>>
    BY <1>2
  <2>4. Storing(<<c, n>>)' => healthTask'[<<c, n>>].result \in Results
    BY <1>3, <1>5
  <2>5. QED
    BY <1>5, <1>6, <2>1, <2>2, <2>3, <2>4, OneTaskStep
<1>8. ResultsCounted(n)' /\ OneRun(n)'
  BY <1>2, <1>5, <1>7, StoringGoesOn
<1>9. LoggedHasRow(n)'
  <2>1. healthRow[n] # NoResult => healthRow'[n] # NoResult
    BY <1>3, <1>6, ResultsOfChecks
  <2>2. label = "log" => healthRow'[n] # NoResult
    BY <1>3, <1>6, ResultsOfChecks
  <2>3. QED
    BY <1>1, <1>2, <1>5, <1>7, <2>1, <2>2 DEF Checked, LoggedHasRow
<1>10. LastResult(n)'
  <2> SUFFICES ASSUME healthErrors' = 0, n \notin healthRaced
               PROVE  LastResult(n)'
    BY <1>2 DEF LastResult
  <2>1. healthErrors = 0 /\ ~ HealthStatementFails
    BY <1>1, <1>7 DEF HealthTyped, HealthStatementFails
  <2>2. /\ result.made = healthMade[n]
        /\ at = "insert" => healthRow[n] = NoResult
        /\ \A r \in healthLog[n] : r.made < healthMade[n] /\ r.made \in Nat
    BY <1>1, <1>2, <2>1, ResultsOfChecks DEF Checked, LastResult, HealthTyped
  <2>3. label = "log" /\ healthRow'[n] = result
    BY <1>4, <1>6, <2>1, <2>2
  <2>4. Storing(<<c, n>>)'
    BY <1>5, <2>3 DEF Storing
  <2>5. \A d \in HealthCalls \ {c} : ~ Storing(<<d, n>>)'
    BY <1>2, <1>7, StoringAlone DEF Storing
  <2>6. healthMade[n] \in Nat
    BY <1>1 DEF HealthTyped
  <2>7. QED
    BY <1>1, <1>2, <1>5, <2>1, <2>2, <2>3, <2>4, <2>5, <2>6 DEF Checked, LastResult
<1>11. QED
  BY <1>7, <1>8, <1>9, <1>10 DEF HealthInv, Checked

(* The result is logged, and the run is over.                               *)
LEMMA LogCheckStep ==
    ASSUME HealthInv, NEW c \in HealthCalls, NEW n \in HealthNames, LogCheck(c, n)
    PROVE  HealthInv'
<1> DEFINE result == healthTask[<<c, n>>].result
<1>1. HealthTyped /\ \A m \in HealthNames : Checked(m)
  BY DEF HealthInv, Checked
<1>2. /\ healthTask[<<c, n>>].at = "log" /\ Storing(<<c, n>>)
      /\ HealthGoto(<<c, n>>, "over")
      /\ UNCHANGED <<healthTimer, healthRow, healthMade, healthRaced>>
  BY DEF LogCheck, Storing
<1>3. result \in Results /\ healthRow[n] # NoResult
  BY <1>1, <1>2, ResultsOfChecks DEF HealthTyped, Checked, LoggedHasRow
<1>4. \/ /\ healthErrors' = healthErrors
         /\ healthLog' = [healthLog EXCEPT ![n] = @ \cup {result}]
      \/ /\ HealthStatementFails
         /\ healthLog' \in {healthLog, [healthLog EXCEPT ![n] = @ \cup {result}]}
  BY DEF LogCheck
<1>5. /\ healthTask' \in [Tasks -> TaskRecord] /\ healthTask'[<<c, n>>].at = "over"
      /\ healthTask'[<<c, n>>].result = result
      /\ \A t \in Tasks \ {<<c, n>>} : healthTask'[t] = healthTask[t]
  BY <1>1, <1>2, TaskGoes DEF HealthAt
<1>6. /\ healthLog' \in [HealthNames -> SUBSET Results]
      /\ \A m \in HealthNames \ {n} : healthLog'[m] = healthLog[m]
      /\ healthLog' = healthLog \/ healthLog'[n] = healthLog[n] \cup {result}
      /\ ~ HealthStatementFails => healthLog'[n] = healthLog[n] \cup {result}
  BY <1>1, <1>3, <1>4 DEF HealthTyped
<1>7. /\ HealthTyped'
      /\ \A d \in HealthCalls \ {c} : healthTask'[<<d, n>>] = healthTask[<<d, n>>]
      /\ \A m \in HealthNames \ {n} : Checked(m)'
      /\ healthErrors' = 0 => healthErrors = 0
  <2>1. /\ healthRow' \in [HealthNames -> Results \cup {NoResult}]
        /\ healthMade' \in [HealthNames -> Nat]
        /\ healthRow' = healthRow /\ healthMade' = healthMade
    BY <1>1, <1>2 DEF HealthTyped
  <2>2. healthErrors' = healthErrors \/ HealthStatementFails
    BY <1>4
  <2>3. UNCHANGED <<healthTimer, healthRaced>>
    BY <1>2
  <2>4. Storing(<<c, n>>)' => healthTask'[<<c, n>>].result \in Results
    BY <1>3, <1>5
  <2>5. QED
    BY <1>5, <1>6, <2>1, <2>2, <2>3, <2>4, OneTaskStep
<1>8. ResultsCounted(n)' /\ OneRun(n)'
  BY <1>2, <1>5, <1>7, StoringGoesOn
<1>9. LoggedHasRow(n)'
  BY <1>1, <1>2, <1>3, <1>5, <1>7 DEF Checked, LoggedHasRow
<1>10. LastResult(n)'
  <2> SUFFICES ASSUME healthErrors' = 0, n \notin healthRaced
               PROVE  LastResult(n)'
    BY <1>2 DEF LastResult
  <2>1. healthErrors = 0 /\ ~ HealthStatementFails
    BY <1>1, <1>7 DEF HealthTyped, HealthStatementFails
  <2>2. /\ result.made = healthMade[n] /\ healthRow[n] = result
        /\ \A r \in healthLog[n] : r.made < healthMade[n] /\ r.made \in Nat
        /\ \A r, q \in healthLog[n] : r.made = q.made => r = q
    BY <1>1, <1>2, <2>1, ResultsOfChecks DEF Checked, LastResult, HealthTyped
  <2>3. healthLog'[n] = healthLog[n] \cup {result}
    BY <1>6, <2>1
  <2>4. ~ Storing(<<c, n>>)'
    BY <1>5 DEF Storing
  <2>5. \A d \in HealthCalls \ {c} : ~ Storing(<<d, n>>)'
    BY <1>2, <1>7, StoringAlone DEF Storing
  <2>6. healthMade[n] \in Nat
    BY <1>1 DEF HealthTyped
  <2>7. /\ \A r \in healthLog'[n] : r.made <= healthRow'[n].made /\ r.made <= healthMade'[n]
        /\ \A r, q \in healthLog'[n] : r.made = q.made => r = q
        /\ healthRow'[n] \in healthLog'[n] /\ healthRow'[n].made = healthMade'[n]
    BY <1>2, <2>2, <2>3, <2>6
  <2>8. QED
    BY <2>4, <2>5, <2>7 DEF LastResult
<1>11. QED
  BY <1>7, <1>8, <1>9, <1>10 DEF HealthInv, Checked

LEMMA HealthInvStep ==
    ASSUME HealthInv, [HealthNext]_healthVars
    PROVE  HealthInv'
<1>1. ASSUME UNCHANGED <<healthTask, healthRow, healthLog, healthMade, healthRaced, healthErrors>>,
             healthTimer' \in BOOLEAN
      PROVE  HealthInv'
  <2>1. HealthTyped /\ \A n \in HealthNames : Checked(n)
    BY DEF HealthInv, Checked
  <2>2. HealthTyped'
    BY <1>1, <2>1 DEF HealthTyped, Storing
  <2>3. ASSUME NEW n \in HealthNames
        PROVE  Checked(n)'
    <3>1. OneRun(n)'
      BY <1>1, <2>1 DEF Checked, OneRun, UnderWay
    <3>2. QED
      BY <1>1, <2>1, <3>1, QuietCheck
  <2>4. QED
    BY <2>2, <2>3 DEF HealthInv, Checked
<1>2. CASE StartAllHealthChecks \/ StopAllHealthChecks
  BY <1>1, <1>2 DEF StartAllHealthChecks, StopAllHealthChecks
<1>3. ASSUME NEW c \in HealthCalls,
             RunAllHealthChecks(c) \/ HealthTimerFires(c) \/ RunHealthCheck(c)
      PROVE  HealthInv'
  <2>1. PICK names \in SUBSET HealthNames : BeginChecks(c, names)
    BY <1>3 DEF RunAllHealthChecks, HealthTimerFires, RunHealthCheck
  <2>2. QED
    BY <2>1, BeginChecksStep
<1>4. ASSUME NEW c \in HealthCalls, NEW n \in HealthNames,
             CheckMade(c, n) \/ SelectCheck(c, n) \/ WriteCheck(c, n) \/ LogCheck(c, n)
      PROVE  HealthInv'
  BY <1>4, CheckMadeStep, SelectCheckStep, WriteCheckStep, LogCheckStep
<1>5. CASE UNCHANGED healthVars
  <2>1. healthTimer \in BOOLEAN
    BY DEF HealthInv, HealthTyped
  <2>2. QED
    BY <1>1, <1>5, <2>1 DEF healthVars
<1>6. QED
  BY <1>2, <1>3, <1>4, <1>5 DEF HealthNext

LEMMA HealthInvAlways == HealthSpec => []HealthInv
  BY HealthInvInit, HealthInvStep, PTL DEF HealthSpec

(* The checks keep to their types: what is stored of a check is one of its   *)
(* results, numbered by the runs there have been.                           *)
THEOREM HealthTypeCorrect == HealthSpec => []HealthTypeOK
<1>1. ASSUME HealthInv
      PROVE  HealthTypeOK
  BY <1>1 DEF HealthInv, HealthTyped, HealthTypeOK, HealthAt
<1>2. QED
  BY <1>1, HealthInvAlways, PTL

(* However the runs of however many checks interleave, and whichever of       *)
(* their statements fail, a check is logged only once it has a row; while    *)
(* none has failed and no two runs of the check have overlapped, the row      *)
(* shows its last result, and a summary of ok speaks for the last of each.   *)
THEOREM HealthTruthful == HealthSpec => []HealthHonest
<1>1. ASSUME HealthInv
      PROVE  HealthHonest
  <2>1. HealthTyped /\ \A n \in HealthNames : LoggedHasRow(n) /\ LastResult(n)
    BY <1>1 DEF HealthInv
  <2>2. ASSUME NEW n \in HealthNames, healthErrors = 0, n \notin healthRaced,
               UnderWay(n) = {}, healthMade[n] > 0
        PROVE  healthRow[n] = LastLogged(n) /\ LastLogged(n) \in Results
    <3>1. \A c \in HealthCalls : ~ Storing(<<c, n>>)
      BY <2>2 DEF UnderWay, Storing
    <3>2. /\ healthRow[n] \in healthLog[n]
          /\ \A r \in healthLog[n] : r.made <= healthRow[n].made
          /\ \A r, q \in healthLog[n] : r.made = q.made => r = q
      BY <2>1, <2>2, <3>1 DEF LastResult
    <3>3. healthLog[n] \subseteq Results
      BY <2>1 DEF HealthTyped
    <3>4. LastLogged(n) \in healthLog[n] /\ \A r \in healthLog[n] : r.made <= LastLogged(n).made
      BY <3>2 DEF LastLogged
    <3>5. LastLogged(n).made = healthRow[n].made
      BY <3>2, <3>3, <3>4, ResultsOfChecks
    <3>6. QED
      BY <3>2, <3>3, <3>4, <3>5
  <2>3. ASSUME HealthSummary = "ok", healthErrors = 0, healthRaced = {},
               \A m \in HealthNames : UnderWay(m) = {} /\ healthMade[m] > 0,
               NEW n \in HealthNames
        PROVE  LastLogged(n).status = "ok"
    <3>1. ~ (\E m \in HealthNames : healthRow[m].status = "error")
      BY <2>3 DEF HealthSummary
    <3>2. ~ (\E m \in HealthNames : healthRow[m].status = "warning")
      BY <2>3, <3>1 DEF HealthSummary
    <3>3. healthRow[n] = LastLogged(n) /\ LastLogged(n) \in Results
      BY <2>2, <2>3
    <3>4. QED
      BY <3>1, <3>2, <3>3 DEF Results
  <2>4. QED
    BY <2>1, <2>2, <2>3 DEF HealthHonest, LoggedHasRow, LastResult
<1>2. QED
  BY <1>1, HealthInvAlways, PTL

-----------------------------------------------------------------------------
(* The migrations.                                                          *)

LEMMA LeastExists ==
    ASSUME NEW S \in SUBSET Nat, S # {}
    PROVE  \E i \in S : \A j \in S : i <= j
<1> DEFINE less == {p \in Nat \X Nat : p[1] < p[2]}
<1>1. IsWellFoundedOn(less, Nat)
  BY NatLessThanWellFounded DEF OpToRel
<1>2. PICK x \in S : \A y \in S : <<y, x>> \notin less
  BY <1>1, WFMin
<1>3. ASSUME NEW y \in S
      PROVE  x <= y
  <2>1. <<y, x>> \in less <=> y < x
    OBVIOUS
  <2>2. x \in Nat /\ y \in Nat
    OBVIOUS
  <2>3. QED
    BY <1>2, <2>1, <2>2
<1>4. QED
  BY <1>3

InOrder == /\ DoneInOrder /\ OneInstance
           /\ \A m \in Instances : PendingInOrder(m)
           /\ \A i \in MigrationIds : RunOnce(i)

\* Statements that fail are counted.
FaultsCounted == migFaults' = migFaults \/ Fault

LEMMA NextIsLeast ==
    ASSUME NEW ids \in SUBSET MigrationIds, ids # {}
    PROVE  NextPending(ids) \in ids /\ \A j \in ids : NextPending(ids) <= j
<1>1. ids \in SUBSET Nat
  BY MigrationAssumption DEF MigrationIds
<1>2. \E i \in ids : \A j \in ids : i <= j
  BY <1>1, LeastExists
<1>3. QED
  BY <1>2 DEF NextPending

LEMMA MigInvInit == MigInit => MigInv
<1> SUFFICES ASSUME MigInit
             PROVE  MigInv
  OBVIOUS
<1> DEFINE idle == [at |-> "idle", pending |-> {}, ok |-> FALSE, next |-> 1]
<1>1. idle \in Instance
  BY MigrationAssumption DEF Instance
<1>2. /\ instance = [m \in Instances |-> idle] /\ script = [s \in Scripts |-> "idle"]
      /\ migRow = [i \in MigrationIds |-> "none"] /\ migRuns = [i \in MigrationIds |-> 0]
      /\ migDone = {} /\ migFaults = 0
  BY DEF MigInit
<1>3. MigTyped
  <2>1. instance \in [Instances -> Instance]
    BY <1>1, <1>2
  <2>2. /\ script \in [Scripts -> {"idle", "ensure", "applied", "column", "alter", "index",
                                  "record", "over"}]
        /\ migRow \in [MigrationIds -> {"none", "applied", "failed"}]
        /\ migRuns \in [MigrationIds -> Nat]
    BY <1>2
  <2>3. {scriptRow, apiColumns, apiIndexes, migrating} \subseteq BOOLEAN
    BY Zenon DEF MigInit
  <2>4. /\ migTable \in {"none", "service", "script"} /\ policies \subseteq 1 .. NumPolicies
        /\ migDone \subseteq MigrationIds /\ migRefused \subseteq MigrationIds
    BY DEF MigInit
  <2>5. QED
    BY <1>2, <2>1, <2>2, <2>3, <2>4 DEF MigTyped
<1>4. DoneInOrder /\ OneInstance
  BY <1>2 DEF DoneInOrder, OneInstance, UnderWayInstance, Migrates
<1>5. \A m \in Instances : PendingInOrder(m)
  BY <1>2 DEF PendingInOrder, Migrates
<1>6. \A i \in MigrationIds : RunOnce(i)
  BY <1>2 DEF RunOnce
<1>7. ScriptInOrder
  BY <1>2 DEF MigInit, ScriptInOrder
<1>8. QED
  BY <1>3, <1>4, <1>5, <1>6, <1>7 DEF MigInv

LEMMA FaultTyped ==
    ASSUME MigTyped, FaultsCounted
    PROVE  migFaults' \in Nat /\ (migFaults' = 0 => migFaults = 0 /\ ~ Fault)
  BY DEF MigTyped, FaultsCounted, Fault

(* What the instances do is nothing to the scripts, and the other way round. *)
LEMMA ScriptsAside ==
    ASSUME MigInv, UNCHANGED <<scriptTables, script>>, FaultsCounted
    PROVE  ScriptInOrder'
  BY FaultTyped DEF MigInv, ScriptInOrder, scriptTables

LEMMA InstancesAside ==
    ASSUME MigInv, UNCHANGED <<serviceTables, instance, migrating>>, FaultsCounted
    PROVE  InOrder'
<1> USE DEF MigInv, InOrder, serviceTables
<1>1. DoneInOrder' /\ OneInstance'
  BY DEF DoneInOrder, OneInstance, UnderWayInstance, Migrates
<1>2. ASSUME NEW m \in Instances
      PROVE  PendingInOrder(m)'
  BY DEF PendingInOrder, Migrates, NextOf
<1>3. ASSUME NEW i \in MigrationIds
      PROVE  RunOnce(i)'
  BY FaultTyped DEF RunOnce, NextOf
<1>4. QED
  BY <1>1, <1>2, <1>3

(* What an instance's record becomes, and that the others stay.             *)
LEMMA InstanceBecomes ==
    ASSUME MigTyped, NEW m \in Instances, NEW r \in Instance,
           instance' = [instance EXCEPT ![m] = r]
    PROVE  /\ instance' \in [Instances -> Instance] /\ instance'[m] = r
           /\ \A o \in Instances \ {m} : instance'[o] = instance[o]
  BY DEF MigTyped

LEMMA InstanceMoves ==
    ASSUME MigTyped, NEW m \in Instances,
           NEW label \in {"ensure", "list", "migrate", "record", "rls", "over"},
           InstanceGoto(m, label)
    PROVE  /\ instance' \in [Instances -> Instance] /\ instance'[m].at = label
           /\ instance'[m].pending = instance[m].pending
           /\ \A o \in Instances \ {m} : instance'[o] = instance[o]
<1> DEFINE r == [instance[m] EXCEPT !.at = label]
<1>1. instance[m] \in Instance
  BY DEF MigTyped
<1>2. r \in Instance /\ r.at = label /\ r.pending = instance[m].pending
  BY <1>1 DEF Instance
<1>3. instance' = [instance EXCEPT ![m] = r]
  BY DEF InstanceGoto
<1> HIDE DEF r
<1>4. /\ instance' \in [Instances -> Instance] /\ instance'[m] = r
      /\ \A o \in Instances \ {m} : instance'[o] = instance[o]
  BY <1>2, <1>3, InstanceBecomes
<1>5. QED
  BY <1>2, <1>4

(* An instance that has nothing to run, or fails, disturbs nothing.         *)
LEMMA InstanceQuiet ==
    ASSUME MigInv, NEW m \in Instances,
           \A o \in Instances \ {m} : instance'[o] = instance[o],
           UNCHANGED <<migRow, migDone, migRuns, migRefused, migrating>>, FaultsCounted,
           UnderWayInstance(m), instance[m].at = "record" => Fault, ~ Migrates(m)'
    PROVE  InOrder'
<1> USE DEF MigInv, InOrder
<1>1. DoneInOrder'
  BY DEF DoneInOrder
<1>2. OneInstance'
  BY DEF OneInstance, UnderWayInstance, Migrates
<1>3. ASSUME NEW o \in Instances
      PROVE  PendingInOrder(o)'
  BY DEF PendingInOrder, Migrates, NextOf
<1>4. ASSUME NEW i \in MigrationIds
      PROVE  RunOnce(i)'
  <2> SUFFICES ASSUME ~ migrating, migFaults' = 0, i \notin migRefused
               PROVE  RunOnce(i)'
    BY DEF RunOnce
  <2>1. migFaults = 0 /\ instance[m].at # "record"
    BY FaultTyped
  <2>2. \A o \in Instances : instance[o].at = "record" => instance'[o] = instance[o]
    BY <2>1
  <2>3. QED
    BY <2>1, <2>2 DEF RunOnce, NextOf
<1>5. QED
  BY <1>1, <1>2, <1>3, <1>4

(* An instance begins alone, or is marked as overlapping.                   *)
LEMMA BeginMigrateDatabaseStep ==
    ASSUME MigInv, NEW m \in Instances, BeginMigrateDatabase(m)
    PROVE  MigInv'
<1> USE DEF MigInv, InOrder
<1>1. /\ instance[m].at = "idle" /\ InstanceGoto(m, "ensure")
      /\ migrating' = (migrating \/ \E o \in Instances : instance[o].at \notin {"idle", "over"})
      /\ UNCHANGED <<migTable, serviceTables, scriptTables, script, migFaults>>
  BY DEF BeginMigrateDatabase
<1>2. /\ instance' \in [Instances -> Instance] /\ instance'[m].at = "ensure"
      /\ \A o \in Instances \ {m} : instance'[o] = instance[o]
  BY <1>1, InstanceMoves
<1>3. migrating' \in BOOLEAN
  BY <1>1, Zenon
<1>4. ~ migrating' => ~ migrating /\ \A o \in Instances : ~ UnderWayInstance(o)
  BY <1>1, Zenon DEF UnderWayInstance
<1>5. MigTyped'
  BY <1>1, <1>2, <1>3 DEF MigTyped, serviceTables, scriptTables
<1>6. DoneInOrder'
  BY <1>1 DEF DoneInOrder, serviceTables
<1>7. OneInstance'
  BY <1>1, <1>2, <1>4 DEF OneInstance, UnderWayInstance, Migrates, serviceTables
<1>8. ASSUME NEW o \in Instances
      PROVE  PendingInOrder(o)'
  BY <1>1, <1>2 DEF PendingInOrder, Migrates, NextOf, serviceTables
<1>9. ASSUME NEW i \in MigrationIds
      PROVE  RunOnce(i)'
  <2>1. \A o \in Instances : instance[o].at = "record" => instance'[o] = instance[o]
    BY <1>1, <1>2
  <2>2. /\ migRuns' = migRuns /\ migRow' = migRow /\ migRefused' = migRefused
        /\ migFaults' = migFaults
    BY <1>1 DEF serviceTables
  <2>3. QED
    BY <1>4, <2>1, <2>2 DEF RunOnce, NextOf
<1>10. ScriptInOrder'
  BY <1>1, ScriptsAside DEF FaultsCounted
<1>11. QED
  BY <1>5, <1>6, <1>7, <1>8, <1>9, <1>10

(* The steps of an instance that run no migration.                          *)
LEMMA QuietInstanceStep ==
    ASSUME MigInv, NEW m \in Instances,
           EnsureServiceTable(m) \/ RunPolicy(m) \/ InstanceDies(m)
    PROVE  MigInv'
<1> USE DEF MigInv
<1>1. /\ UNCHANGED <<migRow, migDone, migRuns, migRefused, migrating, scriptTables, script>>
      /\ FaultsCounted /\ UnderWayInstance(m) /\ (instance[m].at = "record" => Fault)
  BY DEF EnsureServiceTable, RunPolicy, InstanceDies, InstanceOver, FaultsCounted,
         UnderWayInstance, serviceTables
<1>2. /\ migTable' \in {"none", "service", "script"} /\ policies' \subseteq 1 .. NumPolicies
      /\ instance' \in [Instances -> Instance] /\ ~ Migrates(m)'
      /\ \A o \in Instances \ {m} : instance'[o] = instance[o]
  <2>1. CASE EnsureServiceTable(m)
    <3>1. PICK label \in {"list", "over"} : InstanceGoto(m, label)
      BY <2>1 DEF EnsureServiceTable, InstanceOver
    <3>2. QED
      BY <2>1, <3>1, InstanceMoves DEF EnsureServiceTable, MigTyped, Migrates, serviceTables
  <2>2. CASE InstanceDies(m)
    BY <2>2, InstanceMoves DEF InstanceDies, InstanceOver, MigTyped, Migrates, serviceTables
  <2>3. CASE RunPolicy(m) /\ InstanceOver(m) /\ UNCHANGED policies
    BY <2>3, InstanceMoves DEF RunPolicy, InstanceOver, MigTyped, Migrates
  <2>4. ASSUME RunPolicy(m), instance[m].next <= NumPolicies,
               instance' = [instance EXCEPT ![m].next = instance[m].next + 1],
               policies' \in {policies, policies \cup {instance[m].next}}
        PROVE  /\ policies' \subseteq 1 .. NumPolicies /\ migTable' = migTable
               /\ instance' \in [Instances -> Instance] /\ ~ Migrates(m)'
               /\ \A o \in Instances \ {m} : instance'[o] = instance[o]
    <3> DEFINE r == [instance[m] EXCEPT !.next = instance[m].next + 1]
    <3>1. instance[m] \in Instance /\ instance[m].at = "rls" /\ migTable' = migTable
      BY <2>4 DEF MigTyped, RunPolicy
    <3>2. r \in Instance /\ r.at = "rls"
      BY <2>4, <3>1, MigrationAssumption DEF Instance
    <3>3. policies' \subseteq 1 .. NumPolicies
      BY <2>4, <3>1, MigrationAssumption DEF Instance, MigTyped
    <3>4. instance' = [instance EXCEPT ![m] = r]
      BY <2>4
    <3> HIDE DEF r
    <3>5. /\ instance' \in [Instances -> Instance] /\ instance'[m] = r
          /\ \A o \in Instances \ {m} : instance'[o] = instance[o]
      BY <3>2, <3>4, InstanceBecomes
    <3>6. QED
      BY <3>1, <3>2, <3>3, <3>5 DEF Migrates
  <2>5. migTable \in {"none", "service", "script"}
    BY DEF MigTyped
  <2>6. QED
    BY <2>1, <2>2, <2>3, <2>4, <2>5 DEF RunPolicy
<1>3. MigTyped'
  <2>1. migFaults' \in Nat
    BY <1>1, FaultTyped
  <2>2. QED
    BY <1>1, <1>2, <2>1 DEF MigTyped, scriptTables
<1>4. InOrder'
  BY <1>1, <1>2, InstanceQuiet
<1>5. ScriptInOrder'
  BY <1>1, ScriptsAside
<1>6. QED
  BY <1>3, <1>4, <1>5 DEF InOrder

(* An instance lists what is not recorded as applied, which may be nothing.  *)
LEMMA ListPendingStep ==
    ASSUME MigInv, NEW m \in Instances, ListPending(m)
    PROVE  MigInv'
<1> USE DEF MigInv, InOrder
<1> DEFINE pending == {i \in MigrationIds : migRow[i] # "applied"}
<1>1. /\ instance[m].at = "list"
      /\ UNCHANGED <<migTable, serviceTables, scriptTables, script, migrating>>
      /\ UNCHANGED <<migRow, migDone, migRuns, migRefused, policies>>
  BY DEF ListPending, serviceTables
<1>2. \/ /\ instance' = [instance EXCEPT ![m].at = IF pending = {} THEN "rls" ELSE "migrate",
                                        ![m].pending = pending]
         /\ migFaults' = migFaults
      \/ InstanceOver(m) /\ (migFaults' = migFaults \/ Fault)
  BY DEF ListPending
<1>3. FaultsCounted
  BY <1>2 DEF FaultsCounted
<1>4. PICK r \in Instance :
        /\ instance' = [instance EXCEPT ![m] = r]
        /\ r.at = "over" \/ (r.at = "rls" /\ pending = {})
           \/ (r.at = "migrate" /\ r.pending = pending /\ pending # {})
  <2>1. instance[m] \in Instance
    BY DEF MigTyped
  <2>2. CASE InstanceOver(m)
    <3> DEFINE r == [instance[m] EXCEPT !.at = "over"]
    <3>1. r \in Instance /\ r.at = "over"
      BY <2>1 DEF Instance
    <3>2. instance' = [instance EXCEPT ![m] = r]
      BY <2>2 DEF InstanceOver, InstanceGoto
    <3>3. QED
      BY <3>1, <3>2
  <2>3. ASSUME instance' = [instance EXCEPT ![m].at = IF pending = {} THEN "rls" ELSE "migrate",
                                            ![m].pending = pending]
        PROVE  \E q \in Instance :
                 /\ instance' = [instance EXCEPT ![m] = q]
                 /\ q.at = "over" \/ (q.at = "rls" /\ pending = {})
                    \/ (q.at = "migrate" /\ q.pending = pending /\ pending # {})
    <3> DEFINE r == [instance[m] EXCEPT !.at = IF pending = {} THEN "rls" ELSE "migrate",
                                        !.pending = pending]
    <3>1. pending \subseteq MigrationIds
      OBVIOUS
    <3>2. instance' = [instance EXCEPT ![m] = r]
      BY <2>1, <2>3 DEF Instance, MigTyped
    <3> HIDE DEF pending
    <3>3. /\ r \in Instance /\ r.pending = pending
          /\ r.at = IF pending = {} THEN "rls" ELSE "migrate"
      BY <2>1, <3>1 DEF Instance
    <3> HIDE DEF r
    <3>4. QED
      BY <3>2, <3>3
  <2>4. QED
    BY <1>2, <2>2, <2>3
<1>5. /\ instance' \in [Instances -> Instance] /\ instance'[m] = r
      /\ \A o \in Instances \ {m} : instance'[o] = instance[o]
  BY <1>4, InstanceBecomes
<1>6. MigTyped'
  <2>1. migFaults' \in Nat
    BY <1>3, FaultTyped
  <2>2. QED
    BY <1>1, <1>5, <2>1 DEF MigTyped, scriptTables
<1>7. ScriptInOrder'
  BY <1>1, <1>3, ScriptsAside
<1>8. InOrder'
  <2>1. CASE r.at # "migrate"
    <3>1. UnderWayInstance(m) /\ ~ Migrates(m)' /\ instance[m].at # "record"
      BY <1>1, <1>4, <1>5, <2>1 DEF UnderWayInstance, Migrates
    <3>2. QED
      BY <1>1, <1>3, <1>5, <3>1, InstanceQuiet
  <2>2. CASE r.at = "migrate"
    <3>1. r.pending = pending /\ pending # {}
      BY <1>4, <2>2
    <3>2. DoneInOrder'
      BY <1>1 DEF DoneInOrder
    <3>3. OneInstance'
      BY <1>1, <1>5, <2>2, <3>1 DEF OneInstance, UnderWayInstance, Migrates
    <3>4. ASSUME NEW o \in Instances
          PROVE  PendingInOrder(o)'
      <4>1. CASE o = m
        BY <1>1, <1>5, <2>2, <3>1, <4>1 DEF PendingInOrder, Migrates, NextOf, DoneInOrder
      <4>2. CASE o # m
        BY <1>1, <1>5, <4>2 DEF PendingInOrder, Migrates, NextOf
      <4>3. QED
        BY <4>1, <4>2
    <3>5. ASSUME NEW i \in MigrationIds
          PROVE  RunOnce(i)'
      <4>1. \A o \in Instances : instance[o].at = "record" => instance'[o] = instance[o]
        BY <1>1, <1>5
      <4>2. migFaults' = 0 => migFaults = 0
        BY <1>3, FaultTyped
      <4>3. QED
        BY <1>1, <4>1, <4>2 DEF RunOnce, NextOf
    <3>6. QED
      BY <3>2, <3>3, <3>4, <3>5
  <2>3. QED
    BY <2>1, <2>2
<1>9. QED
  BY <1>6, <1>7, <1>8

(* The first of the migrations left is run.                                 *)
LEMMA RunMigrationStep ==
    ASSUME MigInv, NEW m \in Instances, RunMigration(m)
    PROVE  MigInv'
<1> USE DEF MigInv, InOrder
<1> DEFINE i == NextOf(m)
<1>1. /\ instance[m].at = "migrate" /\ migRuns' = [migRuns EXCEPT ![i] = @ + 1]
      /\ UNCHANGED <<migTable, migRow, policies, scriptTables, script, migrating, migFaults>>
  BY DEF RunMigration, NextOf
<1>2. PICK ok \in BOOLEAN :
        /\ instance' = [instance EXCEPT ![m].at = "record", ![m].ok = ok]
        /\ IF ok THEN migDone' = migDone \cup {i} ELSE migDone' \in {migDone, migDone \cup {i}}
        /\ migRefused' = IF ok THEN migRefused ELSE migRefused \cup {i}
  BY DEF RunMigration, NextOf
<1>3. /\ instance[m] \in Instance /\ Migrates(m) /\ i \in instance[m].pending
      /\ i \in MigrationIds /\ \A j \in instance[m].pending : i <= j
      /\ \A j \in MigrationIds \ instance[m].pending : j \in migDone
  <2>1. instance[m] \in Instance /\ Migrates(m)
    BY <1>1 DEF MigTyped, Migrates
  <2>2. instance[m].pending \in SUBSET MigrationIds /\ instance[m].pending # {}
    BY <2>1 DEF Instance, PendingInOrder
  <2>3. i \in instance[m].pending /\ \A j \in instance[m].pending : i <= j
    BY <2>2, NextIsLeast DEF NextOf
  <2>4. QED
    BY <2>1, <2>2, <2>3 DEF PendingInOrder
<1> DEFINE r == [instance[m] EXCEPT !.at = "record", !.ok = ok]
<1>4. r \in Instance /\ r.at = "record" /\ r.pending = instance[m].pending /\ r.ok = ok
  BY <1>3 DEF Instance
<1>5. /\ instance' \in [Instances -> Instance] /\ instance'[m] = r
      /\ \A o \in Instances \ {m} : instance'[o] = instance[o]
  <2>1. instance' = [instance EXCEPT ![m] = r]
    BY <1>2, <1>3 DEF Instance, MigTyped
  <2> HIDE DEF r
  <2>2. QED
    BY <1>4, <2>1, InstanceBecomes
<1> HIDE DEF r, i
<1>6. /\ instance'[m].at = "record" /\ instance'[m].pending = instance[m].pending
      /\ NextOf(m)' = i
  BY <1>4, <1>5 DEF NextOf, i
<1>7. migDone \subseteq migDone' /\ migDone' \subseteq migDone \cup {i}
      /\ (ok => i \in migDone')
  BY <1>2
<1>8. migRefused \subseteq migRefused' /\ migRefused' \subseteq migRefused \cup {i}
      /\ (~ ok => i \in migRefused')
  BY <1>2
<1>9. MigTyped'
  <2>1. migRuns' \in [MigrationIds -> Nat]
    BY <1>1, <1>3 DEF MigTyped
  <2>2. migDone' \subseteq MigrationIds /\ migRefused' \subseteq MigrationIds
    BY <1>3, <1>7, <1>8 DEF MigTyped
  <2>3. QED
    BY <1>1, <1>5, <2>1, <2>2 DEF MigTyped, scriptTables
<1>10. ScriptInOrder'
  BY <1>1, ScriptsAside DEF FaultsCounted
<1>11. DoneInOrder'
  <2>1. \A j \in 1 .. i : j \in MigrationIds /\ (j = i \/ j \in migDone)
    BY <1>3, MigrationAssumption DEF MigrationIds
  <2>2. QED
    BY <1>1, <1>7, <2>1 DEF DoneInOrder
<1>12. OneInstance'
  BY <1>1, <1>5, <1>6 DEF OneInstance, UnderWayInstance, Migrates
<1>13. ASSUME NEW o \in Instances
       PROVE  PendingInOrder(o)'
  <2>1. CASE o = m
    <3>1. instance'[m].ok = ok
      BY <1>4, <1>5
    <3>2. QED
      BY <1>3, <1>6, <1>7, <1>8, <2>1, <3>1 DEF PendingInOrder, Migrates
  <2>2. CASE o # m
    <3>1. instance'[o] = instance[o] /\ NextOf(o)' = NextOf(o)
      BY <1>5, <2>2 DEF NextOf
    <3>2. QED
      BY <1>7, <1>8, <3>1 DEF PendingInOrder, Migrates
  <2>3. QED
    BY <2>1, <2>2
<1>14. ASSUME NEW j \in MigrationIds
       PROVE  RunOnce(j)'
  <2> SUFFICES ASSUME ~ migrating, migFaults = 0, j \notin migRefused
               PROVE  RunOnce(j)'
    BY <1>1, <1>8 DEF RunOnce
  <2>1. \A o \in Instances : instance[o].at = "record" =>
          o # m /\ instance'[o].at = "record" /\ NextOf(o)' = NextOf(o)
    BY <1>1, <1>5 DEF NextOf
  <2>2. CASE j # i
    BY <1>1, <1>3, <2>1, <2>2 DEF RunOnce, MigTyped
  <2>3. CASE j = i
    <3>1. migRow[i] # "applied"
      BY <1>3, <1>1 DEF OneInstance
    <3>2. ~ \E o \in Instances : instance[o].at = "record"
      BY <1>1 DEF OneInstance, UnderWayInstance
    <3>3. migRuns[i] = 0 /\ migRuns'[i] = 1
      BY <1>1, <1>3, <2>3, <3>1, <3>2 DEF RunOnce, MigTyped
    <3>4. QED
      BY <1>6, <2>3, <3>3 DEF RunOnce
  <2>4. QED
    BY <2>2, <2>3
<1>15. QED
  BY <1>9, <1>10, <1>11, <1>12, <1>13, <1>14

(* What was run is recorded, and the instance goes on to the next or ends.   *)
LEMMA RecordMigrationStep ==
    ASSUME MigInv, NEW m \in Instances, RecordMigration(m)
    PROVE  MigInv'
<1> USE DEF MigInv, InOrder
<1> DEFINE i == NextOf(m)
           left == instance[m].pending \ {i}
           recorded == [migRow EXCEPT ![i] = IF instance[m].ok THEN "applied" ELSE "failed"]
<1>1. /\ instance[m].at = "record"
      /\ \/ migRow' = recorded /\ migFaults' = migFaults
         \/ Fault /\ migRow' \in {migRow, recorded}
      /\ UNCHANGED <<migTable, migDone, migRuns, migRefused, policies, scriptTables, script,
                     migrating>>
  BY DEF RecordMigration, NextOf
<1>2. PICK label \in {"rls", "over", "migrate"} :
        /\ instance' = [instance EXCEPT ![m].at = label, ![m].pending = left]
        /\ label = "migrate" => instance[m].ok /\ left # {}
  BY DEF RecordMigration, NextOf
<1>3. FaultsCounted
  BY <1>1 DEF FaultsCounted
<1>4. /\ instance[m] \in Instance /\ Migrates(m) /\ i \in instance[m].pending
      /\ i \in MigrationIds /\ i \in (IF instance[m].ok THEN migDone ELSE migRefused)
      /\ \A j \in MigrationIds \ instance[m].pending : j \in migDone
  <2>1. instance[m] \in Instance /\ Migrates(m)
    BY <1>1 DEF MigTyped, Migrates
  <2>2. instance[m].pending \in SUBSET MigrationIds /\ instance[m].pending # {}
    BY <2>1 DEF Instance, PendingInOrder
  <2>3. i \in instance[m].pending
    BY <2>2, NextIsLeast DEF NextOf
  <2>4. QED
    BY <1>1, <2>1, <2>2, <2>3 DEF PendingInOrder
<1> DEFINE r == [instance[m] EXCEPT !.at = label, !.pending = left]
<1>5. r \in Instance /\ r.at = label /\ r.pending = left
  <2>1. left \subseteq MigrationIds
    BY <1>4 DEF Instance
  <2> HIDE DEF left
  <2>2. QED
    BY <1>4, <2>1 DEF Instance
<1>6. /\ instance' \in [Instances -> Instance] /\ instance'[m] = r
      /\ \A o \in Instances \ {m} : instance'[o] = instance[o]
  <2>1. instance' = [instance EXCEPT ![m] = r]
    BY <1>2, <1>4 DEF Instance, MigTyped
  <2> HIDE DEF r
  <2>2. QED
    BY <1>5, <2>1, InstanceBecomes
<1>7. instance'[m].at = label /\ instance'[m].pending = left
  BY <1>5, <1>6
<1>8. /\ migRow' \in [MigrationIds -> {"none", "applied", "failed"}]
      /\ \A j \in MigrationIds \ {i} : migRow'[j] = migRow[j]
      /\ migRow'[i] = "applied" => instance[m].ok \/ migRow[i] = "applied"
      /\ ~ Fault /\ instance[m].ok => migRow'[i] = "applied"
  BY <1>1, <1>4 DEF MigTyped
<1> HIDE DEF r, i, recorded
<1>9. MigTyped'
  <2>1. migFaults' \in Nat
    BY <1>3, FaultTyped
  <2>2. QED
    BY <1>1, <1>6, <1>8, <2>1 DEF MigTyped, scriptTables
<1>10. ScriptInOrder'
  BY <1>1, <1>3, ScriptsAside
<1>11. DoneInOrder'
  BY <1>1, <1>4, <1>8 DEF DoneInOrder
<1>12. OneInstance'
  <2> SUFFICES ASSUME ~ migrating
               PROVE  OneInstance'
    BY <1>1 DEF OneInstance
  <2>1. \A o \in Instances \ {m} : ~ UnderWayInstance(o)
    BY <1>1 DEF OneInstance, UnderWayInstance
  <2>2. \A o \in Instances \ {m} : ~ UnderWayInstance(o)'
    BY <1>6, <2>1 DEF UnderWayInstance
  <2>3. \A o \in Instances : Migrates(o) => UnderWayInstance(o)
    BY DEF Migrates, UnderWayInstance
  <2>4. \A o \in Instances : Migrates(o)' => UnderWayInstance(o)'
    BY DEF Migrates, UnderWayInstance
  <2>5. \A j \in left : migRow'[j] # "applied"
    BY <1>1, <1>4, <1>8 DEF OneInstance, Instance
  <2>6. QED
    BY <1>7, <2>2, <2>4, <2>5 DEF OneInstance
<1>13. ASSUME NEW o \in Instances
       PROVE  PendingInOrder(o)'
  <2>1. CASE o = m
    BY <1>1, <1>2, <1>4, <1>7, <2>1 DEF PendingInOrder, Migrates
  <2>2. CASE o # m
    BY <1>1, <1>6, <2>2 DEF PendingInOrder, Migrates, NextOf
  <2>3. QED
    BY <2>1, <2>2
<1>14. ASSUME NEW j \in MigrationIds
       PROVE  RunOnce(j)'
  <2> SUFFICES ASSUME ~ migrating, migFaults' = 0, j \notin migRefused
               PROVE  RunOnce(j)'
    BY <1>1 DEF RunOnce
  <2>1. migFaults = 0 /\ ~ Fault
    BY <1>3, FaultTyped
  <2>2. \A o \in Instances \ {m} : instance[o].at = "record" => instance'[o] = instance[o]
    BY <1>6
  <2>3. CASE j # i
    <3>1. migRow'[j] = migRow[j] /\ migRuns' = migRuns
      BY <1>1, <1>8, <2>3
    <3>2. \A o \in Instances : instance[o].at = "record" /\ NextOf(o) = j =>
            instance'[o].at = "record" /\ NextOf(o)' = j
      BY <2>2, <2>3 DEF i, NextOf
    <3>3. QED
      BY <2>1, <3>1, <3>2, <1>1 DEF RunOnce
  <2>4. CASE j = i
    <3>1. migRow'[j] = "applied"
      BY <1>4, <1>8, <2>1, <2>4
    <3>2. QED
      BY <1>1, <2>1, <3>1 DEF RunOnce
  <2>5. QED
    BY <2>3, <2>4
<1>15. QED
  BY <1>9, <1>10, <1>11, <1>12, <1>13, <1>14

(* A script's statement, whichever: columns and indexes stay once they are    *)
(* there, and what it goes on to do agrees with them.                        *)
LEMMA ScriptGoes ==
    ASSUME MigInv, NEW s \in Scripts,
           NEW label \in {"ensure", "applied", "column", "alter", "index", "record", "over"},
           ScriptGoto(s, label), FaultsCounted,
           UNCHANGED <<serviceTables, instance, migrating>>,
           migTable' \in {"none", "service", "script"},
           scriptRow' \in BOOLEAN, apiColumns' \in BOOLEAN, apiIndexes' \in BOOLEAN,
           apiColumns => apiColumns', apiIndexes => apiIndexes',
           scriptRow' => scriptRow \/ apiColumns',
           label \in {"index", "record"} => apiColumns',
           apiColumns' => apiColumns \/ label = "index" \/ Fault,
           script[s] = "index" => apiIndexes' \/ Fault
    PROVE  MigInv'
<1> USE DEF MigInv
<1>1. /\ script' \in [Scripts -> {"idle", "ensure", "applied", "column", "alter", "index",
                                  "record", "over"}]
      /\ script'[s] = label /\ \A o \in Scripts \ {s} : script'[o] = script[o]
  BY DEF ScriptGoto, MigTyped
<1>2. migFaults' \in Nat /\ (migFaults' = 0 => migFaults = 0 /\ ~ Fault)
  BY FaultTyped
<1>3. MigTyped'
  BY <1>1, <1>2 DEF MigTyped, serviceTables
<1>4. InOrder'
  BY InstancesAside
<1>5. scriptRow' => apiColumns'
  BY Zenon DEF ScriptInOrder
<1>6. ASSUME NEW o \in Scripts, script'[o] \in {"index", "record"}
      PROVE  apiColumns'
  <2>1. CASE o = s
    BY <1>1, <1>6, <2>1
  <2>2. CASE o # s
    <3>1. script[o] \in {"index", "record"}
      BY <1>1, <1>6, <2>2
    <3>2. QED
      BY <3>1 DEF ScriptInOrder
  <2>3. QED
    BY <2>1, <2>2
<1>7. ASSUME migFaults' = 0, apiColumns', ~ apiIndexes'
      PROVE  \E o \in Scripts : script'[o] = "index"
  <2>1. migFaults = 0 /\ ~ Fault
    BY <1>2, <1>7
  <2>2. CASE label = "index"
    BY <1>1, <2>2
  <2>3. CASE label # "index"
    <3>1. apiColumns /\ ~ apiIndexes
      BY <1>7, <2>1, <2>3
    <3>2. PICK o \in Scripts : script[o] = "index"
      BY <2>1, <3>1 DEF ScriptInOrder
    <3>3. o # s
      BY <1>7, <2>1, <3>2
    <3>4. QED
      BY <1>1, <3>2, <3>3
  <2>4. QED
    BY <2>2, <2>3
<1>8. ScriptInOrder'
  BY <1>5, <1>6, <1>7, Zenon DEF ScriptInOrder
<1>9. QED
  BY <1>3, <1>4, <1>8 DEF InOrder

LEMMA ScriptStep ==
    ASSUME MigInv, NEW s \in Scripts,
           \/ BeginScript(s) \/ EnsureScriptTable(s) \/ ScriptApplied(s) \/ FindColumns(s)
           \/ AddColumns(s) \/ AddIndexes(s) \/ RecordScript(s)
    PROVE  MigInv'
<1>1. UNCHANGED <<serviceTables, instance, migrating>> /\ FaultsCounted
  BY DEF BeginScript, EnsureScriptTable, ScriptApplied, FindColumns, AddColumns, AddIndexes,
         RecordScript, ScriptFails, FaultsCounted
<1>2. migTable' \in {"none", "service", "script"}
  BY DEF BeginScript, EnsureScriptTable, ScriptApplied, FindColumns, AddColumns, AddIndexes,
         RecordScript, MigInv, MigTyped
<1>3. scriptRow \in BOOLEAN /\ apiColumns \in BOOLEAN /\ apiIndexes \in BOOLEAN
  BY Zenon DEF MigInv, MigTyped
<1>4. CASE BeginScript(s) \/ EnsureScriptTable(s) \/ ScriptApplied(s)
  <2>1. PICK label \in {"ensure", "applied", "column", "over"} : ScriptGoto(s, label)
    BY <1>4 DEF BeginScript, EnsureScriptTable, ScriptApplied, ScriptFails
  <2>2. script[s] # "index" /\ UNCHANGED scriptTables
    BY <1>4 DEF BeginScript, EnsureScriptTable, ScriptApplied
  <2>3. scriptRow' = scriptRow /\ apiColumns' = apiColumns /\ apiIndexes' = apiIndexes
    BY <2>2 DEF scriptTables
  <2>4. QED
    BY <1>1, <1>2, <1>3, <2>1, <2>2, <2>3, ScriptGoes
<1>5. CASE FindColumns(s)
  <2>1. /\ script[s] = "column"
        /\ scriptRow' = scriptRow /\ apiColumns' = apiColumns /\ apiIndexes' = apiIndexes
    BY <1>5 DEF FindColumns, scriptTables
  <2>2. PICK label \in {"record", "alter", "over"} :
          ScriptGoto(s, label) /\ (label = "record" => apiColumns)
    BY <1>5 DEF FindColumns, ScriptFails
  <2>3. QED
    BY <1>1, <1>2, <1>3, <2>1, <2>2, ScriptGoes
<1>6. CASE AddColumns(s)
  <2>1. script[s] = "alter" /\ scriptRow' = scriptRow /\ apiIndexes' = apiIndexes
    BY <1>6 DEF AddColumns
  <2>2. \/ ScriptGoto(s, "index") /\ apiColumns' = TRUE
        \/ ScriptGoto(s, "over") /\ Fault /\ apiColumns' \in {apiColumns, TRUE}
    BY <1>6 DEF AddColumns, ScriptFails
  <2>3. CASE ScriptGoto(s, "index") /\ apiColumns' = TRUE
    BY <1>1, <1>2, <1>3, <2>1, <2>3, ScriptGoes
  <2>4. CASE ScriptGoto(s, "over") /\ Fault /\ apiColumns' \in {apiColumns, TRUE}
    <3>1. apiColumns' = apiColumns \/ apiColumns' = TRUE
      BY <2>4
    <3>2. apiColumns' \in BOOLEAN /\ (apiColumns => apiColumns')
      BY <1>3, <3>1, Zenon
    <3>3. QED
      BY <1>1, <1>2, <1>3, <2>1, <2>4, <3>2, ScriptGoes
  <2>5. QED
    BY <2>2, <2>3, <2>4
<1>7. CASE AddIndexes(s)
  <2>1. script[s] = "index" /\ scriptRow' = scriptRow /\ apiColumns' = apiColumns
    BY <1>7 DEF AddIndexes
  <2>2. apiColumns
    BY <2>1 DEF MigInv, ScriptInOrder
  <2>3. \/ ScriptGoto(s, "record") /\ apiIndexes' = TRUE
        \/ ScriptGoto(s, "over") /\ Fault /\ apiIndexes' \in {apiIndexes, TRUE}
    BY <1>7 DEF AddIndexes, ScriptFails
  <2>4. CASE ScriptGoto(s, "record") /\ apiIndexes' = TRUE
    BY <1>1, <1>2, <1>3, <2>1, <2>2, <2>4, ScriptGoes
  <2>5. CASE ScriptGoto(s, "over") /\ Fault /\ apiIndexes' \in {apiIndexes, TRUE}
    <3>1. apiIndexes' = apiIndexes \/ apiIndexes' = TRUE
      BY <2>5
    <3>2. apiIndexes' \in BOOLEAN /\ (apiIndexes => apiIndexes')
      BY <1>3, <3>1, Zenon
    <3>3. QED
      BY <1>1, <1>2, <1>3, <2>1, <2>2, <2>5, <3>2, ScriptGoes
  <2>6. QED
    BY <2>3, <2>4, <2>5
<1>8. CASE RecordScript(s)
  <2>1. /\ script[s] = "record" /\ apiColumns' = apiColumns /\ apiIndexes' = apiIndexes
        /\ ScriptGoto(s, "over")
    BY <1>8 DEF RecordScript
  <2>2. apiColumns
    BY <2>1 DEF MigInv, ScriptInOrder
  <2>3. scriptRow' \in BOOLEAN
    BY <1>3, <1>8, Zenon DEF RecordScript
  <2>4. QED
    BY <1>1, <1>2, <1>3, <2>1, <2>2, <2>3, ScriptGoes
<1>9. QED
  BY <1>4, <1>5, <1>6, <1>7, <1>8

LEMMA MigInvStep ==
    ASSUME MigInv, [MigNext]_migVars
    PROVE  MigInv'
<1>1. ASSUME NEW m \in Instances,
             \/ BeginMigrateDatabase(m) \/ EnsureServiceTable(m) \/ ListPending(m)
             \/ RunMigration(m) \/ RecordMigration(m) \/ RunPolicy(m) \/ InstanceDies(m)
      PROVE  MigInv'
  BY <1>1, BeginMigrateDatabaseStep, QuietInstanceStep, ListPendingStep, RunMigrationStep,
     RecordMigrationStep
<1>2. ASSUME NEW s \in Scripts,
             \/ BeginScript(s) \/ EnsureScriptTable(s) \/ ScriptApplied(s) \/ FindColumns(s)
             \/ AddColumns(s) \/ AddIndexes(s) \/ RecordScript(s)
      PROVE  MigInv'
  BY <1>2, ScriptStep
<1>3. CASE UNCHANGED migVars
  <2>1. /\ UNCHANGED <<serviceTables, instance, migrating, scriptTables, script>>
        /\ FaultsCounted
    BY <1>3 DEF migVars, serviceTables, scriptTables, FaultsCounted
  <2>2. InOrder' /\ ScriptInOrder'
    BY <2>1, InstancesAside, ScriptsAside
  <2>3. MigTyped'
    BY <1>3 DEF MigInv, MigTyped, migVars
  <2>4. QED
    BY <2>2, <2>3 DEF MigInv, InOrder
<1>4. QED
  BY <1>1, <1>2, <1>3 DEF MigNext

LEMMA MigInvAlways == MigSpec => []MigInv
  BY MigInvInit, MigInvStep, PTL DEF MigSpec

(* The migrations keep to their types: what an instance has left to run are   *)
(* migrations that are registered, and its policies those of the file.      *)
THEOREM MigrationsTypeCorrect == MigSpec => []MigTypeOK
<1>1. ASSUME MigInv
      PROVE  MigTypeOK
  <2>1. MigTyped
    BY <1>1 DEF MigInv
  <2>2. {scriptRow, apiColumns, apiIndexes, migrating} \subseteq BOOLEAN
    BY <2>1, Zenon DEF MigTyped
  <2>3. QED
    BY <2>1, <2>2 DEF MigTyped, MigTypeOK, Instance
<1>2. QED
  BY <1>1, MigInvAlways, PTL

(* However many instances and scripts run over one database, and wherever     *)
(* they die, migrations take effect in order, a row says applied only of one  *)
(* that has taken effect, none is run twice but after a failure or by         *)
(* instances that overlap, and the script's row means its columns.          *)
THEOREM MigrationsInOrder == MigSpec => []MigrationsHonest
<1>1. ASSUME MigInv
      PROVE  MigrationsHonest
  <2>1. MigTyped /\ DoneInOrder /\ ScriptInOrder /\ \A i \in MigrationIds : RunOnce(i)
    BY <1>1 DEF MigInv
  <2>2. ASSUME NEW i \in MigrationIds, migRuns[i] > 1
        PROVE  migrating \/ migFaults > 0 \/ i \in migRefused
    BY <2>1, <2>2 DEF MigTyped, RunOnce
  <2>3. scriptRow => apiColumns
    BY <2>1 DEF ScriptInOrder
  <2>4. scriptRow /\ migFaults = 0 => apiIndexes \/ \E s \in Scripts : script[s] = "index"
    BY <2>1 DEF ScriptInOrder
  <2>5. QED
    BY <2>1, <2>2, <2>3, <2>4 DEF DoneInOrder, MigrationsHonest
<1>2. QED
  BY <1>1, MigInvAlways, PTL

-----------------------------------------------------------------------------
(* The credentials of users.                                                *)

Writes == {"get", "getByService", "update", "delete", "hardDelete"}

LEMMA CredInvInit == CredInit => CredInv
<1> SUFFICES ASSUME CredInit
             PROVE  CredInv
  OBVIOUS
<1> DEFINE none == [state |-> "none", user |-> "none", name |-> "none", touched |-> 0]
<1>1. /\ credRow = [i \in CredIds |-> none] /\ credCall = [c \in CredCallers |-> NoOp]
      /\ credOps = 0 /\ credChanged = {} /\ credLogged = {} /\ credUnread = {}
      /\ credDeleted = {} /\ credErrors = 0
  BY DEF CredInit
<1>2. 0 \in 0 .. MaxCredOps /\ 0 \in 0 .. NumCredentials
  BY CredAssumption
<1>3. none \in CredRow /\ none.touched = 0 /\ none.state = "none"
  BY <1>2 DEF CredRow
<1>4. NoOp \in CredCall /\ NoOp.at = "idle"
  BY <1>2 DEF NoOp, CredCall, CredOpNames
<1> HIDE DEF none
<1>5. CredTyped
  BY <1>1, <1>2, <1>3, <1>4 DEF CredTyped
<1>6. TouchesCounted
  <2>1. Writing = {}
    BY <1>1, <1>4 DEF Writing
  <2>2. IsFiniteSet(Writing) /\ Cardinality(Writing) = 0
    BY <2>1, FS_EmptySet
  <2>3. QED
    BY <1>1, <1>3, <2>2 DEF TouchesCounted
<1>7. DeletedStay /\ ChangesLogged
  BY <1>1, <1>3 DEF DeletedStay, ChangesLogged
<1>8. \A c \in CredCallers : CallCurrent(c)
  BY <1>1, <1>4 DEF CallCurrent
<1>9. QED
  BY <1>5, <1>6, <1>7, <1>8 DEF CredInv

(* The next updatedAt is no more than the operations that have touched rows. *)
LEMMA LaterCounted ==
    ASSUME CredTyped, TouchesCounted
    PROVE  /\ Later \in Nat /\ Cardinality(Writing) \in Nat
           /\ Later + Cardinality(Writing) <= credOps + 1
           /\ \A i \in CredIds : credRow[i].touched \in Nat
<1> DEFINE times == {t \in 0 .. MaxCredOps :
                       t = 0 \/ \E i \in CredIds : credRow[i].touched = t}
           back == {n \in 0 .. MaxCredOps : MaxCredOps - n \in times}
<1>1. /\ Cardinality(Writing) \in Nat /\ credOps \in Nat
      /\ Cardinality(Writing) <= credOps
      /\ \A i \in CredIds : /\ credRow[i].touched \in 0 .. MaxCredOps
                            /\ credRow[i].touched + Cardinality(Writing) <= credOps
  BY FS_CardinalityType, CredAssumption DEF CredTyped, TouchesCounted, CredRow
<1>2. PICK n \in back : \A k \in back : n <= k
  <2>1. back \in SUBSET Nat
    OBVIOUS
  <2>2. MaxCredOps \in back
    BY CredAssumption
  <2> HIDE DEF back
  <2>3. QED
    BY <2>1, <2>2, LeastExists
<1>3. /\ MaxCredOps - n \in times
      /\ \A i \in CredIds : credRow[i].touched <= MaxCredOps - n
  <2>1. ASSUME NEW i \in CredIds
        PROVE  credRow[i].touched <= MaxCredOps - n
    <3>1. credRow[i].touched \in times
      BY <1>1
    <3>2. MaxCredOps - credRow[i].touched \in back
      BY <1>1, <3>1, CredAssumption
    <3>3. n \in Nat /\ n <= MaxCredOps - credRow[i].touched
      BY <1>2, <3>2
    <3>4. QED
      BY <1>1, <3>3, CredAssumption
  <2>2. QED
    BY <2>1
<1> DEFINE greatest == CHOOSE t \in 0 .. MaxCredOps :
                         /\ t = 0 \/ \E i \in CredIds : credRow[i].touched = t
                         /\ \A i \in CredIds : credRow[i].touched <= t
<1>4. /\ greatest \in 0 .. MaxCredOps
      /\ greatest = 0 \/ \E i \in CredIds : credRow[i].touched = greatest
  BY <1>3
<1>5. Later = 1 + greatest
  BY DEF Later
<1> HIDE DEF greatest
<1>6. QED
  BY <1>1, <1>4, <1>5, CredAssumption

(* What a call becomes, and that the others stay.                           *)
LEMMA CallBecomes ==
    ASSUME CredTyped, NEW c \in CredCallers, NEW r \in CredCall,
           credCall' = [credCall EXCEPT ![c] = r]
    PROVE  /\ credCall' \in [CredCallers -> CredCall] /\ credCall'[c] = r
           /\ \A d \in CredCallers \ {c} : credCall'[d] = credCall[d]
  BY DEF CredTyped

(* The calls that are to write, when one of them begins or ends to be.      *)
LEMMA WritingBecomes ==
    ASSUME CredTyped, TouchesCounted, NEW c \in CredCallers,
           \A d \in CredCallers \ {c} : credCall'[d] = credCall[d]
    PROVE  /\ IsFiniteSet(Writing)'
           /\ (credCall'[c].at = "write" <=> credCall[c].at = "write") =>
                Cardinality(Writing)' = Cardinality(Writing)
           /\ credCall'[c].at = "write" /\ credCall[c].at # "write" =>
                Cardinality(Writing)' = Cardinality(Writing) + 1
           /\ credCall'[c].at # "write" /\ credCall[c].at = "write" =>
                Cardinality(Writing)' = Cardinality(Writing) - 1
<1>1. IsFiniteSet(Writing)
  BY DEF TouchesCounted
<1>2. CASE credCall'[c].at = "write" <=> credCall[c].at = "write"
  <2>1. Writing' = Writing
    BY <1>2 DEF Writing
  <2>2. QED
    BY <1>1, <1>2, <2>1
<1>3. CASE credCall'[c].at = "write" /\ credCall[c].at # "write"
  <2>1. Writing' = Writing \cup {c} /\ c \notin Writing
    BY <1>3 DEF Writing
  <2>2. QED
    BY <1>1, <1>3, <2>1, FS_AddElement
<1>4. CASE credCall'[c].at # "write" /\ credCall[c].at = "write"
  <2>1. Writing' = Writing \ {c} /\ c \in Writing
    BY <1>4 DEF Writing
  <2>2. QED
    BY <1>1, <1>4, <2>1, FS_RemoveElement
<1>5. QED
  BY <1>2, <1>3, <1>4

(* What a write makes of a row that is its user's.                          *)
LEMMA RowBecomes ==
    ASSUME NEW op \in Writes, NEW row \in CredRow, row.state \in {"active", "inactive"},
           Later \in 0 .. MaxCredOps
    PROVE  /\ Becomes(op, row) \in CredRow /\ Becomes(op, row).user = row.user
           /\ Becomes(op, row).state \in {row.state, "inactive", "gone"}
           /\ op = "delete" => Becomes(op, row).state = "inactive"
           /\ Becomes(op, row).state = "gone" <=> op = "hardDelete"
           /\ Becomes(op, row).touched \in {row.touched, Later}
  BY DEF Becomes, Writes, CredRow, Touched, Updated, Deactivated, Removed

(* An operation selects a row of its user.                                  *)
LEMMA SelectCredentialStep ==
    ASSUME CredInv, NEW c \in CredCallers, NEW op \in Writes, NEW user \in CredUsers,
           NEW i \in CredIds, Mine(i, user), SelectCredential(c, op, user, i)
    PROVE  CredInv'
<1> USE DEF CredInv
<1> DEFINE r == [at |-> "write", op |-> op, id |-> i, number |-> credOps + 1, user |-> user]
<1>1. /\ credCall[c].at = "idle" /\ credOps < MaxCredOps /\ credOps' = credOps + 1
      /\ credCall' = [credCall EXCEPT ![c] = r]
      /\ UNCHANGED <<credRow, credChanged, credLogged, credUnread, credDeleted, credErrors>>
  BY DEF SelectCredential, BeginOp
<1>2. credOps \in Nat /\ credOps + 1 \in CredOps /\ credOps' \in 0 .. MaxCredOps
  BY <1>1, CredAssumption DEF CredTyped, CredOps
<1>3. r \in CredCall /\ r.at = "write" /\ Entry(r) \in CredEntry
  BY <1>2, CredAssumption
  DEF CredCall, CredOpNames, Writes, CredIds, CredOps, Entry, CredEntry
<1>4. r.id = i /\ r.user = user /\ r.op \notin {"none", "add"}
  BY DEF Writes
<1> HIDE DEF r
<1>5. /\ credCall' \in [CredCallers -> CredCall] /\ credCall'[c] = r
      /\ \A d \in CredCallers \ {c} : credCall'[d] = credCall[d]
  BY <1>1, <1>3, CallBecomes
<1>6. CredTyped'
  BY <1>1, <1>2, <1>5 DEF CredTyped
<1>7. TouchesCounted'
  <2>1. /\ IsFiniteSet(Writing)' /\ Cardinality(Writing)' = Cardinality(Writing) + 1
    BY <1>1, <1>3, <1>5, WritingBecomes
  <2>2. /\ Cardinality(Writing) \in Nat /\ \A j \in CredIds : credRow[j].touched \in Nat
    BY LaterCounted
  <2>3. QED
    BY <1>1, <1>2, <2>1, <2>2 DEF TouchesCounted
<1>8. DeletedStay'
  BY <1>1 DEF DeletedStay
<1>9. ChangesLogged'
  BY <1>1, <1>5 DEF ChangesLogged
<1>10. ASSUME NEW d \in CredCallers
       PROVE  CallCurrent(d)'
  <2>1. CASE d = c
    BY <1>1, <1>3, <1>4, <1>5, <2>1 DEF CallCurrent, Mine
  <2>2. CASE d # c
    BY <1>1, <1>5, <2>2 DEF CallCurrent
  <2>3. QED
    BY <2>1, <2>2
<1>11. QED
  BY <1>6, <1>7, <1>8, <1>9, <1>10

(* A credential is added, under the first id that is free.                  *)
LEMMA InsertCredentialStep ==
    ASSUME CredInv, NEW c \in CredCallers, NEW user \in CredUsers, NEW name \in CredNames,
           NEW i \in CredIds, credRow[i].state = "none",
           credRow' = [credRow EXCEPT ![i] = [state |-> "active", user |-> user, name |-> name,
                                              touched |-> Later]],
           \/ /\ BeginOp(c, "add", user, i, "log")
              /\ credChanged' = credChanged \cup {[number |-> credOps', id |-> i]}
              /\ UNCHANGED credErrors
           \/ /\ CredStatementFails
              /\ credCall[c].at = "idle" /\ credOps < MaxCredOps
              /\ credOps' = credOps + 1
              /\ UNCHANGED <<credCall, credChanged>>,
           UNCHANGED <<credLogged, credUnread, credDeleted>>
    PROVE  CredInv'
<1> USE DEF CredInv
<1> DEFINE row == [state |-> "active", user |-> user, name |-> name, touched |-> Later]
           r == [at |-> "log", op |-> "add", id |-> i, number |-> credOps + 1, user |-> user]
           entry == [number |-> credOps + 1, id |-> i]
<1>1. credCall[c].at = "idle" /\ credOps < MaxCredOps /\ credOps' = credOps + 1
  BY DEF BeginOp
<1>2. credOps \in Nat /\ credOps + 1 \in CredOps /\ credOps' \in 0 .. MaxCredOps
  BY <1>1, CredAssumption DEF CredTyped, CredOps
<1>3. /\ Later \in Nat /\ Cardinality(Writing) \in Nat
      /\ Later + Cardinality(Writing) <= credOps + 1
      /\ \A j \in CredIds : credRow[j].touched \in Nat
  BY LaterCounted
<1>4. row \in CredRow /\ row.state = "active" /\ row.touched = Later
  BY <1>1, <1>2, <1>3, CredAssumption DEF CredRow
<1>5. /\ r \in CredCall /\ r.at = "log" /\ Entry(r) = entry /\ entry \in CredEntry
  BY <1>2, CredAssumption DEF CredCall, CredOpNames, CredIds, CredOps, Entry, CredEntry
<1>6. \/ /\ credCall' = [credCall EXCEPT ![c] = r]
         /\ credChanged' = credChanged \cup {entry}
         /\ credErrors' = credErrors
      \/ credErrors' = credErrors + 1 /\ UNCHANGED <<credCall, credChanged>>
  BY <1>1 DEF BeginOp, CredStatementFails
<1> HIDE DEF r, row, entry
<1>7. /\ credCall' \in [CredCallers -> CredCall]
      /\ \A d \in CredCallers \ {c} : credCall'[d] = credCall[d]
      /\ \/ credCall'[c] = r /\ entry \in credChanged'
         \/ credCall'[c] = credCall[c] /\ credErrors' = credErrors + 1
  <2>1. CASE credCall' = [credCall EXCEPT ![c] = r]
    BY <1>5, <1>6, <2>1, CallBecomes
  <2>2. CASE UNCHANGED credCall
    BY <1>6, <1>5, <2>2, CallBecomes DEF CredTyped
  <2>3. QED
    BY <1>6, <2>1, <2>2
<1>8. /\ credRow' \in [CredIds -> CredRow] /\ credRow'[i] = row
      /\ \A j \in CredIds \ {i} : credRow'[j] = credRow[j]
  BY <1>4 DEF CredTyped, row
<1>9. /\ credErrors \in Nat /\ credErrors' \in Nat /\ credErrors' >= credErrors
      /\ credChanged' \subseteq CredEntry /\ credChanged \subseteq credChanged'
      /\ credChanged' \subseteq credChanged \cup {entry}
      /\ credLogged' = credLogged /\ credUnread' = credUnread
  BY <1>5, <1>6 DEF CredTyped
<1>10. CredTyped'
  BY <1>2, <1>7, <1>8, <1>9 DEF CredTyped
<1>11. TouchesCounted'
  <2>1. credCall'[c].at # "write"
    BY <1>1, <1>5, <1>7
  <2>2. /\ IsFiniteSet(Writing)' /\ Cardinality(Writing)' = Cardinality(Writing)
    BY <1>1, <1>7, <2>1, WritingBecomes
  <2>3. QED
    BY <1>1, <1>2, <1>3, <1>4, <1>8, <2>2 DEF TouchesCounted
<1>12. i \notin credDeleted
  BY DEF DeletedStay
<1>13. DeletedStay'
  BY <1>4, <1>8, <1>12 DEF DeletedStay
<1>14. \A j \in CredIds : credRow[j].state = "gone" => credRow'[j].state = "gone"
  BY <1>8
<1>15. ChangesLogged'
  <2>1. \A e \in credLogged' \ credChanged' : credRow'[e.id].state = "gone"
    BY <1>9, <1>14 DEF ChangesLogged, CredTyped, CredEntry
  <2>2. ASSUME credErrors' = 0, NEW e \in credChanged' \ credLogged', e \notin credUnread'
        PROVE  \E d \in CredCallers : credCall'[d].at = "log" /\ Entry(credCall'[d]) = e
    <3>1. credErrors = 0 /\ credCall'[c] = r
      BY <1>7, <1>9, <2>2
    <3>2. CASE e = entry
      BY <1>5, <3>1, <3>2
    <3>3. CASE e # entry
      <4>1. e \in credChanged \ credLogged /\ e \notin credUnread
        BY <1>9, <2>2, <3>3
      <4>2. PICK d \in CredCallers : credCall[d].at = "log" /\ Entry(credCall[d]) = e
        BY <3>1, <4>1 DEF ChangesLogged
      <4>3. QED
        BY <1>1, <1>7, <4>2
    <3>4. QED
      BY <3>2, <3>3
  <2>3. QED
    BY <2>1, <2>2 DEF ChangesLogged, Entry
<1>16. ASSUME NEW d \in CredCallers
       PROVE  CallCurrent(d)'
  <2>1. CASE d = c
    BY <1>1, <1>5, <1>7, <2>1 DEF CallCurrent
  <2>2. CASE d # c
    BY <1>7, <1>8, <1>9, <1>14, <2>2 DEF CallCurrent, Entry, CredEntry
  <2>3. QED
    BY <2>1, <2>2
<1>17. QED
  BY <1>10, <1>11, <1>13, <1>15, <1>16

(* An operation logs what it has done, or fails to, and is over.            *)
LEMMA LogCredentialStep ==
    ASSUME CredInv, NEW c \in CredCallers, NEW op, LogCredential(c, op)
    PROVE  CredInv'
<1> USE DEF CredInv
<1> DEFINE entry == Entry(credCall[c])
<1>1. /\ credCall[c].at = "log" /\ credCall' = [credCall EXCEPT ![c] = NoOp]
      /\ \/ credLogged' = credLogged \cup {entry} /\ credErrors' = credErrors
         \/ credErrors' = credErrors + 1 /\ credLogged' = credLogged
      /\ UNCHANGED <<credRow, credOps, credChanged, credUnread, credDeleted>>
  BY DEF LogCredential, CredStatementFails
<1>2. NoOp \in CredCall /\ NoOp.at = "idle"
  BY CredAssumption DEF NoOp, CredCall, CredOpNames
<1>3. /\ credCall' \in [CredCallers -> CredCall] /\ credCall'[c] = NoOp
      /\ \A d \in CredCallers \ {c} : credCall'[d] = credCall[d]
  BY <1>1, <1>2, CallBecomes
<1>4. entry \in CredEntry /\ (entry \in credChanged \/ credRow[entry.id].state = "gone")
  BY <1>1 DEF CallCurrent, Entry
<1>5. CredTyped'
  BY <1>1, <1>3, <1>4 DEF CredTyped
<1>6. TouchesCounted'
  <2>1. /\ IsFiniteSet(Writing)' /\ Cardinality(Writing)' = Cardinality(Writing)
    BY <1>1, <1>2, <1>3, WritingBecomes
  <2>2. QED
    BY <1>1, <2>1 DEF TouchesCounted
<1>7. DeletedStay'
  BY <1>1 DEF DeletedStay
<1>8. ChangesLogged'
  <2>1. \A e \in credLogged' \ credChanged' : credRow'[e.id].state = "gone"
    BY <1>1, <1>4 DEF ChangesLogged
  <2>2. ASSUME credErrors' = 0, NEW e \in credChanged' \ credLogged', e \notin credUnread'
        PROVE  \E d \in CredCallers : credCall'[d].at = "log" /\ Entry(credCall'[d]) = e
    <3>1. credErrors = 0 /\ credLogged' = credLogged \cup {entry}
      BY <1>1, <2>2 DEF CredTyped
    <3>2. PICK d \in CredCallers : credCall[d].at = "log" /\ Entry(credCall[d]) = e
      BY <1>1, <2>2, <3>1 DEF ChangesLogged
    <3>3. d # c
      BY <2>2, <3>1, <3>2
    <3>4. QED
      BY <1>3, <3>2, <3>3
  <2>3. QED
    BY <2>1, <2>2 DEF ChangesLogged, Entry
<1>9. ASSUME NEW d \in CredCallers
      PROVE  CallCurrent(d)'
  <2>1. CASE d = c
    BY <1>2, <1>3, <2>1 DEF CallCurrent
  <2>2. CASE d # c
    BY <1>1, <1>3, <2>2 DEF CallCurrent
  <2>3. QED
    BY <2>1, <2>2
<1>10. QED
  BY <1>5, <1>6, <1>7, <1>8, <1>9

(* An operation writes the row that it has selected, if that is still there.  *)
LEMMA WriteCredentialStep ==
    ASSUME CredInv, NEW c \in CredCallers, NEW op \in Writes, WriteCredential(c, op)
    PROVE  CredInv'
<1> USE DEF CredInv
<1> DEFINE id == credCall[c].id
           entry == Entry(credCall[c])
           there == Mine(id, credCall[c].user)
           written == [credRow EXCEPT ![id] = Becomes(op, @)]
           deletes == IF op \in {"delete", "hardDelete"} THEN {id} ELSE {}
           r == [credCall[c] EXCEPT !.at = "log"]
<1>1. /\ credCall[c].at = "write" /\ credCall[c] \in CredCall
      /\ id \in CredIds /\ entry \in CredEntry /\ entry.id = id
      /\ credRow[id] \in CredRow /\ credRow[id].user = credCall[c].user
      /\ credRow[id].state # "none"
      /\ UNCHANGED <<credOps, credLogged>>
  BY DEF WriteCredential, CredTyped, CallCurrent, Entry
<1>2. \/ /\ there /\ credRow' = written /\ credDeleted' = credDeleted \cup deletes
      \/ UNCHANGED <<credRow, credDeleted>>
  BY DEF WriteCredential
<1>3. \/ /\ credChanged' = credChanged \cup (IF there THEN {entry} ELSE {})
         /\ credCall' = [credCall EXCEPT ![c].at = "log"] /\ credErrors' = credErrors
         /\ credUnread' = credUnread
      \/ /\ credChanged' = credChanged \cup (IF there THEN {entry} ELSE {})
         /\ credCall' = [credCall EXCEPT ![c] = NoOp] /\ credErrors' = credErrors
         /\ credUnread' = credUnread \cup {entry}
      \/ /\ credErrors' = credErrors + 1 /\ credChanged' = credChanged
         /\ credCall' = [credCall EXCEPT ![c] = NoOp] /\ credUnread' = credUnread
  BY DEF WriteCredential, CredStatementFails
<1>4. NoOp \in CredCall /\ NoOp.at = "idle"
  BY CredAssumption DEF NoOp, CredCall, CredOpNames
<1>5. r \in CredCall /\ r.at = "log" /\ Entry(r) = entry /\ r.id = id
  BY <1>1 DEF CredCall, Entry
<1>6. /\ credCall' \in [CredCallers -> CredCall]
      /\ \A d \in CredCallers \ {c} : credCall'[d] = credCall[d]
      /\ credUnread' \in {credUnread, credUnread \cup {entry}}
      /\ \/ /\ credCall'[c] = r /\ credErrors' = credErrors
            /\ credChanged' = credChanged \cup (IF there THEN {entry} ELSE {})
         \/ /\ credCall'[c] = NoOp /\ credErrors' = credErrors /\ entry \in credUnread'
            /\ credChanged' = credChanged \cup (IF there THEN {entry} ELSE {})
         \/ credCall'[c] = NoOp /\ credErrors' = credErrors + 1 /\ credChanged' = credChanged
  <2>1. CASE /\ credCall' = [credCall EXCEPT ![c] = NoOp]
             /\ \/ /\ credChanged' = credChanged \cup (IF there THEN {entry} ELSE {})
                   /\ credErrors' = credErrors /\ credUnread' = credUnread \cup {entry}
                \/ /\ credErrors' = credErrors + 1 /\ credChanged' = credChanged
                   /\ credUnread' = credUnread
    <3>1. /\ credCall' \in [CredCallers -> CredCall] /\ credCall'[c] = NoOp
          /\ \A d \in CredCallers \ {c} : credCall'[d] = credCall[d]
      BY <1>4, <2>1, CallBecomes
    <3>2. QED
      BY <2>1, <3>1
  <2>2. CASE /\ credChanged' = credChanged \cup (IF there THEN {entry} ELSE {})
             /\ credCall' = [credCall EXCEPT ![c].at = "log"] /\ credErrors' = credErrors
             /\ credUnread' = credUnread
    <3>1. credCall' = [credCall EXCEPT ![c] = r]
      BY <2>2
    <3> HIDE DEF r
    <3>2. /\ credCall' \in [CredCallers -> CredCall] /\ credCall'[c] = r
          /\ \A d \in CredCallers \ {c} : credCall'[d] = credCall[d]
      BY <1>5, <3>1, CallBecomes
    <3>3. QED
      BY <2>2, <3>2
  <2>3. QED
    BY <1>3, <2>1, <2>2
<1> HIDE DEF r
<1>7. /\ IsFiniteSet(Writing)' /\ Cardinality(Writing)' = Cardinality(Writing) - 1
      /\ Cardinality(Writing)' \in Nat
  <2>1. credCall'[c].at # "write"
    BY <1>4, <1>5, <1>6
  <2>2. /\ IsFiniteSet(Writing)' /\ Cardinality(Writing)' = Cardinality(Writing) - 1
    BY <1>1, <1>6, <2>1, WritingBecomes
  <2>3. IsFiniteSet(Writing)' => Cardinality(Writing)' \in Nat
    BY FS_CardinalityType
  <2>4. QED
    BY <2>2, <2>3
<1>8. /\ Later \in 0 .. MaxCredOps /\ Later + Cardinality(Writing)' <= credOps
      /\ Cardinality(Writing)' <= credOps
      /\ \A i \in CredIds : credRow[i].touched + Cardinality(Writing)' <= credOps
  <2>1. /\ Later \in Nat /\ Cardinality(Writing) \in Nat
        /\ Later + Cardinality(Writing) <= credOps + 1
        /\ \A i \in CredIds : credRow[i].touched \in Nat
    BY LaterCounted
  <2>2. credOps \in 0 .. MaxCredOps
    BY DEF CredTyped
  <2>3. QED
    BY <1>7, <2>1, <2>2, CredAssumption DEF TouchesCounted
<1>9. there => credRow[id].state \in {"active", "inactive"}
  BY DEF Mine
<1>10. credRow[id].state \in {"active", "inactive"} =>
         /\ Becomes(op, credRow[id]) \in CredRow
         /\ Becomes(op, credRow[id]).user = credRow[id].user
         /\ Becomes(op, credRow[id]).state \in {credRow[id].state, "inactive", "gone"}
         /\ op = "delete" => Becomes(op, credRow[id]).state = "inactive"
         /\ Becomes(op, credRow[id]).state = "gone" <=> op = "hardDelete"
         /\ Becomes(op, credRow[id]).touched \in {credRow[id].touched, Later}
  BY <1>1, <1>8, RowBecomes
<1>11. /\ credRow' \in [CredIds -> CredRow]
       /\ \A i \in CredIds \ {id} : credRow'[i] = credRow[i]
       /\ credRow'[id] = credRow[id] \/ (there /\ credRow'[id] = Becomes(op, credRow[id]))
       /\ credDeleted \subseteq credDeleted'
       /\ credDeleted' = credDeleted \/ (there /\ credDeleted' = credDeleted \cup deletes
                                         /\ credRow'[id] = Becomes(op, credRow[id]))
       /\ credRow'[id] # credRow[id] => credDeleted' = credDeleted \cup deletes
  BY <1>1, <1>2, <1>9, <1>10 DEF CredTyped
<1>12. /\ \A i \in CredIds : credRow'[i].user = credRow[i].user
       /\ \A i \in CredIds : credRow[i].state # "none" => credRow'[i].state # "none"
       /\ \A i \in CredIds : credRow'[i].touched \in {credRow[i].touched, Later}
       /\ \A i \in CredIds : credRow[i].state = "gone" => credRow'[i] = credRow[i]
  BY <1>9, <1>10, <1>11
<1>13. /\ credErrors' \in Nat /\ (credErrors' = 0 => credErrors = 0)
       /\ credChanged' \subseteq CredEntry /\ credChanged \subseteq credChanged'
       /\ credChanged' \subseteq credChanged \cup {entry}
       /\ credUnread' \subseteq CredEntry /\ credUnread \subseteq credUnread'
       /\ credErrors' = 0 => credCall'[c] = r \/ entry \in credUnread'
  BY <1>1, <1>6 DEF CredTyped
<1>14. CredTyped'
  <2>1. credDeleted' \subseteq CredIds
    BY <1>1, <1>11 DEF CredTyped
  <2>2. QED
    BY <1>1, <1>6, <1>11, <1>13, <2>1 DEF CredTyped
<1>15. TouchesCounted'
  BY <1>1, <1>7, <1>8, <1>12 DEF TouchesCounted
<1>16. DeletedStay'
  <2>1. ASSUME NEW i \in CredIds
        PROVE  /\ i \in credDeleted' => credRow'[i].state \in {"inactive", "gone"}
               /\ credRow'[i].state = "gone" => i \in credDeleted'
    <3>1. /\ i \in credDeleted => credRow[i].state \in {"inactive", "gone"}
          /\ credRow[i].state = "gone" => i \in credDeleted
      BY DEF DeletedStay
    <3>2. CASE i # id
      BY <1>11, <3>1, <3>2
    <3>3. CASE i = id
      BY <1>9, <1>10, <1>11, <3>1, <3>3
    <3>4. QED
      BY <3>2, <3>3
  <2>2. QED
    BY <2>1 DEF DeletedStay
<1>17. \A i \in CredIds : credRow[i].state = "gone" => credRow'[i].state = "gone"
  BY <1>12
<1>18. ~ there => credRow[id].state = "gone"
  BY <1>1 DEF Mine, CredRow
<1>19. ChangesLogged'
  <2>1. \A e \in credLogged' \ credChanged' : credRow'[e.id].state = "gone"
    BY <1>1, <1>13, <1>17 DEF ChangesLogged, CredTyped, CredEntry
  <2>2. ASSUME credErrors' = 0, NEW e \in credChanged' \ credLogged', e \notin credUnread'
        PROVE  \E d \in CredCallers : credCall'[d].at = "log" /\ Entry(credCall'[d]) = e
    <3>1. credErrors = 0 /\ (credCall'[c] = r \/ e # entry)
      BY <1>13, <2>2
    <3>2. CASE e = entry
      BY <1>5, <3>1, <3>2
    <3>3. CASE e # entry
      <4>1. e \in credChanged \ credLogged /\ e \notin credUnread
        BY <1>1, <1>13, <2>2, <3>3
      <4>2. PICK d \in CredCallers : credCall[d].at = "log" /\ Entry(credCall[d]) = e
        BY <3>1, <4>1 DEF ChangesLogged
      <4>3. d # c
        BY <1>1, <4>2
      <4>4. QED
        BY <1>6, <4>2, <4>3
    <3>4. QED
      BY <3>2, <3>3
  <2>3. QED
    BY <2>1, <2>2 DEF ChangesLogged, Entry
<1>20. ASSUME NEW d \in CredCallers
       PROVE  CallCurrent(d)'
  <2>1. CASE d = c
    <3>1. CASE credCall'[c] = NoOp
      BY <1>4, <2>1, <3>1 DEF CallCurrent
    <3>2. CASE credCall'[c] # NoOp
      <4>1. credCall'[c] = r /\ (there => entry \in credChanged')
        BY <1>6, <3>2
      <4>2. QED
        BY <1>1, <1>5, <1>17, <1>18, <2>1, <4>1 DEF CallCurrent
    <3>3. QED
      BY <3>1, <3>2
  <2>2. CASE d # c
    BY <1>6, <1>12, <1>13, <1>17, <2>2 DEF CallCurrent, Entry, CredEntry
  <2>3. QED
    BY <2>1, <2>2
<1>21. QED
  BY <1>14, <1>15, <1>16, <1>19, <1>20

LEMMA CredInvStep ==
    ASSUME CredInv, [CredNext]_credVars
    PROVE  CredInv'
<1>1. ASSUME NEW c \in CredCallers, AddUserCredential(c)
      PROVE  CredInv'
  <2>1. CASE LogCredential(c, "add")
    BY <2>1, LogCredentialStep
  <2>2. CASE ~ LogCredential(c, "add")
    <3>1. PICK user \in CredUsers, name \in CredNames, i \in CredIds :
            /\ credRow[i].state = "none"
            /\ credRow' = [credRow EXCEPT ![i] = [state |-> "active", user |-> user,
                                                  name |-> name, touched |-> Later]]
            /\ \/ /\ BeginOp(c, "add", user, i, "log")
                  /\ credChanged' = credChanged \cup {[number |-> credOps', id |-> i]}
                  /\ UNCHANGED credErrors
               \/ /\ CredStatementFails
                  /\ credCall[c].at = "idle" /\ credOps < MaxCredOps
                  /\ credOps' = credOps + 1
                  /\ UNCHANGED <<credCall, credChanged>>
            /\ UNCHANGED <<credLogged, credUnread, credDeleted>>
      BY <1>1, <2>2 DEF AddUserCredential
    <3>2. QED
      BY <3>1, InsertCredentialStep
  <2>3. QED
    BY <2>1, <2>2
<1>2. ASSUME NEW c \in CredCallers,
             \/ GetUserCredentialById(c) \/ GetUserCredentialByService(c)
             \/ UpdateUserCredential(c) \/ DeleteUserCredential(c)
             \/ HardDeleteUserCredential(c)
      PROVE  CredInv'
  <2>1. PICK op \in Writes :
          \/ \E user \in CredUsers, i \in CredIds :
               Mine(i, user) /\ SelectCredential(c, op, user, i)
          \/ WriteCredential(c, op)
          \/ LogCredential(c, op)
    BY <1>2 DEF GetUserCredentialById, GetUserCredentialByService, UpdateUserCredential,
         DeleteUserCredential, HardDeleteUserCredential, MineActive, Writes
  <2>2. QED
    BY <2>1, SelectCredentialStep, WriteCredentialStep, LogCredentialStep
<1>3. CASE UNCHANGED credVars
  <2>1. CredTyped' /\ DeletedStay' /\ Writing' = Writing
    BY <1>3 DEF CredInv, CredTyped, DeletedStay, Writing, credVars
  <2>2. TouchesCounted' /\ ChangesLogged'
    BY <1>3, <2>1 DEF CredInv, TouchesCounted, ChangesLogged, credVars
  <2>3. \A c \in CredCallers : CallCurrent(c)'
    BY <1>3, <2>1 DEF CredInv, CallCurrent, credVars
  <2>4. QED
    BY <2>1, <2>2, <2>3 DEF CredInv
<1>4. QED
  BY <1>1, <1>2, <1>3 DEF CredNext

LEMMA CredInvAlways == CredSpec => []CredInv
  BY CredInvInit, CredInvStep, PTL DEF CredSpec

(* The credentials keep to their types: updatedAt never passes the number of  *)
(* operations, as each touches its row once.                                *)
THEOREM CredentialsTypeCorrect == CredSpec => []CredTypeOK
<1>1. ASSUME CredInv
      PROVE  CredTypeOK
  BY <1>1 DEF CredInv, CredTyped, CredTypeOK, CredRow, CredCall, CredEntry
<1>2. QED
  BY <1>1, CredInvAlways, PTL

(* However the operations of however many callers interleave, and whichever   *)
(* statement fails or payload cannot be decrypted, a credential once deleted  *)
(* is never active again; an operation that is logged but changed nothing     *)
(* found its own row deleted for good; and as long as no statement fails, a   *)
(* change that is not logged is of a call under way or of a read that could   *)
(* not decrypt what it had selected.                                        *)
THEOREM CredentialsKept == CredSpec => []CredentialsHonest
<1>1. ASSUME CredInv
      PROVE  CredentialsHonest
  BY <1>1 DEF CredInv, CredTyped, DeletedStay, ChangesLogged, CredentialsHonest
<1>2. QED
  BY <1>1, CredInvAlways, PTL

-----------------------------------------------------------------------------
(* MCPlatform: while another component runs, each stays as it began.        *)

LEMMA PartsBegin ==
    Init => RedisInit /\ HealthInit /\ MigInit /\ CredInit
  BY DEF Init

LEMMA PartsStep ==
    ASSUME [Next]_vars
    PROVE  /\ [RedisNext]_redisVars /\ [HealthNext]_healthVars
           /\ [MigNext]_migVars /\ [CredNext]_credVars
<1>1. CASE UNCHANGED vars
  BY <1>1 DEF vars
<1>2. CASE Next
  BY <1>2 DEF Next, Choose
<1>3. QED
  BY <1>1, <1>2

LEMMA PartsImplemented ==
    Spec => RedisSpec /\ HealthSpec /\ MigSpec /\ CredSpec
  BY PartsBegin, PartsStep, PTL DEF Spec, RedisSpec, HealthSpec, MigSpec, CredSpec

(* In every behavior of MCPlatform, whichever component it is of and with      *)
(* whatever constants: the Redis service says connected of a client that is,  *)
(* the health rows and their summary show the last checks, migrations take    *)
(* effect in order and are recorded after, and a deleted credential stays so. *)
THEOREM PlatformCorrect ==
    Spec => [](RedisStatusHonest /\ HealthHonest /\ MigrationsHonest /\ CredentialsHonest)
  BY PartsImplemented, RedisHonest, HealthTruthful, MigrationsInOrder, CredentialsKept, PTL

=============================================================================
