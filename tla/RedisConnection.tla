-------------------------- MODULE RedisConnection --------------------------
(***************************************************************************)
(* The Redis connection of src/services/redisService.ts and the health      *)
(* check of src/services/redisHealthCheck.ts that initializes it.  Every     *)
(* connect makes a client of its own, whose connect, error and close events  *)
(* all go to the same service, long after it has been replaced if it lives   *)
(* on.  The client, ioredis with its own retries off, is external.          *)
(***************************************************************************)
EXTENDS Integers

CONSTANTS
    NumRedisClients,       \* bound: calls of connect
    RedisChecks,           \* calls of checkRedisHealth
    MaxReconnectAttempts,
    MaxRedisCloses         \* bound: calls of close

RedisClients == 1 .. NumRedisClients

ASSUME RedisAssumption == NumRedisClients \in Nat /\ MaxReconnectAttempts \in Nat

VARIABLES
    redisStatus,
    redisClient,    \* the client of the service, 0 for null
    conn,           \* the state of each client
    waitFor,        \* the promise of its waitForConnection
    onceConnected,  \* clients whose waitForConnection still listens for 'connected'
    onceError,      \* ... and for 'error'
    reconnects,     \* reconnectAttempts
    reconnectTimer,
    redisInMemory,
    redisCheck,     \* where each checkRedisHealth is, the client it awaits or pings,
                    \* and its verdict
    quitting,       \* the client a close is waiting for, 0 for none
    leaked,         \* history: a client was replaced or dropped before it was closed
    redisCrashed,   \* an 'error' event without a listener ended the process
    redisCloses

redisVars == <<redisStatus, redisClient, conn, waitFor, onceConnected, onceError, reconnects,
               reconnectTimer, redisInMemory, redisCheck, quitting, leaked, redisCrashed,
               redisCloses>>
redisListeners == <<waitFor, onceConnected, onceError>>

RedisInit ==
    /\ redisStatus = "disconnected"
    /\ redisClient = 0
    /\ conn = [k \in RedisClients |-> "new"]
    /\ waitFor = [k \in RedisClients |-> "none"]
    /\ onceConnected = {} /\ onceError = {}
    /\ reconnects = 0
    /\ reconnectTimer = FALSE
    /\ redisInMemory = FALSE
    /\ redisCheck = [h \in RedisChecks |-> [at |-> "idle", client |-> 0, verdict |-> "none"]]
    /\ quitting = 0
    /\ leaked = FALSE
    /\ redisCrashed = FALSE
    /\ redisCloses = 0

RedisAvailable == redisStatus = "connected" /\ redisClient # 0

-----------------------------------------------------------------------------
(* The service                                                              *)

\* connect: a new client takes the place of the old.
Connect(k) ==
    /\ conn[k] = "new" /\ \A j \in 1 .. k - 1 : conn[j] # "new"
    /\ conn' = [conn EXCEPT ![k] = "opening"]
    /\ redisStatus' = "connecting"
    /\ redisClient' = k
    /\ waitFor' = [waitFor EXCEPT ![k] = "waiting"]
    /\ onceConnected' = onceConnected \cup {k}
    /\ onceError' = onceError \cup {k}
    /\ leaked' = (leaked \/ \E j \in RedisClients : conn[j] \notin {"new", "closed"})

\* The promises of the clients in ks settle.
Settle(ks, outcome) ==
    waitFor' = [k \in RedisClients |-> IF k \in ks /\ waitFor[k] = "waiting"
                                       THEN outcome ELSE waitFor[k]]

\* waitForConnection gives up; its listeners stay.
ConnectionTimesOut(k) ==
    /\ waitFor[k] = "waiting"
    /\ redisStatus # "connected"
    /\ redisStatus' = "error"
    /\ Settle({k}, "failed")
    /\ UNCHANGED <<redisClient, conn, onceConnected, onceError, reconnects, reconnectTimer,
                   redisInMemory, redisCheck, quitting, leaked, redisCrashed, redisCloses>>

HandleConnect(k) ==
    /\ conn[k] = "opening"
    /\ conn' = [conn EXCEPT ![k] = "open"]
    /\ redisStatus' = "connected"
    /\ reconnects' = 0
    /\ Settle(onceConnected, "connected")
    /\ onceConnected' = {}
    /\ UNCHANGED <<redisClient, onceError, reconnectTimer, redisInMemory, redisCheck,
                   quitting, leaked, redisCrashed, redisCloses>>

\* The client reports an error, and will then be closed.  Emitting it throws
\* when nobody listens.
HandleError(k) ==
    /\ conn[k] \in {"opening", "open"}
    /\ conn' = [conn EXCEPT ![k] = "closing"]
    /\ Settle(onceError, "failed")
    /\ onceError' = {}
    /\ redisCrashed' = (onceError = {})
    /\ UNCHANGED <<redisStatus, redisClient, onceConnected, reconnects, reconnectTimer,
                   redisInMemory, redisCheck, quitting, leaked, redisCloses>>

\* Mutant: the disconnection that uses up the last attempt is not counted.
KeptConnected == redisStatus = "connected" /\ reconnects + 1 < MaxReconnectAttempts

WasConnected == redisStatus = "connected"

\* Mutant: one attempt more than allowed.
AttemptsExceeded == reconnects > MaxReconnectAttempts

AttemptsUsedUp == reconnects >= MaxReconnectAttempts

\* handleDisconnect, and the scheduleReconnect that only it calls: nothing when
\* the service was connecting or in error, so that a reconnect that fails is
\* the last.
HandleDisconnect(k) ==
    /\ conn[k] \in {"open", "closing"}
    /\ conn' = [conn EXCEPT ![k] = "closed"]
    /\ IF WasConnected
       THEN /\ redisStatus' = "disconnected"
            /\ IF AttemptsUsedUp
               THEN /\ redisInMemory' = TRUE
                    /\ reconnectTimer' = FALSE
                    /\ UNCHANGED reconnects
               ELSE /\ reconnectTimer' = TRUE
                    /\ reconnects' = reconnects + 1
                    /\ UNCHANGED redisInMemory
       ELSE UNCHANGED <<redisStatus, reconnects, reconnectTimer, redisInMemory>>
    /\ UNCHANGED <<redisClient, redisListeners, redisCheck, quitting, leaked, redisCrashed,
                   redisCloses>>

ReconnectTimerFires ==
    /\ reconnectTimer
    /\ reconnectTimer' = FALSE
    /\ \/ /\ redisInMemory
          /\ UNCHANGED <<redisStatus, redisClient, conn, redisListeners, leaked>>
       \/ ~ redisInMemory /\ \E k \in RedisClients : Connect(k)
    /\ UNCHANGED <<reconnects, redisInMemory, redisCheck, quitting, redisCrashed, redisCloses>>

-----------------------------------------------------------------------------
(* checkRedisHealth                                                         *)

CheckGoto(h, label, k) ==
    redisCheck' = [redisCheck EXCEPT ![h] = [@ EXCEPT !.at = label, !.client = k]]

CheckOver(h, verdict) ==
    redisCheck' = [redisCheck EXCEPT ![h] = [@ EXCEPT !.at = "over", !.verdict = verdict]]

\* What checkHealth does first: it pings the client, if any.
PingOrGiveUp(h) ==
    IF redisInMemory \/ redisClient = 0
    THEN CheckOver(h, "error")
    ELSE CheckGoto(h, "ping", redisClient)

\* The service is initialized when it has no client.
CheckRedisHealth(h) ==
    /\ redisCheck[h].at = "idle"
    /\ IF redisClient = 0 THEN CheckGoto(h, "config", 0) ELSE PingOrGiveUp(h)
    /\ UNCHANGED <<redisStatus, redisClient, conn, redisListeners, reconnects, reconnectTimer,
                   redisInMemory, quitting, leaked, redisCrashed, redisCloses>>

\* initialize has loaded its configuration, or could not; it does not look for
\* a client that another call has made meanwhile.
InitializeRedis(h) ==
    /\ redisCheck[h].at = "config"
    /\ \/ /\ ~ redisInMemory
          /\ \E k \in RedisClients : Connect(k) /\ CheckGoto(h, "connect", k)
       \/ /\ PingOrGiveUp(h)
          /\ UNCHANGED <<redisStatus, redisClient, conn, redisListeners, leaked>>
    /\ UNCHANGED <<reconnects, reconnectTimer, redisInMemory, quitting, redisCrashed, redisCloses>>

\* Its connection has settled.
RedisInitialized(h) ==
    /\ redisCheck[h].at = "connect"
    /\ waitFor[redisCheck[h].client] \in {"connected", "failed"}
    /\ PingOrGiveUp(h)
    /\ UNCHANGED <<redisStatus, redisClient, conn, redisListeners, reconnects, reconnectTimer,
                   redisInMemory, quitting, leaked, redisCrashed, redisCloses>>

\* The ping is answered by a client that is open, or fails.  The test that
\* should lead to a reconnection comes after status was set to error.
PingAnswered(h) ==
    /\ redisCheck[h].at = "ping"
    /\ LET k == redisCheck[h].client IN
         \/ /\ conn[k] = "open" /\ quitting # k
            /\ redisStatus' = "connected"
            /\ CheckOver(h, "ok")
         \/ /\ conn[k] # "open"
            /\ redisStatus' = "error"
            /\ CheckOver(h, "error")
    /\ UNCHANGED <<redisClient, conn, redisListeners, reconnects, reconnectTimer,
                   redisInMemory, quitting, leaked, redisCrashed, redisCloses>>

-----------------------------------------------------------------------------
(* close                                                                    *)

CloseRedis ==
    /\ redisCloses < MaxRedisCloses
    /\ quitting = 0
    /\ redisCloses' = redisCloses + 1
    /\ reconnectTimer' = FALSE
    /\ quitting' = redisClient
    /\ UNCHANGED <<redisStatus, redisClient, conn, redisListeners, reconnects, redisInMemory,
                   redisCheck, leaked, redisCrashed>>

\* quit settles, before or after the client's close event; whatever client the
\* service has by then is dropped.
RedisQuits ==
    /\ quitting # 0
    /\ conn' = [conn EXCEPT ![quitting] = IF @ = "closed" THEN @ ELSE "closing"]
    /\ redisClient' = 0
    /\ redisStatus' = "disconnected"
    /\ quitting' = 0
    /\ leaked' = (leaked \/ redisClient # quitting)
    /\ UNCHANGED <<redisListeners, reconnects, reconnectTimer, redisInMemory, redisCheck,
                   redisCrashed, redisCloses>>

-----------------------------------------------------------------------------
RedisNext ==
    /\ ~ redisCrashed
    /\ \/ \E k \in RedisClients : \/ ConnectionTimesOut(k) \/ HandleConnect(k)
                                  \/ HandleError(k) \/ HandleDisconnect(k)
       \/ \E h \in RedisChecks : \/ CheckRedisHealth(h) \/ InitializeRedis(h)
                                 \/ RedisInitialized(h) \/ PingAnswered(h)
       \/ ReconnectTimerFires \/ CloseRedis \/ RedisQuits

-----------------------------------------------------------------------------
RedisTypeOK ==
    /\ redisStatus \in {"connected", "disconnected", "connecting", "error"}
    /\ redisClient \in 0 .. NumRedisClients /\ quitting \in 0 .. NumRedisClients
    /\ conn \in [RedisClients -> {"new", "opening", "open", "closing", "closed"}]
    /\ waitFor \in [RedisClients -> {"none", "waiting", "connected", "failed"}]
    /\ onceConnected \subseteq RedisClients /\ onceError \subseteq RedisClients
    /\ reconnects \in 0 .. MaxReconnectAttempts
    /\ \A h \in RedisChecks :
         /\ redisCheck[h].at \in {"idle", "config", "connect", "ping", "over"}
         /\ redisCheck[h].verdict \in {"none", "ok", "error"}

(* The service says connected only while some client of its own has not     *)
(* been closed, and available only when that is the client it hands out,    *)
(* unless overlapping initializations, a reconnect or a close have left a   *)
(* client behind.                                                           *)
RedisStatusHonest ==
    /\ redisStatus = "connected" => \E k \in RedisClients : conn[k] \in {"open", "closing"}
    /\ RedisAvailable /\ ~ leaked => conn[redisClient] \in {"open", "closing"}

=============================================================================
