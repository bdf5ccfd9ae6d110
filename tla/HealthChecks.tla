---------------------------- MODULE HealthChecks ----------------------------
(***************************************************************************)
(* The health checks of src/services/healthService.ts: each check makes a   *)
(* result, which is stored in the check's row and appended to its log by     *)
(* separate statements, whatever other runs of the same check are doing.    *)
(* Runs come from the timer of src/services/healthCheckScheduler.ts and      *)
(* from the routes of src/server/routes/health.ts.  The four checks catch    *)
(* their own errors, so the branches for a check that throws never run.     *)
(***************************************************************************)
EXTENDS FiniteSets, Integers

CONSTANTS
    HealthNames,     \* the checks that are registered, of those below
    HealthCalls,     \* bound: runs, each by one caller
    MaxHealthErrors  \* bound: failing statements

\* What each check may find.
HealthResults == [database  |-> {"ok", "error"},
                  email     |-> {"ok", "warning"},
                  ai        |-> {"ok", "error"},
                  scheduler |-> {"ok", "error"}]

ASSUME HealthAssumption ==
    /\ HealthNames \subseteq DOMAIN HealthResults
    /\ IsFiniteSet(HealthCalls)
    /\ MaxHealthErrors \in Nat

VARIABLES
    healthTimer,   \* activeScheduler
    healthTask,    \* where each call is with each check, and the result it made
    healthRow,     \* health_checks: the result in each check's row
    healthLog,     \* health_logs: the results logged of each check
    healthMade,    \* how many results of each check there have been
    healthRaced,   \* history: checks run while another run of them was not over
    healthErrors

healthVars == <<healthTimer, healthTask, healthRow, healthLog, healthMade, healthRaced, healthErrors>>

NoResult == [status |-> "none", made |-> 0]

Tasks == HealthCalls \X HealthNames

HealthInit ==
    /\ healthTimer = FALSE
    /\ healthTask = [t \in Tasks |-> [at |-> "idle", result |-> NoResult]]
    /\ healthRow = [n \in HealthNames |-> NoResult]
    /\ healthLog = [n \in HealthNames |-> {}]
    /\ healthMade = [n \in HealthNames |-> 0]
    /\ healthRaced = {}
    /\ healthErrors = 0

HealthGoto(t, label) == healthTask' = [healthTask EXCEPT ![t].at = label]

UnderWay(n) == {c \in HealthCalls : healthTask[<<c, n>>].at \notin {"idle", "over"}}

HealthStatementFails == healthErrors < MaxHealthErrors /\ healthErrors' = healthErrors + 1

-----------------------------------------------------------------------------
(* Runs                                                                     *)

\* The checks of names begin at once.
BeginChecks(c, names) ==
    /\ \A n \in HealthNames : healthTask[<<c, n>>].at = "idle"
    /\ healthTask' = [t \in Tasks |-> IF t[1] = c /\ t[2] \in names
                                      THEN [healthTask[t] EXCEPT !.at = "check"]
                                      ELSE healthTask[t]]
    /\ healthRaced' = healthRaced \cup {n \in names : UnderWay(n) # {}}
    /\ UNCHANGED <<healthTimer, healthRow, healthLog, healthMade, healthErrors>>

\* GET /run-checks
RunAllHealthChecks(c) == BeginChecks(c, HealthNames)

\* The cron job: a run that is still under way does not hold it back.
HealthTimerFires(c) == healthTimer /\ RunAllHealthChecks(c)

\* POST /checks/:id/run
RunHealthCheck(c) == \E n \in HealthNames : BeginChecks(c, {n})

\* A running timer is replaced by another.
StartAllHealthChecks ==
    /\ ~ healthTimer
    /\ healthTimer' = TRUE
    /\ UNCHANGED <<healthTask, healthRow, healthLog, healthMade, healthRaced, healthErrors>>

\* What the timer has begun goes on.
StopAllHealthChecks ==
    /\ healthTimer
    /\ healthTimer' = FALSE
    /\ UNCHANGED <<healthTask, healthRow, healthLog, healthMade, healthRaced, healthErrors>>

CheckMade(c, n) ==
    /\ healthTask[<<c, n>>].at = "check"
    /\ \E status \in HealthResults[n] :
         healthTask' = [healthTask EXCEPT
             ![<<c, n>>] = [at |-> "select",
                        result |-> [status |-> status, made |-> healthMade[n] + 1]]]
    /\ healthMade' = [healthMade EXCEPT ![n] = @ + 1]
    /\ UNCHANGED <<healthTimer, healthRow, healthLog, healthRaced, healthErrors>>

-----------------------------------------------------------------------------
(* storeHealthCheckResult: a statement that fails ends it, unnoticed by the  *)
(* run, whether or not the statement was executed.                          *)

SelectCheck(c, n) ==
    /\ healthTask[<<c, n>>].at = "select"
    /\ \/ /\ HealthGoto(<<c, n>>, IF healthRow[n] = NoResult THEN "insert" ELSE "update")
          /\ UNCHANGED healthErrors
       \/ HealthStatementFails /\ HealthGoto(<<c, n>>, "over")
    /\ UNCHANGED <<healthTimer, healthRow, healthLog, healthMade, healthRaced>>

\* Mutant: the row is only touched.
TouchedRow(old, result) == IF old = NoResult THEN result ELSE [result EXCEPT !.status = old.status]

NewRow(old, result) == result

\* The UPDATE, or the INSERT, which a row made meanwhile under the same id
\* makes fail.  Nothing compares the result with the one in the row.
WriteCheck(c, n) ==
    LET t == healthTask[<<c, n>>]
        conflict == t.at = "insert" /\ healthRow[n] # NoResult
        written == [healthRow EXCEPT ![n] = NewRow(@, t.result)]
    IN
    /\ t.at \in {"insert", "update"}
    /\ \/ /\ conflict
          /\ HealthGoto(<<c, n>>, "over")
          /\ UNCHANGED <<healthRow, healthErrors>>
       \/ /\ ~ conflict
          /\ healthRow' = written
          /\ HealthGoto(<<c, n>>, "log")
          /\ UNCHANGED healthErrors
       \/ /\ ~ conflict
          /\ HealthStatementFails
          /\ healthRow' \in {healthRow, written}
          /\ HealthGoto(<<c, n>>, "over")
    /\ UNCHANGED <<healthTimer, healthLog, healthMade, healthRaced>>

LogCheck(c, n) ==
    LET logged == [healthLog EXCEPT ![n] = @ \cup {healthTask[<<c, n>>].result}] IN
    /\ healthTask[<<c, n>>].at = "log"
    /\ \/ healthLog' = logged /\ UNCHANGED healthErrors
       \/ HealthStatementFails /\ healthLog' \in {healthLog, logged}
    /\ HealthGoto(<<c, n>>, "over")
    /\ UNCHANGED <<healthTimer, healthRow, healthMade, healthRaced>>

-----------------------------------------------------------------------------
\* getHealthSummary's overall status.
HealthSummary ==
    LET found(s) == \E n \in HealthNames : healthRow[n].status = s IN
    CASE found("error") -> "error"
      [] ~ found("error") /\ found("warning") -> "warning"
      [] OTHER -> "ok"

HealthNext ==
    \/ StartAllHealthChecks \/ StopAllHealthChecks
    \/ \E c \in HealthCalls :
         \/ RunAllHealthChecks(c) \/ HealthTimerFires(c) \/ RunHealthCheck(c)
         \/ \E n \in HealthNames :
              CheckMade(c, n) \/ SelectCheck(c, n) \/ WriteCheck(c, n) \/ LogCheck(c, n)

-----------------------------------------------------------------------------
Results == [status : {"ok", "warning", "error"}, made : 1 .. Cardinality(HealthCalls)]

HealthTypeOK ==
    /\ healthTimer \in BOOLEAN
    /\ \A t \in Tasks :
         /\ healthTask[t].at \in {"idle", "check", "select", "insert", "update", "log", "over"}
         /\ healthTask[t].result \in Results \cup {NoResult}
    /\ healthRow \in [HealthNames -> Results \cup {NoResult}]
    /\ \A n \in HealthNames : healthLog[n] \subseteq Results
    /\ healthErrors \in 0 .. MaxHealthErrors

LastLogged(n) == CHOOSE r \in healthLog[n] : \A q \in healthLog[n] : q.made <= r.made

(* A check is logged only once it has a row.  While no statement has failed *)
(* and no two runs of it have overlapped, its row is no older than its log, *)
(* and shows the last result that was logged when no run of it is under     *)
(* way; a summary that says ok then comes of checks that all were.          *)
HealthHonest ==
    /\ \A n \in HealthNames :
         /\ healthLog[n] # {} => healthRow[n] # NoResult
         /\ healthErrors = 0 /\ n \notin healthRaced =>
              /\ \A r \in healthLog[n] : r.made <= healthRow[n].made
              /\ UnderWay(n) = {} /\ healthMade[n] > 0 => healthRow[n] = LastLogged(n)
    /\ /\ HealthSummary = "ok" /\ healthErrors = 0 /\ healthRaced = {}
       /\ \A n \in HealthNames : UnderWay(n) = {} /\ healthMade[n] > 0
       => \A n \in HealthNames : LastLogged(n).status = "ok"

=============================================================================
