------------------------- MODULE SecurityMonitoring -------------------------
(***************************************************************************)
(* The cron task of src/services/securityMonitoringService.ts, the checks it *)
(* runs on the audit log, and src/services/securityInitializer.ts that       *)
(* starts it after the other security services.                             *)
(***************************************************************************)
EXTENDS Integers, FiniteSets

CONSTANTS
    SecurityJobs,    \* bound: cron tasks
    SecurityRuns,    \* bound: runs of the checks
    AlertThreshold,  \* encryption failures that raise an alert; 3 in the code
    MaxFailures,     \* bound: encryption failures in the window
    MaxInits         \* bound: calls of initializeSecurity

ASSUME SecurityAssumption == AlertThreshold \in Nat /\ "none" \notin SecurityJobs

VARIABLES
    monitoring,     \* securityMonitoringConfig: enabled, and what its schedule is
    securityJobs,   \* every cron task made: "none", "firing" or "stopped"
    scheduledJob,   \* the one the service knows, or "none"
    replaced,       \* history: tasks that an initialization has put another over
    initializer,    \* where initializeSecurity is, and what its caller asks for
    inits,
    failures,       \* encryption failures in the window; other counts are never read
    securityRun,    \* where each run of checkSecurityEvents is
    secAlerts       \* history: the kinds alerted, with the count that was read

secVars == <<monitoring, securityJobs, scheduledJob, replaced, initializer, inits,
             failures, securityRun, secAlerts>>

EventKinds == {"login_failed", "api_key_created", "permission_denied", "encryption_failed"}
\* The order of the checks.
FollowingCheck == [login_failed |-> "api_key_created", api_key_created |-> "permission_denied",
                   permission_denied |-> "encryption_failed", encryption_failed |-> "over"]

\* A schedule is valid, invalid or undefined; the default is valid.
Schedules == {"valid", "invalid", "undefined"}

SecurityInit ==
    /\ monitoring = [enabled |-> FALSE, schedule |-> "valid"]
    /\ securityJobs = [j \in SecurityJobs |-> "none"]
    /\ scheduledJob = "none" /\ replaced = {}
    /\ initializer = [at |-> "idle", enabled |-> FALSE, schedule |-> "undefined"]
    /\ inits = 0
    /\ failures = 0
    /\ securityRun = [r \in SecurityRuns |-> "unseen"]
    /\ secAlerts = {}

-----------------------------------------------------------------------------
(* initializeSecurity                                                       *)

\* Options or environment say whether monitoring is on and when it runs; with
\* neither, the schedule is undefined and takes the default's place.
InitializeSecurity ==
    /\ initializer.at = "idle" /\ inits < MaxInits
    /\ inits' = inits + 1
    /\ \E on, migrate \in BOOLEAN, schedule \in Schedules :
         initializer' = [at |-> IF migrate THEN "migrations" ELSE "kms",
                         enabled |-> on, schedule |-> schedule]
    /\ UNCHANGED <<monitoring, securityJobs, scheduledJob, replaced, failures,
                   securityRun, secAlerts>>

\* Migrations, the KMS service and its encryption, and the key rotation: each
\* may fail, and then the next begins all the same, unless it throws.
NextService == [migrations |-> "kms", kms |-> "kmsEncryption",
                kmsEncryption |-> "keyRotation", keyRotation |-> "monitoring"]

InitializeService ==
    /\ initializer.at \in DOMAIN NextService
    /\ \/ initializer' = [initializer EXCEPT !.at = NextService[@]]
       \/ initializer.at # "migrations" /\ initializer' = [initializer EXCEPT !.at = "idle"]
    /\ UNCHANGED <<monitoring, securityJobs, scheduledJob, replaced, inits, failures,
                   securityRun, secAlerts>>

SchedulesTask(on, schedule) == on /\ schedule = "valid"

\* initializeSecurityMonitoring: the configuration is replaced first, whatever
\* comes of it.  An earlier task is not stopped, by an initialization that
\* turns the monitoring off neither.
InitializeSecurityMonitoring ==
    /\ initializer.at = "monitoring"
    /\ initializer' = [initializer EXCEPT !.at = "idle"]
    /\ monitoring' = [enabled |-> initializer.enabled, schedule |-> initializer.schedule]
    /\ IF SchedulesTask(initializer.enabled, initializer.schedule)
       THEN \E j \in SecurityJobs :
              /\ securityJobs[j] = "none"
              /\ securityJobs' = [securityJobs EXCEPT ![j] = "firing"]
              /\ scheduledJob' = j
              /\ replaced' = replaced \cup ({scheduledJob} \ {"none"})
       ELSE UNCHANGED <<securityJobs, scheduledJob, replaced>>
    /\ UNCHANGED <<inits, failures, securityRun, secAlerts>>

StoppedJob(j) == [securityJobs EXCEPT ![j] = "stopped"]

StopSecurityMonitoring ==
    /\ scheduledJob # "none"
    /\ securityJobs' = StoppedJob(scheduledJob)
    /\ scheduledJob' = "none"
    /\ UNCHANGED <<monitoring, replaced, initializer, inits, failures, securityRun, secAlerts>>

-----------------------------------------------------------------------------
(* checkSecurityEvents                                                      *)

\* Some other part of the server writes an event, or the oldest leaves the window.
EncryptionFailures ==
    /\ failures' \in {failures - 1, failures + 1} \cap (0 .. MaxFailures)
    /\ UNCHANGED <<monitoring, securityJobs, scheduledJob, replaced, initializer, inits,
                   securityRun, secAlerts>>

\* Cron does not wait for the run before.
SecurityJobFires(r) ==
    /\ securityRun[r] = "unseen"
    /\ \E j \in SecurityJobs : securityJobs[j] = "firing"
    /\ securityRun' = [securityRun EXCEPT ![r] = "login_failed"]
    /\ UNCHANGED <<monitoring, securityJobs, scheduledJob, replaced, initializer, inits,
                   failures, secAlerts>>

\* The three checks that group: having takes the count alone for its condition,
\* which is no boolean, and the statement fails.  Each catches its own error.
GroupedCheck(k) == k # "encryption_failed"

CheckSecurityEvents(r) ==
    /\ securityRun[r] \in EventKinds
    /\ LET k == securityRun[r] IN
         /\ securityRun' = [securityRun EXCEPT ![r] = FollowingCheck[k]]
         /\ \/ secAlerts' = secAlerts  \* the statement fails
            \/ /\ ~ GroupedCheck(k)
               /\ secAlerts' = IF failures >= AlertThreshold
                               THEN secAlerts \cup {[kind |-> k, count |-> failures]}
                               ELSE secAlerts
    /\ UNCHANGED <<monitoring, securityJobs, scheduledJob, replaced, initializer, inits, failures>>

SecurityNext ==
    \/ InitializeSecurity \/ InitializeService \/ InitializeSecurityMonitoring
    \/ StopSecurityMonitoring
    \/ EncryptionFailures
    \/ \E r \in SecurityRuns : SecurityJobFires(r) \/ CheckSecurityEvents(r)

-----------------------------------------------------------------------------
SecurityTypeOK ==
    /\ monitoring \in [enabled : BOOLEAN, schedule : Schedules]
    /\ securityJobs \in [SecurityJobs -> {"none", "firing", "stopped"}]
    /\ scheduledJob \in SecurityJobs \cup {"none"}
    /\ initializer.at \in {"idle", "monitoring"} \cup DOMAIN NextService
    /\ securityRun \in [SecurityRuns -> EventKinds \cup {"unseen", "over"}]

(* The task the service knows fires, and one that it does not know fires     *)
(* only because a second initialization has put another over it: after one    *)
(* initialization, however slow, at most one task fires, and none when it is   *)
(* stopped; there are never more than initializations.  An alert is raised on *)
(* a count that had reached the threshold when it was read.                 *)
SecurityHonest ==
    /\ scheduledJob # "none" => securityJobs[scheduledJob] = "firing"
    /\ \A j \in SecurityJobs :
         securityJobs[j] = "firing" => j = scheduledJob \/ (j \in replaced /\ inits > 1)
    /\ Cardinality({j \in SecurityJobs : securityJobs[j] = "firing"}) <= inits
    /\ \A a \in secAlerts : a.count >= AlertThreshold

=============================================================================
