----------------------------- MODULE EmailQueue -----------------------------
(***************************************************************************)
(* The email queue of src/services/emailQueue.ts and the sendEmail of       *)
(* src/services/mailerService.ts that it calls: rows of email_queue, the    *)
(* flag isProcessing, the loop that takes the oldest pending row, sends it  *)
(* and records how that went, and the calls of enqueue and retryEmail that  *)
(* start the loop when the flag is off.  One process; the table outlives it.*)
(*                                                                         *)
(* Emails are numbered by createdAt, the time enqueue was called.  A SELECT *)
(* or INSERT whose answer is compared with something that may have changed  *)
(* meanwhile is executed in one step and answered in another; for all other *)
(* statements one step is enough.                                           *)
(***************************************************************************)
EXTENDS Integers

CONSTANTS
    NumEmails,        \* bound: calls of enqueue
    Retriers,         \* calls of retryEmail that may be made
    EmailMaxAttempts, \* maxRetries of the service: maxAttempts of every row
    EmailMaxDbErrors, \* bound: statements that fail or whose reply is lost
    EmailMaxCrashes   \* bound: deaths of the process

Emails == 1 .. NumEmails

ASSUME EmailAssumption ==
    /\ NumEmails \in Nat /\ EmailMaxAttempts \in Nat \ {0}
    /\ EmailMaxDbErrors \in Nat /\ EmailMaxCrashes \in Nat

VARIABLES
    mail,         \* the status of each row, "none" before it is inserted
    mailAttempts, \* its attempts
    mailLog,      \* the status of the email_logs row of its latest sendEmail
    enqueuing,    \* where each call of enqueue is
    retrying,     \* where each call of retryEmail is, and its row
    draining,     \* isProcessing
    loop,         \* where processQueue is, and the row it has selected
    mailSends,    \* history: how often the provider accepted the email
    mailRetried,  \* history: how often retryEmail made it pending again
    mailIgnored,  \* history: since the loop last started it has ended, or was not
                  \* started, by one of the four accidents named below
    mailUsed      \* how much of each bound has been used

emailVars == <<mail, mailAttempts, mailLog, enqueuing, retrying, draining, loop,
               mailSends, mailRetried, mailIgnored, mailUsed>>

-----------------------------------------------------------------------------
LoopAt == {"off", "select", "selected",
           "mark",                                       \* processing
           "log", "send", "logSent", "readSent",         \* sendEmail
           "logFailed", "readFailed",                    \* its catch
           "complete",                                   \* completed
           "giveBack"}                                   \* pending or failed

NoLoop == [at |-> "off", email |-> 0, attempts |-> 0]

LoopBegun == [at |-> "select", email |-> 0, attempts |-> 0]

\* The loop has been told, or is about to be, that no row is pending.
AtItsEnd == loop.at = "selected" /\ loop.email = 0

LoopGoto(label) == loop' = [loop EXCEPT !.at = label]

EmailInit ==
    /\ mail = [e \in Emails |-> "none"]
    /\ mailAttempts = [e \in Emails |-> 0]
    /\ mailLog = [e \in Emails |-> "none"]
    /\ enqueuing = [e \in Emails |-> "new"]
    /\ retrying = [r \in Retriers |-> [at |-> "new", email |-> 0]]
    /\ draining = FALSE
    /\ loop = NoLoop
    /\ mailSends = [e \in Emails |-> 0]
    /\ mailRetried = [e \in Emails |-> 0]
    /\ mailIgnored = FALSE
    /\ mailUsed = [dbErrors |-> 0, crashes |-> 0]

\* Both callers start processQueue unless isProcessing; a loop that starts
\* looks at every row.  First accident: the answer comes while the flag is on
\* and the loop at its end.
StartUnlessDraining ==
    IF draining
    THEN /\ mailIgnored' = (mailIgnored \/ AtItsEnd)
         /\ UNCHANGED <<draining, loop>>
    ELSE /\ draining' = TRUE
         /\ loop' = LoopBegun
         /\ mailIgnored' = FALSE

-----------------------------------------------------------------------------
(* enqueue                                                                  *)

\* createdAt is taken and the INSERT sent.
EnqueueEmail(e) ==
    /\ enqueuing[e] = "new"
    /\ \A d \in 1 .. e - 1 : enqueuing[d] # "new"
    /\ enqueuing' = [enqueuing EXCEPT ![e] = "insert"]
    /\ UNCHANGED <<mail, mailAttempts, mailLog, retrying, draining, loop,
                   mailSends, mailRetried, mailIgnored, mailUsed>>

InsertEmail(e) ==
    /\ enqueuing[e] = "insert"
    /\ mail' = [mail EXCEPT ![e] = "pending"]
    /\ enqueuing' = [enqueuing EXCEPT ![e] = "answer"]
    /\ UNCHANGED <<mailAttempts, mailLog, retrying, draining, loop,
                   mailSends, mailRetried, mailIgnored, mailUsed>>

EmailEnqueued(e) ==
    /\ enqueuing[e] = "answer"
    /\ enqueuing' = [enqueuing EXCEPT ![e] = "over"]
    /\ StartUnlessDraining
    /\ UNCHANGED <<mail, mailAttempts, mailLog, retrying, mailSends, mailRetried, mailUsed>>

-----------------------------------------------------------------------------
(* retryEmail                                                               *)

\* The row is read; only a failed one is retried.
ReadFailedEmail(r, e) ==
    /\ retrying[r].at = "new"
    /\ mail[e] = "failed"
    /\ retrying' = [retrying EXCEPT ![r] = [at |-> "update", email |-> e]]
    /\ UNCHANGED <<mail, mailAttempts, mailLog, enqueuing, draining, loop,
                   mailSends, mailRetried, mailIgnored, mailUsed>>

\* The UPDATE does not ask whether the row is still failed.
ResetEmail(r) ==
    /\ retrying[r].at = "update"
    /\ mail' = [mail EXCEPT ![retrying[r].email] = "pending"]
    /\ mailAttempts' = [mailAttempts EXCEPT ![retrying[r].email] = 0]
    /\ mailRetried' = [mailRetried EXCEPT ![retrying[r].email] = @ + 1]
    /\ retrying' = [retrying EXCEPT ![r].at = "answer"]
    /\ UNCHANGED <<mailLog, enqueuing, draining, loop, mailSends, mailIgnored, mailUsed>>

EmailRetried(r) ==
    /\ retrying[r].at = "answer"
    /\ retrying' = [retrying EXCEPT ![r].at = "over"]
    /\ StartUnlessDraining
    /\ UNCHANGED <<mail, mailAttempts, mailLog, enqueuing, mailSends, mailRetried, mailUsed>>

-----------------------------------------------------------------------------
(* processQueue                                                             *)

\* Mutant: rows that an earlier loop left in processing are taken as well.
UnfinishedEmails == {e \in Emails : mail[e] \in {"pending", "processing"}}

PendingEmails == {e \in Emails : mail[e] = "pending"}

\* The SELECT is executed: the oldest pending row, or none.
SelectEmail ==
    /\ loop.at = "select"
    /\ \/ PendingEmails = {} /\ loop' = [LoopBegun EXCEPT !.at = "selected"]
       \/ \E e \in PendingEmails :
            /\ \A d \in PendingEmails : e <= d
            /\ loop' = [at |-> "selected", email |-> e, attempts |-> mailAttempts[e]]
    /\ UNCHANGED <<mail, mailAttempts, mailLog, enqueuing, retrying, draining,
                   mailSends, mailRetried, mailIgnored, mailUsed>>

\* Mutant: the flag is not cleared.
NeverCleared(e) == TRUE

StillDraining(e) == e # 0

\* It is answered; the loop ends when there was none.
EmailSelected ==
    /\ loop.at = "selected"
    /\ draining' = StillDraining(loop.email)
    /\ IF loop.email = 0 THEN loop' = NoLoop ELSE LoopGoto("mark")
    /\ UNCHANGED <<mail, mailAttempts, mailLog, enqueuing, retrying,
                   mailSends, mailRetried, mailIgnored, mailUsed>>

\* Whether the attempt that has just failed was the last, given the attempts
\* before it.
LastAttempt(attempts) == attempts + 1 >= EmailMaxAttempts

\* What the statement the loop is about to issue does to the row it selected,
\* whose attempts it has kept, and to the log of the attempt.
EmailWritten(e) ==
    CASE loop.at = "mark"     -> "processing"
      [] loop.at = "complete" -> "completed"
      [] loop.at = "giveBack" -> IF LastAttempt(loop.attempts) THEN "failed" ELSE "pending"
      [] OTHER                -> mail[e]

LogWritten(e) ==
    CASE loop.at = "mark"    -> "none"
      [] loop.at = "log"     -> "pending"
      [] loop.at = "logSent" -> "sent"
      [] loop.at = "logFailed" /\ mailLog[e] # "none" -> "failed"
      [] OTHER -> mailLog[e]

EmailStatement(e) ==
    /\ mail' = [mail EXCEPT ![e] = EmailWritten(e)]
    /\ mailAttempts' = [mailAttempts EXCEPT ![e] =
                           IF loop.at = "giveBack" THEN loop.attempts + 1 ELSE @]
    /\ mailLog' = [mailLog EXCEPT ![e] = LogWritten(e)]

\* Where a statement that succeeds leads.
AfterStatement ==
    CASE loop.at = "mark"       -> "log"
      [] loop.at = "log"        -> "send"
      [] loop.at = "logSent"    -> "readSent"
      [] loop.at = "readSent"   -> "complete"
      [] loop.at = "logFailed"  -> "readFailed"
      [] loop.at = "readFailed" -> "complete"     \* sendEmail returns all the same
      [] loop.at = "complete"   -> "select"
      [] loop.at = "giveBack"   -> "select"       \* after a pause when pending

\* Where one that rejects leads.
AfterRejection ==
    CASE loop.at \in {"log", "logSent", "readSent"} -> "logFailed"
      [] loop.at \in {"logFailed", "readFailed", "complete"} -> "giveBack"
      [] OTHER -> "off"

EmailStatements == {"mark", "log", "logSent", "readSent", "logFailed", "readFailed",
                    "complete", "giveBack"}

LoopStatement ==
    /\ loop.at \in EmailStatements
    /\ EmailStatement(loop.email)
    /\ LoopGoto(AfterStatement)
    /\ UNCHANGED <<enqueuing, retrying, draining, mailSends, mailRetried, mailIgnored, mailUsed>>

\* The provider accepts the email, or sendEmail goes to its catch.
ProviderAnswers ==
    /\ loop.at = "send"
    /\ \/ /\ mailSends' = [mailSends EXCEPT ![loop.email] = @ + 1]
          /\ LoopGoto("logSent")
       \/ LoopGoto("logFailed") /\ UNCHANGED mailSends
    /\ UNCHANGED <<mail, mailAttempts, mailLog, enqueuing, retrying, draining,
                   mailRetried, mailIgnored, mailUsed>>

-----------------------------------------------------------------------------
(* Faults                                                                   *)

\* A statement of the loop rejects, executed or not.  Second accident: one
\* outside the inner try ends the loop.
LoopStatementFails ==
    /\ mailUsed.dbErrors < EmailMaxDbErrors
    /\ mailUsed' = [mailUsed EXCEPT !.dbErrors = @ + 1]
    /\ loop.at \in EmailStatements \cup {"select"}
    /\ \/ UNCHANGED <<mail, mailAttempts, mailLog>>
       \/ loop.at # "select" /\ EmailStatement(loop.email)
    /\ IF AfterRejection = "off"
       THEN loop' = NoLoop /\ draining' = FALSE /\ mailIgnored' = TRUE
       ELSE LoopGoto(AfterRejection) /\ UNCHANGED <<draining, mailIgnored>>
    /\ UNCHANGED <<enqueuing, retrying, mailSends, mailRetried>>

\* Third accident: the caller of enqueue or retryEmail gets an error, executed
\* or not, and starts nothing.
CallerLosesReply ==
    /\ mailUsed.dbErrors < EmailMaxDbErrors
    /\ mailUsed' = [mailUsed EXCEPT !.dbErrors = @ + 1]
    /\ \/ \E e \in Emails : /\ enqueuing[e] \in {"insert", "answer"}
                            /\ enqueuing' = [enqueuing EXCEPT ![e] = "over"]
                            /\ UNCHANGED retrying
       \/ \E r \in Retriers : /\ retrying[r].at \in {"update", "answer"}
                              /\ retrying' = [retrying EXCEPT ![r].at = "over"]
                              /\ UNCHANGED enqueuing
    /\ mailIgnored' = TRUE
    /\ UNCHANGED <<mail, mailAttempts, mailLog, draining, loop, mailSends, mailRetried>>

\* Fourth accident: the process dies; the next one does not start the loop.
EmailCrash ==
    /\ mailUsed.crashes < EmailMaxCrashes
    /\ mailUsed' = [mailUsed EXCEPT !.crashes = @ + 1]
    /\ draining' = FALSE
    /\ loop' = NoLoop
    /\ enqueuing' = [e \in Emails |-> IF enqueuing[e] = "new" THEN "new" ELSE "over"]
    /\ retrying' = [r \in Retriers |-> IF retrying[r].at = "new" THEN retrying[r]
                                       ELSE [retrying[r] EXCEPT !.at = "over"]]
    /\ mailIgnored' = TRUE
    /\ UNCHANGED <<mail, mailAttempts, mailLog, mailSends, mailRetried>>

-----------------------------------------------------------------------------
LoopStep == SelectEmail \/ EmailSelected \/ LoopStatement \/ ProviderAnswers

EmailCallStep ==
    \/ \E e \in Emails : InsertEmail(e) \/ EmailEnqueued(e)
    \/ \E r \in Retriers : ResetEmail(r) \/ EmailRetried(r)

EmailNext ==
    \/ LoopStep \/ EmailCallStep
    \/ \E e \in Emails : EnqueueEmail(e)
    \/ \E r \in Retriers, e \in Emails : ReadFailedEmail(r, e)
    \/ LoopStatementFails \/ CallerLosesReply \/ EmailCrash

EmailSpec == EmailInit /\ [][EmailNext]_emailVars

\* Statements are answered, the provider too, and calls go on.
EmailFairSpec == EmailSpec /\ WF_emailVars(LoopStep) /\ WF_emailVars(EmailCallStep)

-----------------------------------------------------------------------------
EmailTypeOK ==
    /\ mail \in [Emails -> {"none", "pending", "processing", "completed", "failed"}]
    /\ mailAttempts \in [Emails -> 0 .. EmailMaxAttempts]
    /\ mailLog \in [Emails -> {"none", "pending", "sent", "failed"}]
    /\ enqueuing \in [Emails -> {"new", "insert", "answer", "over"}]
    /\ retrying \in [Retriers -> [at : {"new", "update", "answer", "over"},
                                  email : 0 .. NumEmails]]
    /\ draining \in BOOLEAN
    /\ loop \in [at : LoopAt, email : 0 .. NumEmails, attempts : 0 .. EmailMaxAttempts]
    /\ mailSends \in [Emails -> Nat] /\ mailRetried \in [Emails -> Nat]
    /\ mailIgnored \in BOOLEAN
    /\ mailUsed \in [dbErrors : Nat, crashes : Nat]
    /\ draining <=> loop.at # "off"

(* An email is sent again only after a failed statement or a retry asked    *)
(* for, by loops that end anywhere and retries that overlap; completed means *)
(* that its sendEmail returned, and the log that this left says sent only   *)
(* when the provider took the email.                                        *)
EmailSentOnce ==
    \A e \in Emails :
        /\ mailSends[e] <= 1 + mailUsed.dbErrors + mailRetried[e]
        /\ mail[e] = "completed" /\ mailUsed.dbErrors = 0 =>
               mailLog[e] = (IF mailSends[e] > 0 THEN "sent" ELSE "failed")
        /\ mailLog[e] = "sent" => mailSends[e] > 0

(* Liveness: a pending email is taken up, whatever sending it and the emails *)
(* before it comes to, unless the loop has met one of the four accidents.   *)
EmailTakenUp ==
    \A e \in Emails : mail[e] = "pending" ~> mail[e] # "pending" \/ mailIgnored

=============================================================================
