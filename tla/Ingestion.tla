------------------------------ MODULE Ingestion ------------------------------
(***************************************************************************)
(* Reports that arrive by email: ingestReportFromEmail of                   *)
(* src/features/email/services/emailIngestService.ts takes the attachments   *)
(* one by one, and storeResults of src/services/resultsPersistence.ts keeps  *)
(* each in three places, a JSON file, a row of report_sources and a row of   *)
(* reports, the last unless it finds a report of the same vendor, file name  *)
(* and number of records.                                                  *)
(*                                                                         *)
(* Fetching mail and generating insights are stubs that throw in this tree:  *)
(* here they settle either way, as the code that calls them provides for.   *)
(***************************************************************************)
EXTENDS Integers

CONSTANTS
    Ingests,           \* calls of ingestReportFromEmail for one platform
    NumAttachments,    \* the attachments in its mailbox, by file name
    MaxIngestErrors    \* bound: statements that fail or whose reply is lost

Attachments == 1 .. NumAttachments

ASSUME IngestAssumption == NumAttachments \in Nat /\ MaxIngestErrors \in Nat

VARIABLES
    jsonFiles,    \* files written for each attachment
    sourceRows,   \* its rows in report_sources
    reportRows,   \* its rows in reports
    ingest,       \* where each call is, its attachment and whether one has succeeded
    storedAtOnce, \* history: attachments that two calls looked for or inserted at once
    ingestErrors

ingestVars == <<jsonFiles, sourceRows, reportRows, ingest, storedAtOnce, ingestErrors>>
tables == <<jsonFiles, sourceRows, reportRows>>

IngestAt == {"idle", "fetch", "parse", "source", "select", "report", "insights",
             "success", "failure"}

IngestInit ==
    /\ jsonFiles = [a \in Attachments |-> 0]
    /\ sourceRows = [a \in Attachments |-> 0]
    /\ reportRows = [a \in Attachments |-> 0]
    /\ ingest = [i \in Ingests |-> [at |-> "idle", file |-> 1, any |-> FALSE]]
    /\ storedAtOnce = {}
    /\ ingestErrors = 0

Ingesting(i, label) == ingest[i].at = label

IngestGoto(i, label) == ingest' = [ingest EXCEPT ![i].at = label]

\* The result for an attachment is pushed, after an alert when it failed; then
\* the next one, or the first success among the results.
NextAttachment(i, ok) ==
    LET any == ingest[i].any \/ ok
    IN  ingest' = [ingest EXCEPT ![i] =
            IF ingest[i].file < NumAttachments
            THEN [at |-> "parse", file |-> @.file + 1, any |-> any]
            ELSE [@ EXCEPT !.at = IF any THEN "success" ELSE "failure", !.any = any]]

\* Some other call is between its SELECT and the end of its INSERT.
StoringElsewhere(i) ==
    \E k \in Ingests \ {i} : Ingesting(k, "report") /\ ingest[k].file = ingest[i].file

-----------------------------------------------------------------------------
BeginIngest(i) ==
    /\ Ingesting(i, "idle")
    /\ IngestGoto(i, "fetch")
    /\ UNCHANGED <<tables, storedAtOnce, ingestErrors>>

\* The mailbox is read: no mail, an error, or attachments.
FetchAttachments(i) ==
    /\ Ingesting(i, "fetch")
    /\ IngestGoto(i, "failure") \/ (NumAttachments > 0 /\ IngestGoto(i, "parse"))
    /\ UNCHANGED <<tables, storedAtOnce, ingestErrors>>

\* The attachment parses, and its file is written under a fresh report id in
\* the same turn; or it does not.  (storeResults is at its default, on.)
ParseAttachment(i) ==
    /\ Ingesting(i, "parse")
    /\ \/ NextAttachment(i, FALSE) /\ UNCHANGED jsonFiles
       \/ /\ jsonFiles' = [jsonFiles EXCEPT ![ingest[i].file] = @ + 1]
          /\ IngestGoto(i, "source")
    /\ UNCHANGED <<sourceRows, reportRows, storedAtOnce, ingestErrors>>

StoreReportSource(i) ==
    /\ Ingesting(i, "source")
    /\ sourceRows' = [sourceRows EXCEPT ![ingest[i].file] = @ + 1]
    /\ IngestGoto(i, "select")
    /\ UNCHANGED <<jsonFiles, reportRows, storedAtOnce, ingestErrors>>

\* Mutant: no report is taken for the same.
NeverDuplicate(a) == FALSE

DuplicateReport(a) == reportRows[a] > 0

\* checkForDuplicateReport: the report is used that is there.
CheckForDuplicate(i) ==
    /\ Ingesting(i, "select")
    /\ IngestGoto(i, IF DuplicateReport(ingest[i].file) THEN "insights" ELSE "report")
    /\ storedAtOnce' = IF StoringElsewhere(i) THEN storedAtOnce \cup {ingest[i].file}
                       ELSE storedAtOnce
    /\ UNCHANGED <<tables, ingestErrors>>

StoreReportData(i) ==
    /\ Ingesting(i, "report")
    /\ reportRows' = [reportRows EXCEPT ![ingest[i].file] = @ + 1]
    /\ IngestGoto(i, "insights")
    /\ UNCHANGED <<jsonFiles, sourceRows, storedAtOnce, ingestErrors>>

GenerateInsights(i) ==
    /\ Ingesting(i, "insights")
    /\ \E ok \in BOOLEAN : NextAttachment(i, ok)
    /\ UNCHANGED <<tables, storedAtOnce, ingestErrors>>

\* A statement fails, executed or not: the attachment counts as failed, and what
\* was stored of it stays.
StoreFails(i) ==
    /\ ingest[i].at \in {"source", "select", "report"}
    /\ ingestErrors < MaxIngestErrors
    /\ ingestErrors' = ingestErrors + 1
    /\ \/ UNCHANGED <<sourceRows, reportRows>>
       \/ /\ Ingesting(i, "source")
          /\ sourceRows' = [sourceRows EXCEPT ![ingest[i].file] = @ + 1]
          /\ UNCHANGED reportRows
       \/ /\ Ingesting(i, "report")
          /\ reportRows' = [reportRows EXCEPT ![ingest[i].file] = @ + 1]
          /\ UNCHANGED sourceRows
    /\ NextAttachment(i, FALSE)
    /\ UNCHANGED <<jsonFiles, storedAtOnce>>

IngestNext ==
    \E i \in Ingests :
        \/ BeginIngest(i) \/ FetchAttachments(i) \/ ParseAttachment(i) \/ StoreReportSource(i)
        \/ CheckForDuplicate(i) \/ StoreReportData(i) \/ GenerateInsights(i) \/ StoreFails(i)

-----------------------------------------------------------------------------
IngestTypeOK ==
    /\ jsonFiles \in [Attachments -> Nat] /\ sourceRows \in [Attachments -> Nat]
    /\ reportRows \in [Attachments -> Nat]
    /\ ingest \in [Ingests -> [at : IngestAt, file : 1 .. NumAttachments + 1, any : BOOLEAN]]
    /\ storedAtOnce \subseteq Attachments

(* However calls for the same mailbox overlap and fail, an attachment has no *)
(* more reports than sources and no more sources than files, has one report  *)
(* at most unless two calls were storing it at once, and a call only         *)
(* succeeds for an attachment that has its report.                          *)
ReportsKeptOnce ==
    /\ \A a \in Attachments : /\ reportRows[a] <= sourceRows[a]
                              /\ sourceRows[a] <= jsonFiles[a]
                              /\ reportRows[a] > 1 => a \in storedAtOnce
    /\ \A i \in Ingests : ingest[i].any => \E a \in Attachments : reportRows[a] > 0

=============================================================================
