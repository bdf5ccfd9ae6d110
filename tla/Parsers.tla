------------------------------- MODULE Parsers -------------------------------
(***************************************************************************)
(* The parsers of src/parsers: parseFileWithDeduplication and what it calls  *)
(* for each of several files at once, the hashes of files taken before, the  *)
(* temporary files and the metrics.  Only CSV streams can be parsed: the     *)
(* parsers of XLSX and PDF save the stream to a temporary file and then      *)
(* always fail, the one at a method its library has withdrawn, the other     *)
(* because it parses the file twice, the second time what it has parsed.     *)
(***************************************************************************)
EXTENDS FiniteSets, Integers, Sequences, SequencesExt

CONSTANTS
    Parses,            \* bound: calls, of one file each
    Hashes,            \* contents of files
    MaxRecentParses,   \* MAX_RECENT_PARSES
    MaxParseErrors,    \* bound: failing statements, and files that vanish
    MaxParserResets    \* bound: resets of the metrics

ASSUME ParserAssumption == MaxRecentParses \in Nat /\ MaxParseErrors \in Nat

\* Registered and not; XLS and PDF go the way of XLSX.
FileTypes == {"csv", "xlsx", "json"}
Registered == FileTypes \ {"json"}

VARIABLES
    parse,         \* where each call is, with its file's content and type
    parseHashes,   \* attachment_hashes: the contents in rows that have not expired
    tempFiles,     \* the calls whose temporary file exists
    parserMetrics, \* totals and recentParses, latest first
    parseErrors,
    parserResets,
    hashRaced,     \* history: contents selected between another's SELECT and INSERT
    hashExpired,   \* history: contents of which a row has expired
    counted        \* history: the calls that have completed since the metrics were reset

parserVars == <<parse, parseHashes, tempFiles, parserMetrics, parseErrors, parserResets,
                hashRaced, hashExpired, counted>>

NoMetrics == [success |-> 0, failure |-> 0, duplicates |-> 0, recent |-> <<>>]

ParserInit ==
    /\ parse = [p \in Parses |-> [at |-> "idle", hash |-> "none", type |-> "none", checked |-> FALSE]]
    /\ parseHashes = {} /\ tempFiles = {}
    /\ parserMetrics = NoMetrics
    /\ parseErrors = 0 /\ parserResets = 0
    /\ hashRaced = {} /\ hashExpired = {}
    /\ counted = {}

ParseFault == parseErrors < MaxParseErrors /\ parseErrors' = parseErrors + 1

ParseGoto(p, label) == parse' = [parse EXCEPT ![p].at = label]

\* The call is for a file of this content that was let through.
Taken(p) == parse[p].checked /\ parse[p].at \notin {"idle", "select", "thrown", "duplicate"}

-----------------------------------------------------------------------------
(* Deduplication                                                            *)

\* createParserForFile throws for a type without a parser.
CreateParser(p, at) == IF at \in Registered THEN "parse" ELSE "unsupported"

\* parseFileWithDeduplication, without and with the check; the file may vanish
\* before it is hashed.
BeginParse(p) ==
    /\ parse[p].at = "idle"
    /\ \E hash \in Hashes, type \in FileTypes :
         \/ /\ parse' = [parse EXCEPT ![p] = [at |-> CreateParser(p, type), hash |-> hash,
                                              type |-> type, checked |-> FALSE]]
            /\ UNCHANGED parseErrors
         \/ /\ parse' = [parse EXCEPT ![p] = [at |-> "select", hash |-> hash,
                                              type |-> type, checked |-> TRUE]]
            /\ UNCHANGED parseErrors
         \/ /\ ParseFault
            /\ parse' = [parse EXCEPT ![p].at = "thrown"]
    /\ UNCHANGED <<parseHashes, tempFiles, parserMetrics, parserResets, hashRaced, hashExpired, counted>>

SeenBefore(hash) == hash \in parseHashes

\* checkForDuplicate, and recordDuplicate; a failure counts as no duplicate.
CheckForDuplicate(p) ==
    LET hash == parse[p].hash IN
    /\ parse[p].at = "select"
    /\ \/ /\ SeenBefore(hash)
          /\ ParseGoto(p, "duplicate")
          /\ parserMetrics' = [parserMetrics EXCEPT !.duplicates = @ + 1]
          /\ counted' = counted \cup {p}
          /\ UNCHANGED <<parseErrors, hashRaced>>
       \/ /\ IF SeenBefore(hash) THEN ParseFault ELSE UNCHANGED parseErrors
          /\ ParseGoto(p, "store")
          /\ hashRaced' = IF \E q \in Parses : parse[q].at = "store" /\ parse[q].hash = hash
                          THEN hashRaced \cup {hash} ELSE hashRaced
          /\ UNCHANGED <<parserMetrics, counted>>
    /\ UNCHANGED <<parseHashes, tempFiles, parserResets, hashExpired>>

\* storeFileHash, whose failure is swallowed: before anything is parsed, and
\* before it is known whether there is a parser.
StoreFileHash(p) ==
    /\ parse[p].at = "store"
    /\ \/ parseHashes' = parseHashes \cup {parse[p].hash} /\ UNCHANGED parseErrors
       \/ ParseFault /\ UNCHANGED parseHashes
    /\ ParseGoto(p, CreateParser(p, parse[p].type))
    /\ UNCHANGED <<tempFiles, parserMetrics, parserResets, hashRaced, hashExpired, counted>>

\* Sixty days later.
HashExpires(hash) ==
    /\ hash \in parseHashes \ hashExpired
    /\ parseHashes' = parseHashes \ {hash}
    /\ hashExpired' = hashExpired \cup {hash}
    /\ UNCHANGED <<parse, tempFiles, parserMetrics, parseErrors, parserResets, hashRaced, counted>>

-----------------------------------------------------------------------------
(* Parsing                                                                  *)

Trimmed(recent) ==
    IF Len(recent) > MaxRecentParses THEN SubSeq(recent, 1, MaxRecentParses) ELSE recent

\* recordParseComplete, and the end of the call: parseFile returns a result
\* that says whether it succeeded.
ParseCompletes(p, success) ==
    /\ ParseGoto(p, IF success THEN "parsed" ELSE "failed")
    /\ parserMetrics' = [parserMetrics EXCEPT
           !.success = @ + IF success THEN 1 ELSE 0,
           !.failure = @ + IF success THEN 0 ELSE 1,
           !.recent = Trimmed(<<p>> \o @)]
    /\ counted' = counted \cup {p}

\* parseFile up to its first await: it throws, and counts nothing, when the file
\* is not there.
ParseFile(p) ==
    /\ parse[p].at = "parse"
    /\ \/ ParseGoto(p, "stream") /\ UNCHANGED parseErrors
       \/ ParseFault /\ ParseGoto(p, "thrown")
    /\ UNCHANGED <<parseHashes, tempFiles, parserMetrics, parserResets, hashRaced, hashExpired, counted>>

\* CSVParser's parseStream: well-formed and valid by the schema, or not.
ParseCsvStream(p) ==
    /\ parse[p].at = "stream" /\ parse[p].type = "csv"
    /\ \E success \in BOOLEAN : ParseCompletes(p, success)
    /\ UNCHANGED <<parseHashes, tempFiles, parseErrors, parserResets, hashRaced, hashExpired>>

\* streamToTempFile, of the parsers of XLSX and PDF; a file that was not
\* written whole is removed.
StreamToTempFile(p) ==
    /\ parse[p].at = "stream" /\ parse[p].type # "csv"
    /\ \/ /\ tempFiles' = tempFiles \cup {p}
          /\ ParseGoto(p, "temp")
          /\ UNCHANGED <<parserMetrics, parseErrors, counted>>
       \/ /\ ParseFault
          /\ ParseCompletes(p, FALSE)
          /\ UNCHANGED tempFiles
    /\ UNCHANGED <<parseHashes, parserResets, hashRaced, hashExpired>>

\* The failure, cleanupTempFiles and the end.
ParseTempFile(p) ==
    /\ parse[p].at = "temp"
    /\ tempFiles' = tempFiles \ {p}
    /\ ParseCompletes(p, FALSE)
    /\ UNCHANGED <<parseHashes, parseErrors, parserResets, hashRaced, hashExpired>>

ResetParserMetrics ==
    /\ parserResets < MaxParserResets /\ parserMetrics # NoMetrics
    /\ parserResets' = parserResets + 1
    /\ parserMetrics' = NoMetrics
    /\ counted' = {}
    /\ UNCHANGED <<parse, parseHashes, tempFiles, parseErrors, hashRaced, hashExpired>>

ParserNext ==
    \/ \E p \in Parses :
         \/ BeginParse(p) \/ CheckForDuplicate(p) \/ StoreFileHash(p)
         \/ ParseFile(p) \/ ParseCsvStream(p) \/ StreamToTempFile(p) \/ ParseTempFile(p)
    \/ \E hash \in Hashes : HashExpires(hash)
    \/ ResetParserMetrics

-----------------------------------------------------------------------------
Outcomes == {"parsed", "failed", "duplicate", "unsupported", "thrown"}

ParserTypeOK ==
    /\ \A p \in Parses : parse[p].at \in {"idle", "select", "store", "parse", "stream", "temp"} \cup Outcomes
    /\ parseHashes \subseteq Hashes
    /\ parserMetrics.success \in Nat /\ parserMetrics.failure \in Nat
    /\ Range(parserMetrics.recent) \subseteq Parses
    /\ parseErrors \in 0 .. MaxParseErrors

Count(outcome) == Cardinality({p \in counted : parse[p].at = outcome})

(* One content is let through twice only when its row has expired, when a   *)
(* statement has failed or when the second call selected before the first   *)
(* had stored; and it is refused only after it has been let through.  The   *)
(* metrics count what has completed since their reset, begun before it or   *)
(* not, with as many recent parses as are kept, and no temporary file       *)
(* outlives its parse.                                                      *)
ParsesHonest ==
    /\ \A p, q \in Parses :
         p # q /\ Taken(p) /\ Taken(q) /\ parse[p].hash = parse[q].hash
         => parse[p].hash \in hashRaced \cup hashExpired \/ parseErrors > 0
    /\ \A p \in Parses : parse[p].at = "duplicate" =>
         \E q \in Parses \ {p} : parse[q].checked /\ parse[q].hash = parse[p].hash
                                 /\ parse[q].at \notin {"select", "store", "duplicate"}
    /\ parserMetrics.success = Count("parsed")
    /\ parserMetrics.failure = Count("failed")
    /\ parserMetrics.duplicates = Count("duplicate")
    /\ LET total == parserMetrics.success + parserMetrics.failure IN
       Len(parserMetrics.recent) = IF total < MaxRecentParses THEN total ELSE MaxRecentParses
    /\ \A p \in tempFiles : parse[p].at = "temp"

=============================================================================
