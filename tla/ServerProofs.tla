----------------------------- MODULE ServerProofs -----------------------------
(***************************************************************************)
(* Theorems about the other five components of MCPlatform, for every value  *)
(* of their constants: the configuration, the security monitoring, the      *)
(* parsers, the tables and what the server counts of itself.  The last      *)
(* section puts them together with those of PlatformProofs: what holds of   *)
(* every behavior of MCPlatform.                                            *)
(***************************************************************************)
EXTENDS PlatformProofs, SequenceTheorems

-----------------------------------------------------------------------------
(* The configuration.                                                       *)

ConfigurationSpec == ConfigurationInit /\ [][ConfigurationNext]_configVars

\* What has been loaded when the start is at one of these.
AfterDatabase == {"email", "otpEmail", "security", "server", "redis", "whole", "running"}
AfterCipher   == {"database"} \cup AfterDatabase
AfterSecurity == {"server", "redis", "whole", "running"}

ConfigurationTyped ==
    /\ setting \in Settings
    /\ start \in {"environment", "db", "encryption", "exited", "threw"} \cup AfterCipher
    /\ validated \in {"uncalled", "valid", "invalid"}
    /\ dbClient \in {"none", "url", "parts"}
    /\ cipher = NoCipher \/ \E k \in EncryptionKeys : k # "none" /\ cipher = DerivedKey(k)
    /\ secretsKey \in EncryptionKeys
    /\ sections \in [database : {"none", "url", "parts"}, email : {"none", "loaded"},
                     emailHost : BOOLEAN, otpEmail : {"none", "loaded"},
                     redis : {"none", "host", "url", "localhost"}, redisTls : BOOLEAN]
    /\ sections.redisTls => sections.redis # "none"
    /\ processStarts \in 1 .. MaxStarts

\* The client and then the section of the database, from the same setting.
OneDatabase ==
    /\ start \in {"encryption"} \cup AfterCipher =>
         dbClient = IF UrlGiven THEN "url" ELSE "parts"
    /\ start \in AfterDatabase => sections.database = dbClient

\* The cipher is of the key, unless there is none outside production; past the
\* section of security there is one, and it is fit.
CipherOfKey ==
    /\ start \in {"environment", "db", "encryption"} => cipher = NoCipher
    /\ start \in AfterCipher =>
         \/ setting.key # "none" /\ cipher = DerivedKey(setting.key)
         \/ setting.key = "none" /\ cipher = DefaultCipher
    /\ start \in AfterSecurity =>
         KeyLength[setting.key] >= 32 /\ (Production => setting.key \notin InsecureDefaults)
    /\ start = "running" => secretsKey = setting.key

HowEnded ==
    /\ start = "exited" => Production
    /\ start = "threw" /\ Production => dbClient = "none" \/ cipher = NoCipher

\* Nothing is encrypted but with a fit key, under the cipher of that key.
EncryptedFit ==
    \A e \in encrypted :
      /\ e.setting.key # "none" /\ e.cipher = DerivedKey(e.setting.key)
      /\ e.setting.mode = "production" => e.setting.key \notin InsecureDefaults

ConfigurationInv ==
    ConfigurationTyped /\ OneDatabase /\ CipherOfKey /\ HowEnded /\ EncryptedFit

-----------------------------------------------------------------------------
(* The security monitoring.                                                 *)

SecuritySpec == SecurityInit /\ [][SecurityNext]_secVars

Firing == {j \in SecurityJobs : securityJobs[j] = "firing"}

SecurityTyped ==
    /\ monitoring \in [enabled : BOOLEAN, schedule : Schedules]
    /\ securityJobs \in [SecurityJobs -> {"none", "firing", "stopped"}]
    /\ scheduledJob \in SecurityJobs \cup {"none"}
    /\ initializer \in [at : {"idle", "monitoring"} \cup DOMAIN NextService,
                        enabled : BOOLEAN, schedule : Schedules]
    /\ inits \in Nat
    /\ securityRun \in [SecurityRuns -> EventKinds \cup {"unseen", "over"}]

KnownOrReplaced ==
    /\ scheduledJob # "none" => scheduledJob \in Firing
    /\ \A j \in Firing : j = scheduledJob \/ j \in replaced
    /\ scheduledJob # "none" => inits > (IF initializer.at = "idle" THEN 0 ELSE 1)
    /\ replaced # {} => inits > 1

\* Every task that fires is of one initialization, and one that is under way
\* has not made its task yet.
OneTaskEach ==
    /\ IsFiniteSet(Firing)
    /\ Cardinality(Firing) + (IF initializer.at = "idle" THEN 0 ELSE 1) <= inits

AlertsTrue == \A a \in secAlerts : a.count >= AlertThreshold

SecurityInv == SecurityTyped /\ KnownOrReplaced /\ OneTaskEach /\ AlertsTrue

-----------------------------------------------------------------------------
(* The parsers.                                                             *)

ParsersSpec == ParserInit /\ [][ParserNext]_parserVars

CompletedAt == {"parsed", "failed", "duplicate"}

ParserTyped ==
    /\ parse \in [Parses -> [at : {"idle", "select", "store", "parse", "stream", "temp"}
                                  \cup Outcomes,
                             hash : Hashes \cup {"none"}, type : FileTypes \cup {"none"},
                             checked : BOOLEAN]]
    /\ \A p \in Parses :
         /\ parse[p].at \notin {"idle", "thrown"} => parse[p].hash \in Hashes
         /\ parse[p].at \in {"select", "store", "duplicate"} => parse[p].checked
    /\ parseHashes \subseteq Hashes
    /\ parserMetrics \in [success : Nat, failure : Nat, duplicates : Nat, recent : Seq(Parses)]
    /\ parseErrors \in 0 .. MaxParseErrors

\* A content let through and past its INSERT is remembered, unless that failed.
Remembered ==
    \A p \in Parses : Taken(p) /\ parse[p].at # "store" =>
      parse[p].hash \in parseHashes \cup hashExpired \/ parseErrors > 0

TakenTwice ==
    \A p, q \in Parses :
      p # q /\ Taken(p) /\ Taken(q) /\ parse[p].hash = parse[q].hash
      => parse[p].hash \in hashRaced \cup hashExpired \/ parseErrors > 0

\* A call that was let through with this content, past its INSERT.
LetThrough(q, hash) ==
    /\ parse[q].checked /\ parse[q].hash = hash
    /\ parse[q].at \notin {"idle", "select", "store", "duplicate"}

RefusedOnce ==
    /\ \A hash \in parseHashes : \E q \in Parses : LetThrough(q, hash)
    /\ \A p \in Parses : parse[p].at = "duplicate" =>
         \E q \in Parses \ {p} : LetThrough(q, parse[p].hash)

Total == parserMetrics.success + parserMetrics.failure

MetricsCount ==
    /\ counted \subseteq Parses /\ IsFiniteSet(counted)
    /\ \A p \in counted : parse[p].at \in CompletedAt
    /\ parserMetrics.success = Count("parsed")
    /\ parserMetrics.failure = Count("failed")
    /\ parserMetrics.duplicates = Count("duplicate")
    /\ Len(parserMetrics.recent) = IF Total < MaxRecentParses THEN Total ELSE MaxRecentParses

TempOnly == tempFiles \subseteq Parses /\ \A p \in tempFiles : parse[p].at = "temp"

ParserInv ==
    ParserTyped /\ Remembered /\ TakenTwice /\ RefusedOnce /\ MetricsCount /\ TempOnly

-----------------------------------------------------------------------------
(* The tables.                                                              *)

TablesSpec == TablesInit /\ [][TablesNext]_tableVars

TablesInv ==
    /\ docLines \in Seq(DOMAIN LineKinds) /\ Len(docLines) <= MaxLines
    /\ latticeIn \in BOOLEAN
    /\ latticeLines \in Seq(1 .. Len(docLines)) /\ (latticeLines # <<>> => latticeIn)
    /\ streamLines \in Seq(1 .. Len(docLines))
    /\ sheet \in Seq(SUBSET Columns)

\* No rule follows another at once.
NoDoubleRule == \A n \in 2 .. Len(docLines) : ~ (Line(n).border /\ Line(n - 1).border)

\* The rules whose table has ended with a later one, and had records.
Closed == {n \in Opening : (\E m \in Rules : m > n) /\ TableFrom(n) # <<>>}

\* The lattice loop is in a table after an odd number of rules, has all lines below
\* the last of them, and has listed the tables of those that another has followed.
LatticeInv ==
    NoDoubleRule =>
      /\ latticeIn <=> Cardinality(Rules) % 2 = 1
      /\ latticeIn => \E o \in Opening : /\ \A r \in Rules : r <= o
                                         /\ latticeLines = Numbers(o + 1, Len(docLines))
      /\ latticeTables = Listed([n \in Closed |-> TableFrom(n)])

\* The first lines of the runs that have ended, are long enough and had records.
Ended == {n \in Starts : /\ RunEnd(n) < Len(docLines) /\ RunEnd(n) >= n + 2
                         /\ TableAt(n) # <<>>}

\* The stream loop has the lines of the run that goes on, if one does, and has listed
\* the tables of those that have ended.
StreamInv ==
    /\ streamLines # <<>> =>
         \E s \in Starts : Run(s, Len(docLines)) /\ streamLines = Numbers(s, Len(docLines))
    /\ streamLines = <<>> =>
         ~ \E n \in DOMAIN docLines : HeaderLike(Line(n)) /\ Run(n, Len(docLines))
    /\ streamTables = Listed([n \in Ended |-> TableAt(n)])

TablesFound == TablesInv /\ LatticeInv /\ StreamInv

-----------------------------------------------------------------------------
(* What the server counts of itself.                                        *)

MonitoringSpec == MonitoringInit /\ [][RequestsNext \/ SamplesNext]_monitoringVars

Answer == [path : Paths, time : Times]
Perf == [count : Nat, total : Nat, max : 0 .. 3, min : 1 .. 4, perPath : [Paths -> Nat],
         timePerPath : [Paths -> Nat], slow : Seq(Times)]
CountsType == [total : Nat, success : Nat, error : Nat, errors : Nat, critical : Nat]
Datadog == [up : {"no", "yes", "flushed"}, buffer : Nat, cleared : Nat, tracked : Nat]

MonitoringTyped ==
    /\ request \in [Requests -> Paths \cup {"unseen", "over"}]
    /\ perf \in Perf
    /\ answered \in Seq(Answer)
    /\ counts \in CountsType
    /\ datadog \in Datadog

\* A sum of the times on a path, request by request.
Sums(f, p) ==
    f = [n \in 0 .. Len(answered) |->
           IF n = 0 THEN 0
           ELSE f[n - 1] + (IF answered[n].path = p THEN answered[n].time ELSE 0)]

PathsMeasured ==
    \A p \in Paths :
      /\ perf.perPath[p] = Cardinality(TimesOf(p))
      /\ \E f : Sums(f, p) /\ f[Len(answered)] = perf.timePerPath[p]

TimesBounded ==
    /\ perf.count = Len(answered)
    /\ perf.total = perf.timePerPath["task"] + perf.timePerPath["health"]
                    + perf.timePerPath["static"]
    /\ perf.min * perf.count <= perf.total /\ perf.total <= perf.max * perf.count

SlowKept ==
    /\ Len(perf.slow) = AtMostOf(Cardinality(SlowOnes), SlowLimit)
    /\ \A i \in SlowOnes : SlowAfter(i) < SlowLimit =>
         /\ SlowAfter(i) < Len(perf.slow)
         /\ perf.slow[Len(perf.slow) - SlowAfter(i)] = answered[i].time

CountsAdd ==
    /\ counts.success + counts.error = counts.total
    /\ \A a \in alerts : a.total >= AlertAfter /\ a.error * RateInverse > a.total

Buffered(d) == d.buffer < BufferLimit /\ d.cleared + d.buffer = d.tracked

SamplesTyped ==
    /\ history \in Seq(Nat)
    /\ samples \in 0 .. MaxSamples
    /\ collector \in [1 .. MaxSamples -> {"none", "check", "create", "index", "insert", "over"}]
    /\ metricsTable \in [exists : BOOLEAN, indexed : BOOLEAN]
    /\ metricsTable.indexed => metricsTable.exists
    /\ \A s \in 1 .. MaxSamples : collector[s] = "index" => metricsTable.exists

LastSamples ==
    /\ Len(history) = AtMostOf(samples, HistoryLimit)
    /\ \A i \in 1 .. Len(history) : history[i] = samples - Len(history) + i

RequestsInv ==
    /\ MonitoringTyped /\ PathsMeasured /\ TimesBounded /\ SlowKept /\ CountsAdd
    /\ Buffered(datadog)

SamplesInv == SamplesTyped /\ LastSamples

MonitoringInv == RequestsInv /\ SamplesInv

-----------------------------------------------------------------------------
(* The configuration: its steps.                                            *)

LEMMA ConfigurationInvInit == ConfigurationInit => ConfigurationInv
<1> SUFFICES ASSUME ConfigurationInit
             PROVE  ConfigurationInv
  OBVIOUS
<1>1. ConfigurationTyped
  <2>1. setting \in Settings /\ secretsKey \in EncryptionKeys
    BY DEF ConfigurationInit, Settings, Modes, EncryptionKeys, KeyLength
  <2>2. processStarts \in 1 .. MaxStarts
    BY ConfigurationAssumption DEF ConfigurationInit
  <2>3. QED
    BY <2>1, <2>2 DEF ConfigurationInit, ConfigurationTyped, NoSections
<1>2. OneDatabase /\ CipherOfKey /\ HowEnded /\ EncryptedFit
  BY DEF ConfigurationInit, OneDatabase, CipherOfKey, HowEnded, EncryptedFit, AfterDatabase,
         AfterCipher, AfterSecurity
<1>3. QED
  BY <1>1, <1>2 DEF ConfigurationInv

\* A section that passes leads on, one that does not ends the start.
LEMMA SectionStep ==
    ASSUME ConfigurationInv, NEW s \in AfterCipher, NEW passes \in BOOLEAN,
           NEW next, <<s, next>> \in {<<"database", "email">>, <<"email", "otpEmail">>,
                        <<"otpEmail", "security">>, <<"security", "server">>,
                        <<"server", "redis">>, <<"redis", "whole">>},
           NEW loaded,
           loaded \in [database : {"none", "url", "parts"}, email : {"none", "loaded"},
                       emailHost : BOOLEAN, otpEmail : {"none", "loaded"},
                       redis : {"none", "host", "url", "localhost"}, redisTls : BOOLEAN],
           loaded.redisTls => loaded.redis # "none",
           s = "database" /\ passes => loaded.database = dbClient,
           s # "database" => loaded.database = sections.database,
           s = "security" /\ passes => /\ KeyLength[setting.key] >= 32
                                       /\ Production => setting.key \notin InsecureDefaults,
           Section(s, passes, next, loaded), UNCHANGED secretsKey
    PROVE  ConfigurationInv'
<1>1. /\ start = s
      /\ start' = IF passes THEN next ELSE Rejected
      /\ sections' = IF passes THEN loaded ELSE sections
      /\ UNCHANGED <<setting, validated, dbClient, cipher, encrypted, processStarts, secretsKey>>
  BY DEF Section
<1>2. (Production' <=> Production) /\ (Production => Rejected = "exited")
      /\ (~ Production => Rejected = "threw")
  BY <1>1 DEF Production, Rejected
<1>3. /\ next \in AfterDatabase \ {"running"}
      /\ (next \in AfterSecurity => s = "security" \/ s \in AfterSecurity)
      /\ s \in AfterCipher \ {"running", "whole"} /\ (s \in AfterDatabase <=> s # "database")
  BY DEF AfterDatabase, AfterCipher, AfterSecurity
<1>4. start' \in AfterDatabase \ {"running"} \/ start' \in {"exited", "threw"}
  BY <1>1, <1>2, <1>3
<1>5. ConfigurationTyped'
  <2>1. start' \in {"exited", "threw"} \cup AfterCipher
    BY <1>4 DEF AfterCipher
  <2>2. QED
    BY <1>1, <2>1 DEF ConfigurationInv, ConfigurationTyped
<1>6. OneDatabase'
  <2>1. start' \in AfterDatabase => passes
    BY <1>1, <1>2 DEF AfterDatabase
  <2>2. dbClient = (IF UrlGiven THEN "url" ELSE "parts") /\ (UrlGiven' <=> UrlGiven)
    BY <1>1 DEF ConfigurationInv, OneDatabase, UrlGiven
  <2>3. s \in AfterDatabase => sections.database = dbClient
    BY <1>1 DEF ConfigurationInv, OneDatabase
  <2>4. passes => loaded.database = dbClient
    BY <1>3, <2>3
  <2>5. QED
    BY <1>1, <2>1, <2>2, <2>4 DEF OneDatabase
<1>7. CipherOfKey'
  <2>1. passes => start' = next /\ start' # "running"
    BY <1>1, <1>3
  <2>2. ~ passes => start' \in {"exited", "threw"}
    BY <1>1, <1>2
  <2>3. /\ "exited" \notin AfterCipher /\ "threw" \notin AfterCipher
        /\ AfterSecurity \subseteq AfterCipher
        /\ AfterDatabase \subseteq AfterCipher
        /\ \A x \in AfterCipher : x \notin {"environment", "db", "encryption"}
    BY DEF AfterCipher, AfterDatabase, AfterSecurity
  <2>4. start' \notin {"environment", "db", "encryption"}
    BY <1>3, <2>1, <2>2, <2>3
  <2>5. start' \in AfterCipher => passes
    BY <2>2, <2>3
  <2>6. ASSUME start' \in AfterCipher
        PROVE  /\ \/ setting.key # "none" /\ cipher = DerivedKey(setting.key)
                  \/ setting.key = "none" /\ cipher = DefaultCipher
               /\ start' # "running"
    BY <1>1, <2>1, <2>5, <2>6 DEF ConfigurationInv, CipherOfKey
  <2>7. ASSUME start' \in AfterSecurity
        PROVE  /\ KeyLength[setting.key] >= 32
               /\ Production => setting.key \notin InsecureDefaults
    BY <1>1, <1>3, <2>1, <2>3, <2>5, <2>7 DEF ConfigurationInv, CipherOfKey
  <2>8. QED
    BY <1>1, <1>2, <2>3, <2>4, <2>6, <2>7 DEF CipherOfKey
<1>8. HowEnded' /\ EncryptedFit'
  <2>1. start' = "threw" => ~ Production
    BY <1>1, <1>2, <1>3 DEF AfterDatabase
  <2>2. start' = "exited" => Production
    BY <1>1, <1>2, <1>3 DEF AfterDatabase
  <2>3. QED
    BY <1>1, <1>2, <2>1, <2>2 DEF ConfigurationInv, HowEnded, EncryptedFit
<1>9. QED
  BY <1>5, <1>6, <1>7, <1>8 DEF ConfigurationInv

LEMMA LoadSectionsStep ==
    ASSUME ConfigurationInv,
           \/ LoadDatabaseConfig \/ LoadEmailConfig \/ LoadOtpEmailConfig
           \/ LoadSecurityConfig \/ LoadServerConfig \/ LoadRedisConfig
    PROVE  ConfigurationInv'
<1> DEFINE SectionsType == [database : {"none", "url", "parts"}, email : {"none", "loaded"},
                            emailHost : BOOLEAN, otpEmail : {"none", "loaded"},
                            redis : {"none", "host", "url", "localhost"}, redisTls : BOOLEAN]
<1>1. sections \in SectionsType /\ (sections.redisTls => sections.redis # "none")
  BY DEF ConfigurationInv, ConfigurationTyped
<1>2. CASE LoadDatabaseConfig
  <2>1. PICK numbers \in BOOLEAN :
          Section("database",
                  /\ numbers /\ setting.url \notin {"invalid", "empty"}
                  /\ setting.url = "none" => setting.pg # "none",
                  "email",
                  [sections EXCEPT !.database = IF setting.url = "none" THEN "parts" ELSE "url"])
    BY <1>2 DEF LoadDatabaseConfig
  <2> DEFINE passes == /\ numbers /\ setting.url \notin {"invalid", "empty"}
                       /\ setting.url = "none" => setting.pg # "none"
             loaded ==
               [sections EXCEPT !.database = IF setting.url = "none" THEN "parts" ELSE "url"]
  <2>2. /\ loaded \in SectionsType /\ (loaded.redisTls => loaded.redis # "none")
        /\ loaded.database = IF setting.url = "none" THEN "parts" ELSE "url"
    BY <1>1
  <2>3. passes => loaded.database = dbClient
    <3>1. dbClient = IF UrlGiven THEN "url" ELSE "parts"
      BY <2>1 DEF Section, ConfigurationInv, OneDatabase, AfterCipher
    <3>2. QED
      BY <2>2, <3>1 DEF UrlGiven
  <2>4. passes \in BOOLEAN /\ "database" \in AfterCipher
    BY DEF AfterCipher
  <2>5. Section("database", passes, "email", loaded) /\ UNCHANGED secretsKey
    BY <1>2, <2>1 DEF LoadDatabaseConfig
  <2> HIDE DEF passes, loaded
  <2>6. QED
    BY <2>2, <2>3, <2>4, <2>5, SectionStep
<1>3. CASE LoadEmailConfig
  <2>1. PICK host, others, right \in BOOLEAN :
          Section("email", host /\ others => right, "otpEmail",
                  [sections EXCEPT !.emailHost = host,
                                   !.email = IF host /\ others THEN "loaded" ELSE "none"])
    BY <1>3 DEF LoadEmailConfig
  <2> DEFINE passes == host /\ others => right
             loaded == [sections EXCEPT !.emailHost = host,
                                        !.email = IF host /\ others THEN "loaded" ELSE "none"]
  <2>2. /\ loaded \in SectionsType /\ (loaded.redisTls => loaded.redis # "none")
        /\ loaded.database = sections.database
    BY <1>1
  <2>3. passes \in BOOLEAN /\ "email" \in AfterCipher
    BY DEF AfterCipher, AfterDatabase
  <2>4. Section("email", passes, "otpEmail", loaded) /\ UNCHANGED secretsKey
    BY <1>3, <2>1 DEF LoadEmailConfig
  <2> HIDE DEF passes, loaded
  <2>5. QED
    BY <2>2, <2>3, <2>4, SectionStep
<1>4. CASE LoadOtpEmailConfig
  <2>1. PICK account, host, right \in BOOLEAN :
          Section("otpEmail", account => right /\ (host \/ sections.emailHost), "security",
                  [sections EXCEPT !.otpEmail = IF account THEN "loaded" ELSE "none"])
    BY <1>4 DEF LoadOtpEmailConfig
  <2> DEFINE passes == account => right /\ (host \/ sections.emailHost)
             loaded == [sections EXCEPT !.otpEmail = IF account THEN "loaded" ELSE "none"]
  <2>2. /\ loaded \in SectionsType /\ (loaded.redisTls => loaded.redis # "none")
        /\ loaded.database = sections.database
    BY <1>1
  <2>3. passes \in BOOLEAN /\ "otpEmail" \in AfterCipher
    BY DEF AfterCipher, AfterDatabase
  <2>4. Section("otpEmail", passes, "security", loaded) /\ UNCHANGED secretsKey
    BY <1>4, <2>1 DEF LoadOtpEmailConfig
  <2> HIDE DEF passes, loaded
  <2>5. QED
    BY <2>2, <2>3, <2>4, SectionStep
<1>5. CASE LoadSecurityConfig
  <2>1. PICK others \in BOOLEAN :
          Section("security",
                  /\ ~ (Production /\ IsDefaultValue(setting.key))
                  /\ KeyLength[setting.key] >= 32
                  /\ others,
                  "server", sections)
    BY <1>5 DEF LoadSecurityConfig
  <2> DEFINE passes == /\ ~ (Production /\ IsDefaultValue(setting.key))
                       /\ KeyLength[setting.key] >= 32
                       /\ others
  <2>2. passes => /\ KeyLength[setting.key] >= 32
                  /\ Production => setting.key \notin InsecureDefaults
    BY DEF IsDefaultValue
  <2>3. passes \in BOOLEAN /\ "security" \in AfterCipher
    BY DEF AfterCipher, AfterDatabase
  <2>4. Section("security", passes, "server", sections) /\ UNCHANGED secretsKey
    BY <1>5, <2>1 DEF LoadSecurityConfig
  <2> HIDE DEF passes
  <2>5. QED
    BY <1>1, <2>2, <2>3, <2>4, SectionStep
<1>6. CASE LoadServerConfig
  <2>1. PICK right \in BOOLEAN : Section("server", right, "redis", sections)
    BY <1>6 DEF LoadServerConfig
  <2>2. "server" \in AfterCipher /\ UNCHANGED secretsKey
    BY <1>6 DEF AfterCipher, AfterDatabase, LoadServerConfig
  <2>3. QED
    BY <1>1, <2>1, <2>2, SectionStep
<1>7. CASE LoadRedisConfig
  <2>1. PICK host \in BOOLEAN, tls \in BOOLEAN, url \in {"none", "invalid", "redis", "rediss"} :
          Section("redis", TRUE, "whole", RedisSection(host, url, tls))
    BY <1>7 DEF LoadRedisConfig
  <2> DEFINE loaded == RedisSection(host, url, tls)
             passes == TRUE
  <2>2. /\ loaded \in SectionsType /\ (loaded.redisTls => loaded.redis # "none")
        /\ loaded.database = sections.database
    BY <1>1 DEF RedisSection
  <2>3. passes \in BOOLEAN /\ "redis" \in AfterCipher
    BY DEF AfterCipher, AfterDatabase
  <2>4. Section("redis", passes, "whole", loaded) /\ UNCHANGED secretsKey
    BY <1>7, <2>1 DEF LoadRedisConfig
  <2> HIDE DEF loaded, passes
  <2>5. QED
    BY <2>2, <2>3, <2>4, SectionStep
<1>8. QED
  BY <1>2, <1>3, <1>4, <1>5, <1>6, <1>7

LEMMA ConfigurationInvStep ==
    ASSUME ConfigurationInv, [ConfigurationNext]_configVars
    PROVE  ConfigurationInv'
<1> USE DEF ConfigurationInv
<1>1. CASE StartProcess
  <2>1. UNCHANGED <<validated, dbClient, cipher, secretsKey, sections, encrypted, processStarts>>
        /\ setting' \in Settings /\ start' = "db" /\ start = "environment"
    BY <1>1 DEF StartProcess
  <2>2. QED
    BY <2>1 DEF ConfigurationTyped, OneDatabase, CipherOfKey, HowEnded, EncryptedFit,
         AfterDatabase, AfterCipher, AfterSecurity
<1>2. CASE ValidateEnvOrExit
  <2>1. /\ start = "db" /\ validated' \in {"valid", "invalid"}
        /\ start' \in {"db", "exited"} /\ (start' = "exited" => Production)
        /\ UNCHANGED <<setting, dbClient, cipher, secretsKey, sections, encrypted, processStarts>>
    BY <1>2 DEF ValidateEnvOrExit
  <2>2. QED
    BY <2>1 DEF ConfigurationTyped, OneDatabase, CipherOfKey, HowEnded, EncryptedFit,
         AfterDatabase, AfterCipher, AfterSecurity, Production
<1>3. CASE LoadDatabaseModule
  <2>1. /\ start = "db"
        /\ dbClient' \in {"none", "url", "parts"}
        /\ dbClient' # "none" => dbClient' = IF UrlGiven THEN "url" ELSE "parts"
        /\ start' = IF dbClient' = "none" THEN "threw" ELSE "encryption"
        /\ UNCHANGED <<setting, validated, cipher, secretsKey, sections, encrypted, processStarts>>
    BY <1>3 DEF LoadDatabaseModule
  <2>2. QED
    BY <2>1 DEF ConfigurationTyped, OneDatabase, CipherOfKey, HowEnded, EncryptedFit,
         AfterDatabase, AfterCipher, AfterSecurity, UrlGiven
<1>4. CASE InitializeEncryption
  <2>1. /\ start = "encryption"
        /\ \/ /\ start' = "database"
              /\ \/ setting.key # "none" /\ cipher' = DerivedKey(setting.key)
                 \/ setting.key = "none" /\ cipher' = DefaultCipher
           \/ start' = "threw" /\ cipher' = cipher
        /\ UNCHANGED <<setting, validated, dbClient, secretsKey,
                       sections, encrypted, processStarts>>
    BY <1>4 DEF InitializeEncryption
  <2>2. setting.key \in EncryptionKeys /\ "codeDefault" \in EncryptionKeys
    BY DEF ConfigurationTyped, Settings, EncryptionKeys, KeyLength
  <2>3. cipher' = NoCipher \/ \E k \in EncryptionKeys : k # "none" /\ cipher' = DerivedKey(k)
    BY <2>1, <2>2 DEF DefaultCipher, ConfigurationTyped
  <2>4. ConfigurationTyped'
    BY <2>1, <2>3 DEF ConfigurationTyped, AfterCipher
  <2>5. QED
    BY <2>1, <2>4 DEF OneDatabase, CipherOfKey, HowEnded, EncryptedFit,
         AfterDatabase, AfterCipher, AfterSecurity, DefaultCipher, Production, UrlGiven
<1>5. CASE ParseConfig
  <2> DEFINE passes == setting.mode \in {"development", "test", "production"}
  <2>1. /\ start = "whole"
        /\ \/ start' = "running"
           \/ start' = "exited" /\ Production
           \/ start' = "threw" /\ ~ Production
        /\ sections' = sections
        /\ UNCHANGED <<setting, validated, dbClient, cipher, encrypted, processStarts>>
    BY <1>5 DEF ParseConfig, Section, Rejected
  <2>2. KeyLength[setting.key] >= 32 /\ (Production => ~ IsDefaultValue(setting.key))
    BY <2>1 DEF CipherOfKey, AfterSecurity, IsDefaultValue
  <2>3. /\ secretsKey' \in {setting.key, secretsKey}
        /\ start' = "running" => secretsKey' = setting.key
    BY <1>5, <2>2 DEF ParseConfig
  <2>4. setting.key \in EncryptionKeys
    BY DEF ConfigurationTyped, Settings
  <2>5. ConfigurationTyped'
    BY <2>1, <2>3, <2>4 DEF ConfigurationTyped, AfterCipher, AfterDatabase
  <2>6. QED
    BY <2>1, <2>3, <2>5 DEF OneDatabase, CipherOfKey, HowEnded, EncryptedFit,
         AfterDatabase, AfterCipher, AfterSecurity, Production, UrlGiven
<1>6. CASE EncryptData
  <2>1. /\ start = "running"
        /\ encrypted' = encrypted \cup {[setting |-> setting, cipher |-> cipher]}
        /\ UNCHANGED <<setting, start, validated, dbClient, cipher, secretsKey, sections,
                       processStarts>>
    BY <1>6 DEF EncryptData
  <2>2. ConfigurationTyped' /\ OneDatabase' /\ CipherOfKey' /\ HowEnded'
    BY <2>1 DEF ConfigurationTyped, OneDatabase, CipherOfKey, HowEnded, Production, UrlGiven
  <2>3. setting.key # "none" /\ cipher = DerivedKey(setting.key)
    BY <2>1 DEF CipherOfKey, AfterCipher, AfterDatabase, AfterSecurity, KeyLength
  <2>4. Production => setting.key \notin InsecureDefaults
    BY <2>1 DEF CipherOfKey, AfterSecurity
  <2>5. EncryptedFit'
    BY <2>1, <2>3, <2>4 DEF EncryptedFit, Production
  <2>6. QED
    BY <2>2, <2>5
<1>7. CASE Restart
  <2>1. PICK m \in {"development", "production"}, k \in EncryptionKeys :
          /\ setting' = [setting EXCEPT !.mode = m, !.key = k]
          /\ processStarts < MaxStarts /\ processStarts' = processStarts + 1
          /\ start' = "db" /\ validated' = "uncalled"
          /\ dbClient' = "none" /\ cipher' = NoCipher /\ secretsKey' = "none"
          /\ sections' = NoSections
          /\ UNCHANGED encrypted
    BY <1>7 DEF Restart
  <2>2. setting' \in Settings
    BY <2>1 DEF ConfigurationTyped, Settings, Modes
  <2>3. ConfigurationTyped'
    BY <2>1, <2>2, ConfigurationAssumption DEF ConfigurationTyped, NoSections, EncryptionKeys,
         KeyLength
  <2>4. QED
    BY <2>1, <2>3 DEF OneDatabase, CipherOfKey, HowEnded, EncryptedFit,
         AfterDatabase, AfterCipher, AfterSecurity
<1>8. CASE UNCHANGED configVars
  BY <1>8 DEF configVars, ConfigurationTyped, OneDatabase, CipherOfKey, HowEnded, EncryptedFit,
         Production, UrlGiven
<1>9. QED
  BY <1>1, <1>2, <1>3, <1>4, <1>5, <1>6, <1>7, <1>8, LoadSectionsStep DEF ConfigurationNext

LEMMA ConfigurationInvAlways == ConfigurationSpec => []ConfigurationInv
  BY ConfigurationInvInit, ConfigurationInvStep, PTL DEF ConfigurationSpec

(* Every start of the server keeps the configuration to its types.          *)
THEOREM ConfigurationTypeCorrect == ConfigurationSpec => []ConfigurationTypeOK
<1>1. ASSUME ConfigurationInv
      PROVE  ConfigurationTypeOK
  <2>1. cipher.of \in EncryptionKeys
    BY <1>1 DEF ConfigurationInv, ConfigurationTyped, NoCipher, DerivedKey, EncryptionKeys,
         KeyLength
  <2>2. QED
    BY <1>1, <2>1 DEF ConfigurationInv, ConfigurationTyped, ConfigurationTypeOK, AfterCipher,
         AfterDatabase
<1>2. QED
  BY <1>1, ConfigurationInvAlways, PTL

(* In whatever environment it is started, and however often: a server that     *)
(* runs has one key in both modules, the one that is set, and one database;    *)
(* in production the key is none of the listed defaults, and production exits *)
(* where other modes throw; and what was encrypted before can be read          *)
(* whenever the key is the one of then.                                       *)
THEOREM ConfigurationTruthful == ConfigurationSpec => []ConfigurationHonest
<1>1. ASSUME ConfigurationInv
      PROVE  ConfigurationHonest
  <2>1. ASSUME start = "running"
        PROVE  /\ KeyLength[setting.key] >= 32
               /\ cipher = DerivedKey(setting.key) /\ secretsKey = setting.key
               /\ sections.database = dbClient
               /\ Production => setting.key \notin InsecureDefaults
               /\ sections.redisTls => sections.redis # "none"
    BY <1>1, <2>1 DEF ConfigurationInv, ConfigurationTyped, OneDatabase, CipherOfKey,
         AfterDatabase, AfterCipher, AfterSecurity, KeyLength
  <2>2. \A k : DerivedKey(k).of = k
    BY DEF DerivedKey
  <2>3. ASSUME start = "running", Production
        PROVE  IsEncryptionConfigured
    <3>1. cipher.of = setting.key /\ setting.key \notin InsecureDefaults
      BY <2>1, <2>2, <2>3
    <3>2. DefaultCipher.of \in InsecureDefaults
      BY <2>2 DEF DefaultCipher, InsecureDefaults
    <3>3. QED
      BY <3>1, <3>2 DEF IsEncryptionConfigured
  <2>4. start = "exited" => Production
    BY <1>1 DEF ConfigurationInv, HowEnded
  <2>5. start = "threw" /\ Production => "none" \in {dbClient, cipher.of}
    BY <1>1 DEF ConfigurationInv, HowEnded, NoCipher
  <2>6. ASSUME NEW e \in encrypted
        PROVE  /\ e.setting.mode = "production" => e.cipher.of \notin InsecureDefaults
               /\ start = "running" /\ setting.key = e.setting.key => cipher = e.cipher
    <3>1. /\ e.cipher = DerivedKey(e.setting.key)
          /\ e.setting.mode = "production" => e.setting.key \notin InsecureDefaults
      BY <1>1, <2>6 DEF ConfigurationInv, EncryptedFit
    <3>2. e.cipher.of = e.setting.key
      BY <2>2, <3>1
    <3>3. QED
      BY <2>1, <3>1, <3>2
  <2>7. QED
    BY <2>1, <2>2, <2>3, <2>4, <2>5, <2>6 DEF ConfigurationHonest
<1>2. QED
  BY <1>1, ConfigurationInvAlways, PTL

-----------------------------------------------------------------------------
(* The security monitoring: its steps.                                      *)

LEMMA SecurityInvInit == SecurityInit => SecurityInv
<1> SUFFICES ASSUME SecurityInit
             PROVE  SecurityInv
  OBVIOUS
<1>1. SecurityTyped
  BY DEF SecurityInit, SecurityTyped, Schedules
<1>2. Firing = {}
  BY DEF SecurityInit, Firing
<1>3. IsFiniteSet(Firing) /\ Cardinality(Firing) = 0
  BY <1>2, FS_EmptySet
<1>4. QED
  BY <1>1, <1>2, <1>3 DEF SecurityInit, SecurityInv, KnownOrReplaced, OneTaskEach, AlertsTrue

LEMMA FiringCounted ==
    ASSUME SecurityInv
    PROVE  Cardinality(Firing) \in Nat
  BY FS_CardinalityType DEF SecurityInv, OneTaskEach

LEMMA SecurityInvStep ==
    ASSUME SecurityInv, [SecurityNext]_secVars
    PROVE  SecurityInv'
<1> USE DEF SecurityInv
<1>1. CASE InitializeSecurity
  <2>1. PICK on \in BOOLEAN, migrate \in BOOLEAN, schedule \in Schedules :
          initializer' = [at |-> IF migrate THEN "migrations" ELSE "kms",
                          enabled |-> on, schedule |-> schedule]
    BY <1>1 DEF InitializeSecurity
  <2>2. /\ initializer.at = "idle" /\ inits' = inits + 1
        /\ UNCHANGED <<monitoring, securityJobs, scheduledJob, replaced, securityRun, secAlerts>>
    BY <1>1 DEF InitializeSecurity
  <2>3. initializer' \in [at : {"idle", "monitoring"} \cup DOMAIN NextService,
                          enabled : BOOLEAN, schedule : Schedules]
    BY <2>1 DEF NextService
  <2>4. SecurityTyped'
    BY <2>2, <2>3 DEF SecurityTyped
  <2>5. Firing' = Firing
    BY <2>2 DEF Firing
  <2>6. OneTaskEach'
    BY <2>1, <2>2, <2>5, FiringCounted DEF OneTaskEach, SecurityTyped
  <2>7. QED
    BY <2>1, <2>2, <2>4, <2>5, <2>6 DEF KnownOrReplaced, AlertsTrue, SecurityTyped
<1>2. CASE InitializeService
  <2>1. /\ initializer.at # "idle"
        /\ initializer' \in [at : {"idle", "monitoring"} \cup DOMAIN NextService,
                             enabled : BOOLEAN, schedule : Schedules]
        /\ UNCHANGED <<monitoring, securityJobs, scheduledJob, replaced, inits, securityRun,
                       secAlerts>>
    BY <1>2 DEF InitializeService, SecurityTyped, NextService
  <2>2. SecurityTyped'
    BY <2>1 DEF SecurityTyped
  <2>3. Firing' = Firing
    BY <2>1 DEF Firing
  <2>4. OneTaskEach'
    BY <2>1, <2>3, FiringCounted DEF OneTaskEach, SecurityTyped
  <2>5. QED
    BY <2>1, <2>2, <2>3, <2>4 DEF KnownOrReplaced, AlertsTrue, SecurityTyped
<1>3. CASE InitializeSecurityMonitoring
  <2>1. /\ initializer.at = "monitoring" /\ initializer' = [initializer EXCEPT !.at = "idle"]
        /\ monitoring' = [enabled |-> initializer.enabled, schedule |-> initializer.schedule]
        /\ UNCHANGED <<inits, securityRun, secAlerts>>
    BY <1>3 DEF InitializeSecurityMonitoring
  <2>2. initializer'.at = "idle" /\ monitoring' \in [enabled : BOOLEAN, schedule : Schedules]
        /\ initializer' \in [at : {"idle", "monitoring"} \cup DOMAIN NextService,
                             enabled : BOOLEAN, schedule : Schedules]
    BY <2>1 DEF SecurityTyped
  <2>3. CASE UNCHANGED <<securityJobs, scheduledJob, replaced>>
    <3>1. SecurityTyped'
      BY <2>1, <2>2, <2>3 DEF SecurityTyped
    <3>2. Firing' = Firing
      BY <2>3 DEF Firing
    <3>3. OneTaskEach'
      BY <2>1, <2>2, <3>2, FiringCounted DEF OneTaskEach, SecurityTyped
    <3>4. QED
      BY <2>1, <2>2, <2>3, <3>1, <3>2, <3>3 DEF KnownOrReplaced, AlertsTrue, SecurityTyped
  <2>4. CASE ~ UNCHANGED <<securityJobs, scheduledJob, replaced>>
    <3>1. PICK j \in SecurityJobs :
            /\ securityJobs[j] = "none"
            /\ securityJobs' = [securityJobs EXCEPT ![j] = "firing"]
            /\ scheduledJob' = j
            /\ replaced' = replaced \cup ({scheduledJob} \ {"none"})
      BY <1>3, <2>4 DEF InitializeSecurityMonitoring
    <3>2. SecurityTyped'
      BY <2>1, <2>2, <3>1 DEF SecurityTyped
    <3>3. Firing' = Firing \cup {j} /\ j \notin Firing
      BY <3>1 DEF Firing, SecurityTyped
    <3>4. IsFiniteSet(Firing') /\ Cardinality(Firing') = Cardinality(Firing) + 1
      BY <3>3, FS_AddElement DEF OneTaskEach
    <3>5. OneTaskEach'
      BY <2>1, <2>2, <3>4, FiringCounted DEF OneTaskEach, SecurityTyped
    <3>6. KnownOrReplaced'
      <4>1. inits > 0 /\ inits' = inits /\ inits \in Nat /\ initializer'.at = "idle"
        BY <2>1, <2>2, FiringCounted DEF OneTaskEach, SecurityTyped
      <4>2. replaced' # {} => inits > 1
        BY <2>1, <3>1 DEF KnownOrReplaced
      <4>3. \A i \in Firing' : i = scheduledJob' \/ i \in replaced'
        BY <3>1, <3>3, SecurityAssumption DEF KnownOrReplaced, Firing
      <4>4. QED
        BY <3>1, <3>3, <4>1, <4>2, <4>3 DEF KnownOrReplaced
    <3>7. QED
      BY <2>1, <3>2, <3>5, <3>6 DEF AlertsTrue
  <2>5. QED
    BY <2>3, <2>4
<1>4. CASE StopSecurityMonitoring
  <2>1. /\ scheduledJob # "none" /\ scheduledJob' = "none"
        /\ securityJobs' = [securityJobs EXCEPT ![scheduledJob] = "stopped"]
        /\ UNCHANGED <<monitoring, replaced, initializer, inits, securityRun, secAlerts>>
    BY <1>4 DEF StopSecurityMonitoring, StoppedJob
  <2>2. SecurityTyped'
    BY <2>1 DEF SecurityTyped
  <2>3. Firing' = Firing \ {scheduledJob} /\ scheduledJob \in Firing
    BY <2>1 DEF Firing, SecurityTyped, KnownOrReplaced
  <2>4. IsFiniteSet(Firing') /\ Cardinality(Firing') = Cardinality(Firing) - 1
    BY <2>3, FS_RemoveElement DEF OneTaskEach
  <2>5. OneTaskEach'
    BY <2>1, <2>4, FiringCounted DEF OneTaskEach, SecurityTyped
  <2>6. KnownOrReplaced'
    BY <2>1, <2>3 DEF KnownOrReplaced
  <2>7. QED
    BY <2>1, <2>2, <2>5, <2>6 DEF AlertsTrue
<1>5. CASE /\ UNCHANGED <<monitoring, securityJobs, scheduledJob, replaced, initializer, inits>>
           /\ securityRun' \in [SecurityRuns -> EventKinds \cup {"unseen", "over"}]
           /\ \/ secAlerts' = secAlerts
              \/ \E count : /\ count >= AlertThreshold
                            /\ secAlerts' = secAlerts \cup {[kind |-> "encryption_failed",
                                                             count |-> count]}
  <2>1. SecurityTyped'
    BY <1>5 DEF SecurityTyped
  <2>2. Firing' = Firing
    BY <1>5 DEF Firing
  <2>3. KnownOrReplaced' /\ OneTaskEach'
    BY <1>5, <2>2 DEF KnownOrReplaced, OneTaskEach
  <2>4. AlertsTrue'
    BY <1>5 DEF AlertsTrue
  <2>5. QED
    BY <2>1, <2>3, <2>4
<1>6. CASE EncryptionFailures
  BY <1>5, <1>6 DEF EncryptionFailures, SecurityTyped
<1>7. ASSUME NEW r \in SecurityRuns, SecurityJobFires(r)
      PROVE  SecurityInv'
  <2>1. securityRun' \in [SecurityRuns -> EventKinds \cup {"unseen", "over"}]
    BY <1>7 DEF SecurityJobFires, SecurityTyped, EventKinds
  <2>2. QED
    BY <1>5, <1>7, <2>1 DEF SecurityJobFires
<1>8. ASSUME NEW r \in SecurityRuns, CheckSecurityEvents(r)
      PROVE  SecurityInv'
  <2>1. securityRun' \in [SecurityRuns -> EventKinds \cup {"unseen", "over"}]
    BY <1>8 DEF CheckSecurityEvents, SecurityTyped, EventKinds, FollowingCheck
  <2>2. \/ secAlerts' = secAlerts
        \/ /\ failures >= AlertThreshold
           /\ secAlerts' = secAlerts \cup {[kind |-> "encryption_failed", count |-> failures]}
    BY <1>8 DEF CheckSecurityEvents, GroupedCheck
  <2>3. UNCHANGED <<monitoring, securityJobs, scheduledJob, replaced, initializer, inits>>
    BY <1>8 DEF CheckSecurityEvents
  <2>4. QED
    BY <1>5, <2>1, <2>2, <2>3
<1>9. CASE UNCHANGED secVars
  BY <1>5, <1>9 DEF secVars, SecurityTyped
<1>10. QED
  BY <1>1, <1>2, <1>3, <1>4, <1>6, <1>7, <1>8, <1>9 DEF SecurityNext

LEMMA SecurityInvAlways == SecuritySpec => []SecurityInv
  BY SecurityInvInit, SecurityInvStep, PTL DEF SecuritySpec

(* The security monitoring keeps to its types.                              *)
THEOREM SecurityTypeCorrect == SecuritySpec => []SecurityTypeOK
<1>1. ASSUME SecurityInv
      PROVE  SecurityTypeOK
  BY <1>1 DEF SecurityInv, SecurityTyped, SecurityTypeOK
<1>2. QED
  BY <1>1, SecurityInvAlways, PTL

(* However often the monitoring is initialized and stopped: the task that the  *)
(* service knows fires, one it does not know fires only because another was    *)
(* put over it by a second initialization, there are never more of them than   *)
(* initializations, and an alert is raised on a count that had reached the     *)
(* threshold.                                                               *)
THEOREM SecurityWatched == SecuritySpec => []SecurityHonest
<1>1. ASSUME SecurityInv
      PROVE  SecurityHonest
  <2>1. Firing = {j \in SecurityJobs : securityJobs[j] = "firing"}
    BY DEF Firing
  <2>2. Cardinality(Firing) <= inits
    BY <1>1, FiringCounted DEF SecurityInv, OneTaskEach, SecurityTyped
  <2>3. QED
    BY <1>1, <2>1, <2>2 DEF SecurityInv, KnownOrReplaced, AlertsTrue, SecurityHonest
<1>2. QED
  BY <1>1, SecurityInvAlways, PTL

-----------------------------------------------------------------------------
(* The parsers: their steps.                                                *)

ParseRecord == [at : {"idle", "select", "store", "parse", "stream", "temp"} \cup Outcomes,
                hash : Hashes \cup {"none"}, type : FileTypes \cup {"none"}, checked : BOOLEAN]

LEMMA ParserInvInit == ParserInit => ParserInv
<1> SUFFICES ASSUME ParserInit
             PROVE  ParserInv
  OBVIOUS
<1>1. ParserTyped
  <2>1. parserMetrics \in [success : Nat, failure : Nat, duplicates : Nat, recent : Seq(Parses)]
    BY DEF ParserInit, NoMetrics
  <2>2. parseErrors \in 0 .. MaxParseErrors
    BY ParserAssumption DEF ParserInit
  <2>3. QED
    BY <2>1, <2>2 DEF ParserInit, ParserTyped
<1>2. Remembered /\ TakenTwice /\ RefusedOnce /\ TempOnly
  BY DEF ParserInit, Remembered, TakenTwice, RefusedOnce, TempOnly, Taken
<1>3. MetricsCount
  <2>1. \A outcome : {p \in counted : parse[p].at = outcome} = {}
    BY DEF ParserInit
  <2>2. \A outcome : Count(outcome) = 0
    BY <2>1, FS_EmptySet DEF Count
  <2>3. Len(parserMetrics.recent) = 0
    BY DEF ParserInit, NoMetrics
  <2>4. QED
    BY <2>2, <2>3, FS_EmptySet, ParserAssumption DEF ParserInit, NoMetrics, MetricsCount, Total
<1>4. QED
  BY <1>1, <1>2, <1>3 DEF ParserInv

\* What a completion adds to the calls that are counted.
LEMMA CountGrows ==
    ASSUME ParserInv, NEW p \in Parses \ counted, NEW o \in CompletedAt,
           ParseGoto(p, o), counted' = counted \cup {p}
    PROVE  /\ IsFiniteSet(counted') /\ counted' \subseteq Parses
           /\ \A q \in counted' : parse'[q].at \in CompletedAt
           /\ \A x \in CompletedAt : /\ Count(x) \in Nat
                                     /\ Count(x)' = Count(x) + (IF x = o THEN 1 ELSE 0)
<1>1. IsFiniteSet(counted) /\ counted \subseteq Parses
  BY DEF ParserInv, MetricsCount
<1>2. IsFiniteSet(counted') /\ counted' \subseteq Parses
  BY <1>1, FS_AddElement
<1>3. parse'[p].at = o /\ \A q \in Parses \ {p} : parse'[q] = parse[q]
  BY DEF ParseGoto, ParserInv, ParserTyped
<1>4. \A q \in counted' : parse'[q].at \in CompletedAt
  BY <1>1, <1>3 DEF ParserInv, MetricsCount
<1>5. ASSUME NEW x \in CompletedAt
      PROVE  Count(x) \in Nat /\ Count(x)' = Count(x) + (IF x = o THEN 1 ELSE 0)
  <2> DEFINE old == {q \in counted : parse[q].at = x}
             new == {q \in counted' : parse'[q].at = x}
  <2>1. IsFiniteSet(old) /\ Count(x) = Cardinality(old) /\ Count(x)' = Cardinality(new)
    BY <1>1, FS_Subset DEF Count
  <2>2. new = IF x = o THEN old \cup {p} ELSE old
    BY <1>1, <1>3
  <2>3. p \notin old
    OBVIOUS
  <2> HIDE DEF old, new
  <2>4. QED
    BY <2>1, <2>2, <2>3, FS_AddElement, FS_CardinalityType
<1>6. QED
  BY <1>2, <1>4, <1>5

LEMMA CountStays ==
    ASSUME ParserInv, \A q \in counted : parse'[q] = parse[q],
           UNCHANGED <<parserMetrics, counted>>
    PROVE  MetricsCount'
<1>1. \A x : {q \in counted' : parse'[q].at = x} = {q \in counted : parse[q].at = x}
  OBVIOUS
<1>2. \A x : Count(x)' = Count(x)
  BY <1>1 DEF Count
<1>3. QED
  BY <1>2 DEF ParserInv, MetricsCount, Total

\* How a call goes on.
LEMMA ParseGoes ==
    ASSUME ParserTyped, NEW p \in Parses, NEW at, ParseGoto(p, at)
    PROVE  /\ parse'[p].at = at
           /\ \A q \in Parses \ {p} : parse'[q] = parse[q]
           /\ \A q \in Parses : /\ parse'[q].hash = parse[q].hash
                                /\ parse'[q].type = parse[q].type
                                /\ parse'[q].checked = parse[q].checked
           /\ at \in {"idle", "select", "store", "parse", "stream", "temp"} \cup Outcomes
                => parse' \in [Parses -> ParseRecord]
  BY DEF ParserTyped, ParseGoto, ParseRecord

\* Calls that only go on keep what has been said of them.
LEMMA GoingOn ==
    ASSUME TakenTwice, RefusedOnce,
           \A q \in Parses : /\ parse'[q].hash = parse[q].hash
                             /\ Taken(q)' => Taken(q)
                             /\ parse'[q].at = "duplicate" => parse[q].at = "duplicate"
                             /\ \A hash : LetThrough(q, hash) => LetThrough(q, hash)',
           hashRaced \subseteq hashRaced', hashExpired \subseteq hashExpired',
           parseErrors > 0 => parseErrors' > 0,
           parseHashes' \subseteq parseHashes
    PROVE  TakenTwice' /\ RefusedOnce'
<1>1. TakenTwice'
  BY DEF TakenTwice
<1>2. RefusedOnce'
  <2>1. ASSUME NEW hash \in parseHashes'
        PROVE  \E q \in Parses : LetThrough(q, hash)'
    BY <2>1 DEF RefusedOnce
  <2>2. ASSUME NEW q \in Parses, parse'[q].at = "duplicate"
        PROVE  \E o \in Parses \ {q} : LetThrough(o, parse[q].hash)'
    BY <2>2 DEF RefusedOnce
  <2>3. \A q \in Parses, o \in Parses :
          LetThrough(o, parse[q].hash)' <=> /\ parse'[o].checked /\ parse'[o].hash = parse'[q].hash
                                            /\ parse'[o].at
                                                 \notin {"idle", "select", "store", "duplicate"}
    BY DEF LetThrough
  <2>4. QED
    BY <2>1, <2>2, <2>3 DEF RefusedOnce, LetThrough
<1>3. QED
  BY <1>1, <1>2

LEMMA FaultRaises ==
    ASSUME ParserTyped, ParseFault
    PROVE  parseErrors' \in 0 .. MaxParseErrors /\ parseErrors' > 0
  BY ParserAssumption DEF ParserTyped, ParseFault

LEMMA BeginParseStep ==
    ASSUME ParserInv, NEW p \in Parses, BeginParse(p)
    PROVE  ParserInv'
<1>1. /\ parse[p].at = "idle" /\ p \notin counted /\ p \notin tempFiles
      /\ UNCHANGED <<parseHashes, tempFiles, parserMetrics, parserResets, hashRaced, hashExpired,
                     counted>>
  BY DEF BeginParse, ParserInv, MetricsCount, TempOnly, CompletedAt
<1>2. PICK r \in ParseRecord :
        /\ parse' = [parse EXCEPT ![p] = r]
        /\ r.at \in {"parse", "unsupported", "select", "thrown"}
        /\ r.checked => r.at \in {"select", "thrown"}
        /\ r.at = "select" => r.checked
        /\ r.at # "thrown" => r.hash \in Hashes
        /\ \/ UNCHANGED parseErrors /\ r.at # "thrown"
           \/ ParseFault
  <2>1. CASE ParseFault /\ parse' = [parse EXCEPT ![p].at = "thrown"]
    <3>1. [parse[p] EXCEPT !.at = "thrown"] \in ParseRecord
      BY DEF ParserInv, ParserTyped, ParseRecord, Outcomes
    <3>2. QED
      BY <2>1, <3>1 DEF ParserInv, ParserTyped
  <2>2. CASE ~ (ParseFault /\ parse' = [parse EXCEPT ![p].at = "thrown"])
    <3>1. PICK hash \in Hashes, type \in FileTypes :
            /\ UNCHANGED parseErrors
            /\ \/ parse' = [parse EXCEPT ![p] = [at |-> CreateParser(p, type), hash |-> hash,
                                                 type |-> type, checked |-> FALSE]]
               \/ parse' = [parse EXCEPT ![p] = [at |-> "select", hash |-> hash,
                                                 type |-> type, checked |-> TRUE]]
      BY <2>2 DEF BeginParse
    <3>2. CreateParser(p, type) \in {"parse", "unsupported"}
      BY DEF CreateParser
    <3>3. /\ [at |-> CreateParser(p, type), hash |-> hash, type |-> type,
              checked |-> FALSE] \in ParseRecord
          /\ [at |-> "select", hash |-> hash, type |-> type, checked |-> TRUE] \in ParseRecord
      BY <3>2 DEF ParseRecord, Outcomes
    <3>4. QED
      BY <3>1, <3>2, <3>3
  <2>3. QED
    BY <2>1, <2>2
<1>3. parse' \in [Parses -> ParseRecord] /\ parse'[p] = r
      /\ \A q \in Parses \ {p} : parse'[q] = parse[q]
  BY <1>2 DEF ParserInv, ParserTyped, ParseRecord
<1>4. parseErrors' \in 0 .. MaxParseErrors /\ (parseErrors > 0 => parseErrors' > 0)
  BY <1>2, FaultRaises DEF ParserInv, ParserTyped
<1>5. ParserTyped'
  <2>1. \A q \in Parses :
          /\ parse'[q].at \notin {"idle", "thrown"} => parse'[q].hash \in Hashes
          /\ parse'[q].at \in {"select", "store", "duplicate"} => parse'[q].checked
    BY <1>2, <1>3 DEF ParserInv, ParserTyped
  <2>2. QED
    BY <1>1, <1>3, <1>4, <2>1 DEF ParserInv, ParserTyped, ParseRecord
<1>6. \A q \in Parses : Taken(q)' => q # p /\ Taken(q)
  BY <1>2, <1>3 DEF Taken
<1>7. Remembered' /\ TakenTwice'
  BY <1>1, <1>3, <1>4, <1>6 DEF ParserInv, Remembered, TakenTwice
<1>8. RefusedOnce'
  <2>1. \A q \in Parses : \A hash : LetThrough(q, hash) => q # p /\ parse'[q] = parse[q]
    BY <1>1, <1>3 DEF LetThrough
  <2>2. parse'[p].at # "duplicate"
    BY <1>2, <1>3
  <2>3. QED
    BY <1>1, <1>3, <2>1, <2>2 DEF ParserInv, RefusedOnce, LetThrough
<1>9. MetricsCount'
  <2>1. \A q \in counted : parse'[q] = parse[q]
    BY <1>1, <1>3 DEF ParserInv, MetricsCount
  <2>2. QED
    BY <1>1, <2>1, CountStays
<1>10. TempOnly'
  BY <1>1, <1>3 DEF ParserInv, TempOnly
<1>11. QED
  BY <1>5, <1>7, <1>8, <1>9, <1>10 DEF ParserInv

LEMMA CheckForDuplicateStep ==
    ASSUME ParserInv, NEW p \in Parses, CheckForDuplicate(p)
    PROVE  ParserInv'
<1> DEFINE hash == parse[p].hash
<1>1. /\ parse[p].at = "select" /\ parse[p].checked /\ hash \in Hashes
      /\ p \notin counted /\ p \notin tempFiles
      /\ UNCHANGED <<parseHashes, tempFiles, parserResets, hashExpired>>
  BY DEF CheckForDuplicate, ParserInv, ParserTyped, MetricsCount, TempOnly, CompletedAt
<1>2. CASE /\ SeenBefore(hash)
           /\ ParseGoto(p, "duplicate")
           /\ parserMetrics' = [parserMetrics EXCEPT !.duplicates = @ + 1]
           /\ counted' = counted \cup {p}
           /\ UNCHANGED <<parseErrors, hashRaced>>
  <2>1. /\ parse' \in [Parses -> ParseRecord] /\ parse'[p].at = "duplicate"
        /\ \A q \in Parses \ {p} : parse'[q] = parse[q]
        /\ \A q \in Parses : parse'[q].hash = parse[q].hash /\ parse'[q].checked = parse[q].checked
    BY <1>2, ParseGoes DEF ParserInv, Outcomes
  <2>2. /\ parserMetrics' \in [success : Nat, failure : Nat, duplicates : Nat, recent : Seq(Parses)]
        /\ parserMetrics'.success = parserMetrics.success
        /\ parserMetrics'.failure = parserMetrics.failure
        /\ parserMetrics'.duplicates = parserMetrics.duplicates + 1
        /\ parserMetrics'.recent = parserMetrics.recent
    BY <1>2 DEF ParserInv, ParserTyped
  <2>3. ParserTyped'
    <3>1. \A q \in Parses :
            /\ parse'[q].at \notin {"idle", "thrown"} => parse'[q].hash \in Hashes
            /\ parse'[q].at \in {"select", "store", "duplicate"} => parse'[q].checked
      BY <1>1, <2>1 DEF ParserInv, ParserTyped
    <3>2. QED
      BY <1>1, <1>2, <2>1, <2>2, <3>1 DEF ParserInv, ParserTyped, ParseRecord
  <2>4. \A q \in Parses : Taken(q)' => q # p /\ Taken(q)
    BY <2>1 DEF Taken
  <2>5. Remembered' /\ TakenTwice'
    BY <1>1, <1>2, <2>1, <2>4 DEF ParserInv, Remembered, TakenTwice
  <2>6. RefusedOnce'
    <3>1. \A q \in Parses : \A h : LetThrough(q, h) => q # p /\ parse'[q] = parse[q]
      BY <1>1, <2>1 DEF LetThrough
    <3>2. PICK o \in Parses : LetThrough(o, hash)
      BY <1>2 DEF ParserInv, RefusedOnce, SeenBefore
    <3>3. o # p /\ parse'[o] = parse[o]
      BY <3>1, <3>2
    <3>4. \A q \in Parses \ {p} : parse'[q].at = "duplicate" =>
            \E x \in Parses \ {q} : LetThrough(x, parse[q].hash)
      BY <2>1 DEF ParserInv, RefusedOnce
    <3>5. QED
      BY <1>1, <2>1, <3>1, <3>2, <3>3, <3>4 DEF ParserInv, RefusedOnce, LetThrough
  <2>7. MetricsCount'
    <3>1. /\ IsFiniteSet(counted') /\ counted' \subseteq Parses
          /\ \A q \in counted' : parse'[q].at \in CompletedAt
          /\ Count("parsed")' = Count("parsed") /\ Count("failed")' = Count("failed")
          /\ Count("duplicate")' = Count("duplicate") + 1
          /\ Count("parsed") \in Nat /\ Count("failed") \in Nat
      <4>1. "parsed" \in CompletedAt /\ "failed" \in CompletedAt /\ "duplicate" \in CompletedAt
        BY DEF CompletedAt
      <4>2. p \in Parses \ counted /\ ParseGoto(p, "duplicate") /\ counted' = counted \cup {p}
        BY <1>1, <1>2
      <4>3. /\ IsFiniteSet(counted') /\ counted' \subseteq Parses
            /\ \A q \in counted' : parse'[q].at \in CompletedAt
            /\ \A x \in CompletedAt :
                 /\ Count(x) \in Nat
                 /\ Count(x)' = Count(x) + (IF x = "duplicate" THEN 1 ELSE 0)
        BY <4>1, <4>2, CountGrows
      <4>4. /\ Count("parsed") \in Nat /\ Count("parsed")' = Count("parsed") + 0
            /\ Count("failed") \in Nat /\ Count("failed")' = Count("failed") + 0
            /\ Count("duplicate")' = Count("duplicate") + 1
        BY <4>1, <4>3
      <4>5. QED
        BY <4>3, <4>4
    <3>2. QED
      BY <2>2, <3>1 DEF ParserInv, MetricsCount, Total
  <2>8. TempOnly'
    BY <1>1, <2>1 DEF ParserInv, TempOnly
  <2>9. QED
    BY <2>3, <2>5, <2>6, <2>7, <2>8 DEF ParserInv
<1>3. CASE /\ IF SeenBefore(hash) THEN ParseFault ELSE UNCHANGED parseErrors
           /\ ParseGoto(p, "store")
           /\ hashRaced' = IF \E q \in Parses : parse[q].at = "store" /\ parse[q].hash = hash
                           THEN hashRaced \cup {hash} ELSE hashRaced
           /\ UNCHANGED <<parserMetrics, counted>>
  <2>1. /\ parse' \in [Parses -> ParseRecord] /\ parse'[p].at = "store"
        /\ \A q \in Parses \ {p} : parse'[q] = parse[q]
        /\ \A q \in Parses : parse'[q].hash = parse[q].hash /\ parse'[q].checked = parse[q].checked
    BY <1>3, ParseGoes DEF ParserInv
  <2>2. /\ parseErrors' \in 0 .. MaxParseErrors /\ (parseErrors > 0 => parseErrors' > 0)
        /\ hash \in parseHashes => parseErrors' > 0
    BY <1>3, FaultRaises DEF ParserInv, ParserTyped, SeenBefore
  <2>3. ParserTyped'
    <3>1. \A q \in Parses :
            /\ parse'[q].at \notin {"idle", "thrown"} => parse'[q].hash \in Hashes
            /\ parse'[q].at \in {"select", "store", "duplicate"} => parse'[q].checked
      BY <1>1, <2>1 DEF ParserInv, ParserTyped
    <3>2. QED
      BY <1>1, <1>3, <2>1, <2>2, <3>1 DEF ParserInv, ParserTyped, ParseRecord
  <2>4. \A q \in Parses \ {p} : Taken(q)' <=> Taken(q)
    BY <2>1 DEF Taken
  <2>5. Remembered'
    BY <1>1, <2>1, <2>2, <2>4 DEF ParserInv, Remembered
  <2>6. hashRaced \subseteq hashRaced'
    BY <1>3
  <2>7. ASSUME NEW q \in Parses \ {p}, Taken(q), parse[q].hash = hash
        PROVE  hash \in hashRaced' \cup hashExpired' \/ parseErrors' > 0
    <3>1. CASE parse[q].at = "store"
      BY <1>3, <2>7, <3>1
    <3>2. CASE parse[q].at # "store"
      BY <1>1, <2>2, <2>7, <3>2 DEF ParserInv, Remembered
    <3>3. QED
      BY <3>1, <3>2
  <2>8. TakenTwice'
    <3>1. ASSUME NEW x \in Parses, NEW y \in Parses, x # y, Taken(x)', Taken(y)',
                 parse'[x].hash = parse'[y].hash
          PROVE  parse'[x].hash \in hashRaced' \cup hashExpired' \/ parseErrors' > 0
      <4>1. CASE x = p
        BY <2>1, <2>4, <2>7, <3>1, <4>1
      <4>2. CASE y = p
        BY <2>1, <2>4, <2>7, <3>1, <4>2
      <4>3. CASE x # p /\ y # p
        BY <1>1, <2>1, <2>2, <2>4, <2>6, <3>1, <4>3 DEF ParserInv, TakenTwice
      <4>4. QED
        BY <4>1, <4>2, <4>3
    <3>2. QED
      BY <3>1 DEF TakenTwice
  <2>9. RefusedOnce'
    <3>1. \A q \in Parses : \A h : LetThrough(q, h) => q # p /\ parse'[q] = parse[q]
      BY <1>1, <2>1 DEF LetThrough
    <3>2. QED
      BY <1>1, <2>1, <3>1 DEF ParserInv, RefusedOnce, LetThrough
  <2>10. MetricsCount'
    <3>1. \A q \in counted : parse'[q] = parse[q]
      BY <1>1, <2>1 DEF ParserInv, MetricsCount
    <3>2. QED
      BY <1>3, <3>1, CountStays
  <2>11. TempOnly'
    BY <1>1, <2>1 DEF ParserInv, TempOnly
  <2>12. QED
    BY <2>3, <2>5, <2>8, <2>9, <2>10, <2>11 DEF ParserInv
<1>4. QED
  BY <1>2, <1>3 DEF CheckForDuplicate

\* A call that was let through goes on; what has been said of it stays.
LEMMA CallGoesOn ==
    ASSUME ParserInv, NEW p \in Parses,
           parse[p].at \in {"store", "parse", "stream", "temp"},
           NEW at \in {"parse", "unsupported", "stream", "temp", "parsed", "failed", "thrown"},
           ParseGoto(p, at),
           parseErrors' \in 0 .. MaxParseErrors, parseErrors > 0 => parseErrors' > 0,
           at = "thrown" => parseErrors' > 0,
           parse[p].at = "store" =>
             parse[p].hash \in parseHashes' \/ parseErrors' > 0,
           parseHashes' = parseHashes \/ parseHashes' = parseHashes \cup {parse[p].hash},
           parse[p].at # "store" => parseHashes' = parseHashes,
           UNCHANGED <<hashRaced, hashExpired>>,
           parserMetrics' \in [success : Nat, failure : Nat, duplicates : Nat, recent : Seq(Parses)]
    PROVE  ParserTyped' /\ Remembered' /\ TakenTwice' /\ RefusedOnce'
<1>1. /\ parse' \in [Parses -> ParseRecord] /\ parse'[p].at = at
      /\ \A q \in Parses \ {p} : parse'[q] = parse[q]
      /\ \A q \in Parses : parse'[q].hash = parse[q].hash /\ parse'[q].checked = parse[q].checked
  BY ParseGoes DEF ParserInv, Outcomes
<1>2. parse[p].hash \in Hashes
  BY DEF ParserInv, ParserTyped
<1>3. ParserTyped'
  <2>1. \A q \in Parses :
          /\ parse'[q].at \notin {"idle", "thrown"} => parse'[q].hash \in Hashes
          /\ parse'[q].at \in {"select", "store", "duplicate"} => parse'[q].checked
    BY <1>1, <1>2 DEF ParserInv, ParserTyped
  <2>2. parseHashes' \subseteq Hashes
    BY <1>2 DEF ParserInv, ParserTyped
  <2>3. QED
    BY <1>1, <2>1, <2>2 DEF ParserInv, ParserTyped, ParseRecord
<1>4. \A q \in Parses : Taken(q)' => Taken(q)
  BY <1>1 DEF Taken
<1>5. \A q \in Parses : \A hash : LetThrough(q, hash) =>
        /\ parse'[q].checked /\ parse'[q].hash = hash
        /\ parse'[q].at \notin {"idle", "select", "store", "duplicate"}
  BY <1>1 DEF LetThrough
<1>6. Remembered'
  <2>1. ASSUME NEW q \in Parses, Taken(q)', parse'[q].at # "store"
        PROVE  parse'[q].hash \in parseHashes' \cup hashExpired' \/ parseErrors' > 0
    <3>1. CASE q = p /\ parse[p].at = "store"
      BY <1>1, <3>1
    <3>2. CASE ~ (q = p /\ parse[p].at = "store")
      BY <1>1, <1>4, <2>1, <3>2 DEF ParserInv, Remembered
    <3>3. QED
      BY <3>1, <3>2
  <2>2. QED
    BY <2>1 DEF Remembered
<1>7. TakenTwice'
  BY <1>1, <1>4 DEF ParserInv, TakenTwice
<1>8. RefusedOnce'
  <2>1. ASSUME NEW hash \in parseHashes'
        PROVE  \E q \in Parses : LetThrough(q, hash)'
    <3>1. CASE hash \in parseHashes
      BY <1>5, <3>1 DEF ParserInv, RefusedOnce, LetThrough
    <3>2. CASE hash \notin parseHashes
      <4>1. hash = parse[p].hash /\ parse[p].at = "store"
        BY <2>1, <3>2
      <4>2. parse[p].checked
        BY <4>1 DEF ParserInv, ParserTyped
      <4>3. QED
        BY <1>1, <4>1, <4>2 DEF LetThrough
    <3>3. QED
      BY <3>1, <3>2
  <2>2. ASSUME NEW q \in Parses, parse'[q].at = "duplicate"
        PROVE  \E o \in Parses \ {q} : LetThrough(o, parse[q].hash)'
    <3>1. parse[q].at = "duplicate"
      BY <1>1, <2>2
    <3>2. PICK o \in Parses \ {q} : LetThrough(o, parse[q].hash)
      BY <3>1 DEF ParserInv, RefusedOnce
    <3>3. QED
      BY <1>1, <1>5, <3>2 DEF LetThrough
  <2>3. QED
    BY <2>1, <2>2 DEF RefusedOnce
<1>9. QED
  BY <1>3, <1>6, <1>7, <1>8

\* The recent parses, the last one first.
LEMMA RecentTrimmed ==
    ASSUME NEW recent \in Seq(Parses), NEW p \in Parses
    PROVE  /\ Trimmed(<<p>> \o recent) \in Seq(Parses)
           /\ Len(Trimmed(<<p>> \o recent)) =
                IF Len(recent) + 1 > MaxRecentParses THEN MaxRecentParses ELSE Len(recent) + 1
<1> DEFINE all == <<p>> \o recent
<1>1. all \in Seq(Parses) /\ Len(all) = 1 + Len(recent) /\ Len(recent) \in Nat
  <2>1. <<p>> \in Seq(Parses) /\ Len(<<p>>) = 1
    OBVIOUS
  <2>2. QED
    BY <2>1, ConcatProperties, LenProperties
<1> HIDE DEF all
<1>2. CASE Len(all) > MaxRecentParses
  <2>1. \A i \in 1 .. MaxRecentParses : i \in 1 .. Len(all)
    BY <1>1, <1>2, ParserAssumption
  <2>2. /\ SubSeq(all, 1, MaxRecentParses) \in Seq(Parses)
        /\ Len(SubSeq(all, 1, MaxRecentParses)) = MaxRecentParses
    BY <1>1, <1>2, <2>1, SubSeqProperties, ParserAssumption
  <2>3. QED
    BY <1>1, <1>2, <2>2 DEF Trimmed, all
<1>3. CASE ~ (Len(all) > MaxRecentParses)
  BY <1>1, <1>3, ParserAssumption DEF Trimmed, all
<1>4. QED
  BY <1>2, <1>3

LEMMA ParseCompletesStep ==
    ASSUME ParserInv, NEW p \in Parses, NEW success \in BOOLEAN, ParseCompletes(p, success),
           parse[p].at \in {"stream", "temp"}, tempFiles' = tempFiles \ {p},
           parseErrors' \in 0 .. MaxParseErrors, parseErrors > 0 => parseErrors' > 0,
           UNCHANGED <<parseHashes, hashRaced, hashExpired>>
    PROVE  ParserInv'
<1> DEFINE o == IF success THEN "parsed" ELSE "failed"
<1>1. o \in {"parsed", "failed"} /\ ParseGoto(p, o) /\ counted' = counted \cup {p}
  BY DEF ParseCompletes
<1>2. p \in Parses \ counted
  BY DEF ParserInv, MetricsCount, CompletedAt
<1>3. parserMetrics.recent \in Seq(Parses) /\ parserMetrics.success \in Nat
      /\ parserMetrics.failure \in Nat /\ parserMetrics.duplicates \in Nat
  BY DEF ParserInv, ParserTyped
<1>4. /\ parserMetrics'.success = parserMetrics.success + (IF o = "parsed" THEN 1 ELSE 0)
      /\ parserMetrics'.failure = parserMetrics.failure + (IF o = "failed" THEN 1 ELSE 0)
      /\ parserMetrics'.duplicates = parserMetrics.duplicates
      /\ parserMetrics'.recent = Trimmed(<<p>> \o parserMetrics.recent)
      /\ parserMetrics' = [parserMetrics EXCEPT !.success = parserMetrics'.success,
                             !.failure = parserMetrics'.failure,
                             !.recent = Trimmed(<<p>> \o parserMetrics.recent)]
  BY DEF ParseCompletes, ParserInv, ParserTyped
<1>5. /\ Trimmed(<<p>> \o parserMetrics.recent) \in Seq(Parses)
      /\ Len(Trimmed(<<p>> \o parserMetrics.recent)) =
           IF Len(parserMetrics.recent) + 1 > MaxRecentParses THEN MaxRecentParses
           ELSE Len(parserMetrics.recent) + 1
  BY <1>3, RecentTrimmed
<1> HIDE DEF o
<1>6. parserMetrics' \in [success : Nat, failure : Nat, duplicates : Nat, recent : Seq(Parses)]
  BY <1>3, <1>4, <1>5 DEF ParserInv, ParserTyped
<1>7. ParserTyped' /\ Remembered' /\ TakenTwice' /\ RefusedOnce'
  <2>1. o \in {"parse", "unsupported", "stream", "temp", "parsed", "failed", "thrown"}
        /\ o # "thrown" /\ parse[p].at # "store"
        /\ parse[p].at \in {"store", "parse", "stream", "temp"}
    BY <1>1
  <2>2. QED
    BY <1>1, <1>6, <2>1, CallGoesOn
<1>8. MetricsCount'
  <2>1. o \in CompletedAt /\ "parsed" \in CompletedAt /\ "failed" \in CompletedAt
        /\ "duplicate" \in CompletedAt
    BY <1>1 DEF CompletedAt
  <2>2. /\ IsFiniteSet(counted') /\ counted' \subseteq Parses
        /\ \A q \in counted' : parse'[q].at \in CompletedAt
        /\ \A x \in CompletedAt : /\ Count(x) \in Nat
                                  /\ Count(x)' = Count(x) + (IF x = o THEN 1 ELSE 0)
    BY <1>1, <1>2, <2>1, CountGrows
  <2>3. /\ Count("parsed")' = Count("parsed") + (IF "parsed" = o THEN 1 ELSE 0)
        /\ Count("failed")' = Count("failed") + (IF "failed" = o THEN 1 ELSE 0)
        /\ Count("duplicate")' = Count("duplicate") + (IF "duplicate" = o THEN 1 ELSE 0)
        /\ Count("duplicate") \in Nat
    BY <2>1, <2>2
  <2>4. /\ parserMetrics'.success = Count("parsed")' /\ parserMetrics'.failure = Count("failed")'
        /\ parserMetrics'.duplicates = Count("duplicate")'
    BY <1>1, <1>4, <2>3 DEF ParserInv, MetricsCount
  <2>5. Total \in Nat /\ Total' = Total + 1
    BY <1>1, <1>3, <1>4 DEF Total
  <2>6. Len(parserMetrics'.recent) = IF Total' < MaxRecentParses THEN Total' ELSE MaxRecentParses
    <3>1. Len(parserMetrics.recent) = IF Total < MaxRecentParses THEN Total ELSE MaxRecentParses
      BY DEF ParserInv, MetricsCount
    <3>2. QED
      BY <1>4, <1>5, <2>5, <3>1, ParserAssumption
  <2>7. QED
    BY <2>2, <2>4, <2>6 DEF MetricsCount
<1>9. TempOnly'
  <2>1. \A q \in Parses \ {p} : parse'[q] = parse[q]
    BY <1>1, ParseGoes DEF ParserInv
  <2>2. QED
    BY <2>1 DEF ParserInv, TempOnly
<1>10. QED
  BY <1>7, <1>8, <1>9 DEF ParserInv

\* Neither a completion nor a new temporary file.
LEMMA QuietMove ==
    ASSUME ParserInv, NEW p \in Parses,
           parse[p].at \in {"store", "parse"},
           NEW at \in {"parse", "unsupported", "stream", "thrown"},
           ParseGoto(p, at),
           parseErrors' \in 0 .. MaxParseErrors, parseErrors > 0 => parseErrors' > 0,
           at = "thrown" => parseErrors' > 0,
           parse[p].at = "store" => parse[p].hash \in parseHashes' \/ parseErrors' > 0,
           parseHashes' = parseHashes \/ parseHashes' = parseHashes \cup {parse[p].hash},
           parse[p].at # "store" => parseHashes' = parseHashes,
           UNCHANGED <<tempFiles, parserMetrics, hashRaced, hashExpired, counted>>
    PROVE  ParserInv'
<1>1. parserMetrics' \in [success : Nat, failure : Nat, duplicates : Nat, recent : Seq(Parses)]
  BY DEF ParserInv, ParserTyped
<1>2. ParserTyped' /\ Remembered' /\ TakenTwice' /\ RefusedOnce'
  BY <1>1, CallGoesOn
<1>3. p \notin counted /\ p \notin tempFiles
  BY DEF ParserInv, MetricsCount, CompletedAt, TempOnly
<1>4. \A q \in Parses \ {p} : parse'[q] = parse[q]
  BY ParseGoes DEF ParserInv
<1>5. MetricsCount'
  <2>1. \A q \in counted : parse'[q] = parse[q]
    BY <1>3, <1>4 DEF ParserInv, MetricsCount
  <2>2. QED
    BY <2>1, CountStays
<1>6. TempOnly'
  BY <1>3, <1>4 DEF ParserInv, TempOnly
<1>7. QED
  BY <1>2, <1>5, <1>6 DEF ParserInv

LEMMA OneParseStep ==
    ASSUME ParserInv, NEW p \in Parses,
           \/ StoreFileHash(p) \/ ParseFile(p) \/ ParseCsvStream(p) \/ StreamToTempFile(p)
           \/ ParseTempFile(p)
    PROVE  ParserInv'
<1>1. parseErrors \in 0 .. MaxParseErrors
  BY DEF ParserInv, ParserTyped
<1>2. ParseFault => parseErrors' \in 0 .. MaxParseErrors /\ parseErrors' > 0
  BY FaultRaises DEF ParserInv
<1>3. CASE StoreFileHash(p)
  <2> DEFINE at == CreateParser(p, parse[p].type)
  <2>1. /\ parse[p].at = "store" /\ ParseGoto(p, at) /\ at \in {"parse", "unsupported"}
        /\ \/ parseHashes' = parseHashes \cup {parse[p].hash} /\ UNCHANGED parseErrors
           \/ ParseFault /\ UNCHANGED parseHashes
        /\ UNCHANGED <<tempFiles, parserMetrics, hashRaced, hashExpired, counted>>
    BY <1>3 DEF StoreFileHash, CreateParser
  <2> HIDE DEF at
  <2>2. /\ parseErrors' \in 0 .. MaxParseErrors /\ (parseErrors > 0 => parseErrors' > 0)
        /\ parse[p].hash \in parseHashes' \/ parseErrors' > 0
    BY <1>1, <1>2, <2>1
  <2>3. /\ at \in {"parse", "unsupported", "stream", "thrown"} /\ at # "thrown"
        /\ parse[p].at \in {"store", "parse"}
        /\ parseHashes' = parseHashes \/ parseHashes' = parseHashes \cup {parse[p].hash}
    BY <2>1
  <2>4. QED
    BY <2>1, <2>2, <2>3, QuietMove
<1>4. CASE ParseFile(p)
  <2>1. PICK at \in {"stream", "thrown"} :
          /\ ParseGoto(p, at)
          /\ \/ at = "stream" /\ UNCHANGED parseErrors
             \/ at = "thrown" /\ ParseFault
    BY <1>4 DEF ParseFile
  <2>2. /\ parse[p].at = "parse"
        /\ UNCHANGED <<parseHashes, tempFiles, parserMetrics, hashRaced, hashExpired, counted>>
    BY <1>4 DEF ParseFile
  <2>3. /\ parseErrors' \in 0 .. MaxParseErrors /\ (parseErrors > 0 => parseErrors' > 0)
        /\ at = "thrown" => parseErrors' > 0
    BY <1>1, <1>2, <2>1
  <2>4. at \in {"parse", "unsupported", "stream", "thrown"}
    BY <2>1
  <2>5. QED
    BY <2>1, <2>2, <2>3, <2>4, QuietMove
<1>5. CASE ParseCsvStream(p)
  <2>1. PICK success \in BOOLEAN : ParseCompletes(p, success)
    BY <1>5 DEF ParseCsvStream
  <2>2. /\ parse[p].at = "stream" /\ UNCHANGED <<parseHashes, tempFiles, hashRaced, hashExpired>>
        /\ parseErrors' = parseErrors
    BY <1>5 DEF ParseCsvStream
  <2>3. tempFiles' = tempFiles \ {p}
    BY <2>2 DEF ParserInv, TempOnly
  <2>4. QED
    BY <1>1, <2>1, <2>2, <2>3, ParseCompletesStep
<1>6. CASE ParseTempFile(p)
  <2>1. FALSE \in BOOLEAN /\ ParseCompletes(p, FALSE)
    BY <1>6 DEF ParseTempFile
  <2>2. /\ parse[p].at = "temp" /\ UNCHANGED <<parseHashes, hashRaced, hashExpired>>
        /\ parseErrors' = parseErrors /\ tempFiles' = tempFiles \ {p}
    BY <1>6 DEF ParseTempFile
  <2>3. QED
    BY <1>1, <2>1, <2>2, ParseCompletesStep
<1>7. CASE StreamToTempFile(p) /\ ParseFault
  <2>1. CASE ParseCompletes(p, FALSE) /\ UNCHANGED tempFiles
    <3>1. parse[p].at = "stream" /\ UNCHANGED <<parseHashes, hashRaced, hashExpired>>
          /\ tempFiles' = tempFiles \ {p} /\ FALSE \in BOOLEAN
      BY <1>7, <2>1 DEF StreamToTempFile, ParserInv, TempOnly
    <3>2. QED
      BY <1>2, <1>7, <2>1, <3>1, ParseCompletesStep
  <2>2. CASE ~ (ParseCompletes(p, FALSE) /\ UNCHANGED tempFiles)
    <3>1. UNCHANGED parseErrors
      BY <1>7, <2>2 DEF StreamToTempFile
    <3>2. parseErrors' = parseErrors + 1 /\ parseErrors \in Nat
      BY <1>1, <1>7, ParserAssumption DEF ParseFault
    <3>3. QED
      BY <3>1, <3>2
  <2>3. QED
    BY <2>1, <2>2
<1>8. CASE StreamToTempFile(p) /\ ~ ParseFault
  <2>1. /\ parse[p].at = "stream" /\ tempFiles' = tempFiles \cup {p} /\ ParseGoto(p, "temp")
        /\ UNCHANGED <<parserMetrics, parseErrors, counted, parseHashes, hashRaced, hashExpired>>
    BY <1>8 DEF StreamToTempFile
  <2>2. parserMetrics' \in [success : Nat, failure : Nat, duplicates : Nat, recent : Seq(Parses)]
    BY <2>1 DEF ParserInv, ParserTyped
  <2>3. ParserTyped' /\ Remembered' /\ TakenTwice' /\ RefusedOnce'
    <3>1. "temp" \in {"parse", "unsupported", "stream", "temp", "parsed", "failed", "thrown"}
          /\ parse[p].at \in {"store", "parse", "stream", "temp"} /\ parse[p].at # "store"
      BY <2>1
    <3>2. QED
      BY <1>1, <2>1, <2>2, <3>1, CallGoesOn
  <2>4. /\ parse'[p].at = "temp" /\ p \notin counted
        /\ \A q \in Parses \ {p} : parse'[q] = parse[q]
    BY <2>1, ParseGoes DEF ParserInv, MetricsCount, CompletedAt
  <2>5. MetricsCount'
    <3>1. \A q \in counted : parse'[q] = parse[q]
      BY <2>4 DEF ParserInv, MetricsCount
    <3>2. QED
      BY <2>1, <3>1, CountStays
  <2>6. TempOnly'
    BY <2>1, <2>4 DEF ParserInv, TempOnly
  <2>7. QED
    BY <2>3, <2>5, <2>6 DEF ParserInv
<1>9. QED
  BY <1>3, <1>4, <1>5, <1>6, <1>7, <1>8

LEMMA ParserInvStep ==
    ASSUME ParserInv, [ParserNext]_parserVars
    PROVE  ParserInv'
<1>1. ASSUME NEW p \in Parses,
             \/ BeginParse(p) \/ CheckForDuplicate(p) \/ StoreFileHash(p)
             \/ ParseFile(p) \/ ParseCsvStream(p) \/ StreamToTempFile(p) \/ ParseTempFile(p)
      PROVE  ParserInv'
  BY <1>1, BeginParseStep, CheckForDuplicateStep, OneParseStep
<1>2. ASSUME NEW hash \in Hashes, HashExpires(hash)
      PROVE  ParserInv'
  <2>1. /\ parseHashes' = parseHashes \ {hash} /\ hashExpired' = hashExpired \cup {hash}
        /\ UNCHANGED <<parse, tempFiles, parserMetrics, parseErrors, hashRaced, counted>>
    BY <1>2 DEF HashExpires
  <2>2. ParserTyped' /\ TempOnly'
    BY <2>1 DEF ParserInv, ParserTyped, TempOnly
  <2>3. Remembered' /\ TakenTwice' /\ RefusedOnce'
    BY <2>1 DEF ParserInv, Remembered, TakenTwice, RefusedOnce, Taken, LetThrough
  <2>4. MetricsCount'
    BY <2>1, CountStays
  <2>5. QED
    BY <2>2, <2>3, <2>4 DEF ParserInv
<1>3. CASE ResetParserMetrics
  <2>1. /\ parserMetrics' = NoMetrics /\ counted' = {}
        /\ UNCHANGED <<parse, parseHashes, tempFiles, parseErrors, hashRaced, hashExpired>>
    BY <1>3 DEF ResetParserMetrics
  <2>2. NoMetrics \in [success : Nat, failure : Nat, duplicates : Nat, recent : Seq(Parses)]
    BY DEF NoMetrics
  <2>3. ParserTyped' /\ Remembered' /\ TakenTwice' /\ RefusedOnce' /\ TempOnly'
    BY <2>1, <2>2 DEF ParserInv, ParserTyped, Remembered, TakenTwice, RefusedOnce, TempOnly, Taken,
         LetThrough
  <2>4. MetricsCount'
    <3>1. \A outcome : {p \in counted' : parse'[p].at = outcome} = {}
      BY <2>1
    <3>2. \A outcome : Count(outcome)' = 0
      BY <3>1, FS_EmptySet DEF Count
    <3>3. Len(NoMetrics.recent) = 0
      BY DEF NoMetrics
    <3>4. QED
      BY <2>1, <3>2, <3>3, FS_EmptySet, ParserAssumption DEF NoMetrics, MetricsCount, Total
  <2>5. QED
    BY <2>3, <2>4 DEF ParserInv
<1>4. CASE UNCHANGED parserVars
  <2>1. UNCHANGED <<parse, parseHashes, tempFiles, parserMetrics, parseErrors, hashRaced,
                    hashExpired, counted>>
    BY <1>4 DEF parserVars
  <2>2. MetricsCount'
    BY <2>1, CountStays
  <2>3. QED
    BY <2>1, <2>2 DEF ParserInv, ParserTyped, Remembered, TakenTwice, RefusedOnce, TempOnly, Taken,
         LetThrough
<1>5. QED
  BY <1>1, <1>2, <1>3, <1>4 DEF ParserNext

LEMMA ParserInvAlways == ParsersSpec => []ParserInv
  BY ParserInvInit, ParserInvStep, PTL DEF ParsersSpec

(* The parsers keep to their types.                                         *)
THEOREM ParsersTypeCorrect == ParsersSpec => []ParserTypeOK
<1>1. ASSUME ParserInv
      PROVE  ParserTypeOK
  <2>1. Range(parserMetrics.recent) \subseteq Parses
    BY <1>1 DEF ParserInv, ParserTyped, Range
  <2>2. QED
    BY <1>1, <2>1 DEF ParserInv, ParserTyped, ParserTypeOK
<1>2. QED
  BY <1>1, ParserInvAlways, PTL

(* However many files are parsed at once: a content is taken twice only for    *)
(* one of three reasons and refused only after it was taken, the metrics are   *)
(* those of the calls that have completed, and no temporary file outlives its *)
(* parse.                                                                   *)
THEOREM ParsesTruthful == ParsersSpec => []ParsesHonest
<1>1. ASSUME ParserInv
      PROVE  ParsesHonest
  <2>1. \A p \in Parses : parse[p].at = "duplicate" =>
          \E q \in Parses \ {p} : parse[q].checked /\ parse[q].hash = parse[p].hash
                                  /\ parse[q].at \notin {"select", "store", "duplicate"}
    BY <1>1 DEF ParserInv, RefusedOnce, LetThrough
  <2>2. QED
    BY <1>1, <2>1 DEF ParserInv, TakenTwice, MetricsCount, Total, TempOnly, ParsesHonest
<1>2. QED
  BY <1>1, ParserInvAlways, PTL

-----------------------------------------------------------------------------
(* The tables: sequences listed by rank.                                    *)

\* Ranks are numbers, larger for larger members, from 1 to the number of these.
LEMMA RankType ==
    ASSUME NEW S, IsFiniteSet(S), NEW n
    PROVE  Rank(n, S) \in Nat /\ Rank(n, S) <= Cardinality(S) /\ IsFiniteSet({m \in S : m <= n})
<1>1. {m \in S : m <= n} \in SUBSET S
  OBVIOUS
<1>2. QED
  BY <1>1, FS_Subset, FS_CardinalityType DEF Rank

LEMMA RankGrows ==
    ASSUME NEW S \in SUBSET Nat, IsFiniteSet(S), NEW m \in Nat, NEW n \in S, m < n
    PROVE  Rank(m, S) < Rank(n, S)
<1> DEFINE below == {k \in S : k <= m}
           upTo == {k \in S : k <= n}
<1>1. IsFiniteSet(upTo) /\ Rank(m, S) \in Nat /\ Rank(n, S) \in Nat
  BY RankType
<1>2. below \in SUBSET upTo
  <2>1. \A k \in S : k <= m => k <= n
    OBVIOUS
  <2>2. QED
    BY <2>1
<1>3. n \in upTo /\ n \notin below
  OBVIOUS
<1>4. Cardinality(below) <= Cardinality(upTo) /\ Cardinality(below) # Cardinality(upTo)
  BY <1>1, <1>2, <1>3, FS_Subset
<1>5. QED
  BY <1>1, <1>4 DEF Rank

LEMMA RankOnto ==
    ASSUME NEW S \in SUBSET Nat, IsFiniteSet(S)
    PROVE  /\ \A n \in S : Rank(n, S) \in 1 .. Cardinality(S)
           /\ \A m, n \in S : Rank(m, S) = Rank(n, S) => m = n
           /\ \A j \in 1 .. Cardinality(S) : \E n \in S : Rank(n, S) = j
<1> DEFINE f == [n \in S |-> Rank(n, S)]
           ranks == 1 .. Cardinality(S)
<1>1. \A n \in S : Rank(n, S) \in ranks
  <2>1. ASSUME NEW n \in S
        PROVE  Rank(n, S) \in ranks
    <3>1. IsFiniteSet({m \in S : m <= n}) /\ Rank(n, S) \in Nat /\ Rank(n, S) <= Cardinality(S)
      BY RankType
    <3>2. n \in {m \in S : m <= n}
      OBVIOUS
    <3>3. Rank(n, S) # 0
      BY <3>1, <3>2, FS_EmptySet DEF Rank
    <3>4. QED
      BY <3>1, <3>3, FS_CardinalityType
  <2>2. QED
    BY <2>1
<1>2. \A m, n \in S : Rank(m, S) = Rank(n, S) => m = n
  <2>1. ASSUME NEW m \in S, NEW n \in S, m # n
        PROVE  Rank(m, S) # Rank(n, S)
    <3>1. m < n \/ n < m
      BY <2>1
    <3>2. Rank(m, S) \in Nat /\ Rank(n, S) \in Nat
      BY RankType
    <3>3. QED
      BY <3>1, <3>2, RankGrows
  <2>2. QED
    BY <2>1
<1>3. f \in Injection(S, ranks)
  <2>1. f \in [S -> ranks] /\ \A m, n \in S : f[m] = f[n] => m = n
    BY <1>1, <1>2
  <2>2. QED
    BY <2>1 DEF Injection, IsInjective
<1>4. IsFiniteSet(ranks) /\ Cardinality(ranks) = Cardinality(S)
  BY FS_CardinalityType, FS_Interval
<1>5. f \in Surjection(S, ranks)
  BY <1>3, <1>4, FS_Injection
<1>6. \A j \in ranks : \E n \in S : f[n] = j
  BY <1>5 DEF Surjection
<1>7. QED
  BY <1>1, <1>2, <1>6

\* The sequence has the values of f, each at the rank of its argument.
LEMMA ListedAt ==
    ASSUME NEW f, DOMAIN f \in SUBSET Nat, IsFiniteSet(DOMAIN f)
    PROVE  /\ DOMAIN Listed(f) = 1 .. Cardinality(DOMAIN f)
           /\ Cardinality(DOMAIN f) \in Nat
           /\ \A n \in DOMAIN f : /\ Rank(n, DOMAIN f) \in DOMAIN Listed(f)
                                  /\ Listed(f)[Rank(n, DOMAIN f)] = f[n]
           /\ \A j \in DOMAIN Listed(f) :
                \E n \in DOMAIN f : Rank(n, DOMAIN f) = j /\ Listed(f)[j] = f[n]
<1> DEFINE S == DOMAIN f
           at(j) == CHOOSE n \in {m \in S : Rank(m, S) = j} : TRUE
<1>1. /\ \A n \in S : Rank(n, S) \in 1 .. Cardinality(S)
      /\ \A m, n \in S : Rank(m, S) = Rank(n, S) => m = n
      /\ \A j \in 1 .. Cardinality(S) : \E n \in S : Rank(n, S) = j
  BY RankOnto
<1>2. DOMAIN Listed(f) = 1 .. Cardinality(S) /\ Cardinality(S) \in Nat
  BY FS_CardinalityType DEF Listed
<1>3. \A j \in 1 .. Cardinality(S) : Listed(f)[j] = f[at(j)]
  BY DEF Listed
<1>4. \A j \in 1 .. Cardinality(S) : at(j) \in S /\ Rank(at(j), S) = j
  <2>1. ASSUME NEW j \in 1 .. Cardinality(S)
        PROVE  at(j) \in {m \in S : Rank(m, S) = j}
    BY <1>1
  <2>2. QED
    BY <2>1
<1> HIDE DEF at
<1>5. \A n \in S : Listed(f)[Rank(n, S)] = f[n]
  <2>1. ASSUME NEW n \in S
        PROVE  Listed(f)[Rank(n, S)] = f[n]
    <3>1. Rank(n, S) \in 1 .. Cardinality(S)
      BY <1>1
    <3>2. at(Rank(n, S)) = n
      BY <1>1, <1>4, <3>1
    <3>3. QED
      BY <1>3, <3>1, <3>2
  <2>2. QED
    BY <2>1
<1>6. QED
  BY <1>1, <1>2, <1>3, <1>4, <1>5

LEMMA ListedIsSeq ==
    ASSUME NEW f, DOMAIN f \in SUBSET Nat, IsFiniteSet(DOMAIN f),
           NEW S, \A n \in DOMAIN f : f[n] \in S
    PROVE  Listed(f) \in Seq(S) /\ Len(Listed(f)) = Cardinality(DOMAIN f)
<1>1. /\ DOMAIN Listed(f) = 1 .. Cardinality(DOMAIN f) /\ Cardinality(DOMAIN f) \in Nat
      /\ \A j \in DOMAIN Listed(f) : Listed(f)[j] \in S
  BY ListedAt
<1> DEFINE k == Cardinality(DOMAIN f)
<1>2. Listed(f) = [j \in 1 .. k |-> Listed(f)[j]]
  BY <1>1 DEF Listed
<1>3. [j \in 1 .. k |-> Listed(f)[j]] \in Seq(S)
  BY <1>1
<1>4. Listed(f) \in Seq(S)
  BY <1>2, <1>3
<1>5. QED
  BY <1>1, <1>4, LenProperties

\* A function with one more value, above the others, lists it last.
LEMMA ListedAppend ==
    ASSUME NEW f, DOMAIN f \in SUBSET Nat, IsFiniteSet(DOMAIN f), NEW s \in Nat,
           \A n \in DOMAIN f : n < s,
           NEW g, DOMAIN g = DOMAIN f \cup {s}, \A n \in DOMAIN f : g[n] = f[n]
    PROVE  Listed(g) = Append(Listed(f), g[s])
<1> DEFINE S == DOMAIN f
           T == DOMAIN g
           k == Cardinality(S)
<1>1. T \in SUBSET Nat /\ IsFiniteSet(T) /\ Cardinality(T) = k + 1 /\ k \in Nat
  BY FS_AddElement, FS_CardinalityType
<1>2. \A n \in S : Rank(n, T) = Rank(n, S)
  <2>1. ASSUME NEW n \in S
        PROVE  {m \in T : m <= n} = {m \in S : m <= n}
    OBVIOUS
  <2>2. QED
    BY <2>1 DEF Rank
<1>3. Rank(s, T) = k + 1
  <2>1. {m \in T : m <= s} = T
    OBVIOUS
  <2>2. QED
    BY <1>1, <2>1 DEF Rank
<1>4. /\ DOMAIN Listed(f) = 1 .. k
      /\ \A j \in 1 .. k : \E n \in S : Rank(n, S) = j /\ Listed(f)[j] = f[n]
  BY ListedAt
<1>5. /\ DOMAIN Listed(g) = 1 .. k + 1
      /\ \A n \in T : Listed(g)[Rank(n, T)] = g[n]
  BY <1>1, ListedAt
<1>6. \A j \in 1 .. k : Listed(g)[j] = Listed(f)[j]
  <2>1. ASSUME NEW j \in 1 .. k
        PROVE  Listed(g)[j] = Listed(f)[j]
    <3>1. PICK n \in S : Rank(n, S) = j /\ Listed(f)[j] = f[n]
      BY <1>4
    <3>2. n \in T /\ Rank(n, T) = j
      BY <1>2, <3>1
    <3>3. Listed(g)[j] = g[n]
      BY <1>5, <3>2
    <3>4. QED
      BY <3>1, <3>3
  <2>2. QED
    BY <2>1
<1>7. Listed(g)[k + 1] = g[s]
  BY <1>3, <1>5
<1> DEFINE R == {g[n] : n \in T}
<1>8. Listed(f) \in Seq(R) /\ Len(Listed(f)) = k /\ Listed(g) \in Seq(R) /\ Len(Listed(g)) = k + 1
  <2>1. \A n \in S : f[n] \in R
    OBVIOUS
  <2>2. \A n \in T : g[n] \in R
    OBVIOUS
  <2>3. QED
    BY <1>1, <2>1, <2>2, ListedIsSeq
<1> HIDE DEF R
<1>9. g[s] \in R
  BY DEF R
<1>10. /\ Append(Listed(f), g[s]) \in Seq(R) /\ Len(Append(Listed(f), g[s])) = k + 1
       /\ \A j \in 1 .. k : Append(Listed(f), g[s])[j] = Listed(f)[j]
       /\ Append(Listed(f), g[s])[k + 1] = g[s]
  BY <1>8, <1>9, AppendProperties
<1>11. \A j \in 1 .. k + 1 : Append(Listed(f), g[s])[j] = Listed(g)[j]
  BY <1>1, <1>6, <1>7, <1>10
<1>12. QED
  BY <1>8, <1>10, <1>11, SeqEqual

LEMMA ListedEmpty ==
    ASSUME NEW f, DOMAIN f = {}
    PROVE  Listed(f) = <<>>
<1>1. IsFiniteSet(DOMAIN f) /\ Cardinality(DOMAIN f) = 0
  BY FS_EmptySet
<1>2. Listed(f) \in Seq({}) /\ Len(Listed(f)) = 0
  BY <1>1, ListedIsSeq
<1>3. QED
  BY <1>2, EmptySeq

\* A function on the numbers from a to b lists them as they come.
LEMMA ListedInterval ==
    ASSUME NEW a \in Nat, NEW b \in Int, a <= b + 1, NEW f, DOMAIN f = a .. b
    PROVE  Listed(f) = [j \in 1 .. b - a + 1 |-> f[a + j - 1]]
<1>1. DOMAIN f \in SUBSET Nat /\ IsFiniteSet(DOMAIN f) /\ Cardinality(DOMAIN f) = b - a + 1
  BY FS_Interval
<1>2. \A j \in 1 .. b - a + 1 : Rank(a + j - 1, DOMAIN f) = j
  <2>1. ASSUME NEW j \in 1 .. b - a + 1
        PROVE  Rank(a + j - 1, DOMAIN f) = j
    <3>1. {m \in DOMAIN f : m <= a + j - 1} = a .. a + j - 1
      OBVIOUS
    <3>2. Cardinality(a .. a + j - 1) = j
      BY FS_Interval
    <3>3. QED
      BY <3>1, <3>2 DEF Rank
  <2>2. QED
    BY <2>1
<1>3. /\ DOMAIN Listed(f) = 1 .. b - a + 1
      /\ \A n \in DOMAIN f : Listed(f)[Rank(n, DOMAIN f)] = f[n]
  BY <1>1, ListedAt
<1>4. \A j \in 1 .. b - a + 1 : Listed(f)[j] = f[a + j - 1]
  BY <1>2, <1>3
<1>5. Listed(f) = [j \in 1 .. Cardinality(DOMAIN f) |-> Listed(f)[j]]
  BY <1>1, ListedAt DEF Listed
<1>6. QED
  BY <1>1, <1>3, <1>4, <1>5

LEMMA ListedOne ==
    ASSUME NEW n \in Nat, NEW f, DOMAIN f = {n}
    PROVE  Listed(f) = <<f[n]>>
<1>1. DOMAIN f \in SUBSET Nat /\ IsFiniteSet(DOMAIN f) /\ Cardinality(DOMAIN f) = 1
  BY FS_Singleton
<1>2. \A j \in DOMAIN Listed(f) : Listed(f)[j] = f[n]
  BY <1>1, ListedAt
<1>3. Listed(f) \in Seq({f[n]}) /\ Len(Listed(f)) = 1 /\ DOMAIN Listed(f) = 1 .. 1
  BY <1>1, ListedAt, ListedIsSeq
<1>4. <<f[n]>> \in Seq({f[n]}) /\ Len(<<f[n]>>) = 1 /\ <<f[n]>>[1] = f[n]
  OBVIOUS
<1>5. Listed(f)[1] = f[n]
  BY <1>2, <1>3
<1>6. QED
  BY <1>3, <1>4, <1>5, SeqEqual

-----------------------------------------------------------------------------
(* The tables: the numbers the loops keep are those of lines.               *)

LEMMA TablesInvStep ==
    ASSUME TablesInv, [TablesNext]_tableVars
    PROVE  TablesInv'
<1>1. CASE NextLine
  <2>1. PICK kind \in DOMAIN LineKinds :
          /\ docLines' = Append(docLines, kind)
          /\ LatticeLine(docLines', Len(docLines'))
          /\ StreamLine(docLines', Len(docLines'))
    BY <1>1 DEF NextLine
  <2> DEFINE n == Len(docLines')
  <2>2. /\ docLines' \in Seq(DOMAIN LineKinds) /\ n = Len(docLines) + 1 /\ Len(docLines) \in Nat
        /\ Len(docLines) < MaxLines /\ sheet' = sheet
    BY <1>1, <2>1, AppendProperties, LenProperties DEF TablesInv, NextLine
  <2>3. n \in 1 .. n /\ n <= MaxLines /\ 1 .. Len(docLines) \subseteq 1 .. n
    BY <2>2, TablesAssumption
  <2>4. \A s \in Seq(1 .. Len(docLines)) : s \in Seq(1 .. n) /\ Append(s, n) \in Seq(1 .. n)
                                           /\ Append(s, n) # <<>>
    <3>1. ASSUME NEW s \in Seq(1 .. Len(docLines))
          PROVE  s \in Seq(1 .. n) /\ Append(s, n) \in Seq(1 .. n) /\ Append(s, n) # <<>>
      <4>1. s \in Seq(1 .. n)
        BY <2>3, SeqMonotonic
      <4>2. QED
        BY <2>3, <4>1, AppendProperties
    <3>2. QED
      BY <3>1
  <2>5. <<>> \in Seq(1 .. n) /\ <<n>> \in Seq(1 .. n)
    BY <2>3
  <2> HIDE DEF n
  <2>6. /\ latticeIn' \in BOOLEAN /\ latticeLines' \in Seq(1 .. n)
        /\ latticeLines' # <<>> => latticeIn'
    <3>1. LineKinds[docLines'[n]].border \in BOOLEAN
      <4>1. docLines'[n] \in DOMAIN LineKinds
        BY <2>2, <2>3, ElementOfSeq DEF n
      <4>2. DOMAIN LineKinds = {"rule", "grid", "header", "row", "digits", "named", "text"}
        BY DEF LineKinds
      <4>3. /\ LineKinds["rule"].border = TRUE /\ LineKinds["grid"].border = TRUE
            /\ LineKinds["header"].border = FALSE /\ LineKinds["row"].border = FALSE
            /\ LineKinds["digits"].border = FALSE /\ LineKinds["named"].border = FALSE
            /\ LineKinds["text"].border = FALSE
        BY DEF LineKinds
      <4>4. \A k \in DOMAIN LineKinds : LineKinds[k].border \in BOOLEAN
        BY <4>2, <4>3
      <4>5. QED
        BY <4>1, <4>4
    <3>2. /\ latticeLines \in Seq(1 .. Len(docLines)) /\ latticeIn \in BOOLEAN
          /\ latticeLines # <<>> => latticeIn
      BY DEF TablesInv
    <3>3. LatticeLine(docLines', n)
      BY <2>1 DEF n
    <3>4. CASE ~ latticeIn
      BY <2>4, <3>1, <3>2, <3>3, <3>4 DEF LatticeLine
    <3>5. CASE latticeIn
      <4> DEFINE border == LineKinds[docLines'[n]].border
                 closes == border /\ latticeLines # <<>>
      <4>1. /\ latticeIn' = ~ closes
            /\ latticeLines' = IF closes THEN <<>> ELSE Append(latticeLines, n)
        BY <3>3, <3>5 DEF LatticeLine
      <4>2. closes \in BOOLEAN
        OBVIOUS
      <4> HIDE DEF closes
      <4>3. QED
        BY <2>4, <2>5, <3>2, <4>1, <4>2
    <3>6. QED
      BY <3>2, <3>4, <3>5
  <2>7. streamLines' \in Seq(1 .. n)
    <3>1. StreamLine(docLines', n) /\ streamLines \in Seq(1 .. Len(docLines))
      BY <2>1 DEF n, TablesInv
    <3>2. streamLines' \in {<<n>>, <<>>, Append(streamLines, n)}
      BY <3>1 DEF StreamLine
    <3>3. QED
      BY <2>4, <2>5, <3>1, <3>2
  <2>8. QED
    BY <2>2, <2>3, <2>6, <2>7 DEF n, TablesInv
<1>2. CASE ReadSheet
  <2>1. /\ sheet' \in [1 .. SheetRows + 1 -> SUBSET Columns]
        /\ UNCHANGED <<docLines, latticeIn, latticeLines, streamLines>>
    BY <1>2 DEF ReadSheet
  <2>2. SheetRows + 1 \in Nat
    BY TablesAssumption
  <2>3. sheet' \in Seq(SUBSET Columns)
    BY <2>1, <2>2
  <2>4. QED
    BY <2>1, <2>3 DEF TablesInv, Columns
<1>3. CASE UNCHANGED tableVars
  BY <1>3 DEF tableVars, TablesInv, Columns
<1>4. QED
  BY <1>1, <1>2, <1>3 DEF TablesNext

-----------------------------------------------------------------------------
(* The tables: the loops find what the whole text shows.                    *)

\* The text grows by a line, and the lines before it are what they were.
NewLine(kind) == TablesInv /\ kind \in DOMAIN LineKinds /\ docLines' = Append(docLines, kind)

LEMMA LinesKept ==
    ASSUME NEW kind, NewLine(kind)
    PROVE  /\ Len(docLines) \in Nat /\ Len(docLines') = Len(docLines) + 1
           /\ DOMAIN docLines = 1 .. Len(docLines) /\ DOMAIN docLines' = 1 .. Len(docLines) + 1
           /\ docLines' \in Seq(DOMAIN LineKinds)
           /\ \A n \in DOMAIN docLines : docLines'[n] = docLines[n] /\ Line(n)' = Line(n)
           /\ \A n : n = Len(docLines) + 1 => Line(n)' = LineKinds[kind]
<1>1. docLines \in Seq(DOMAIN LineKinds) /\ kind \in DOMAIN LineKinds
      /\ docLines' = Append(docLines, kind)
  BY DEF NewLine, TablesInv
<1>2. /\ docLines' \in Seq(DOMAIN LineKinds) /\ Len(docLines') = Len(docLines) + 1
      /\ \A n \in 1 .. Len(docLines) : docLines'[n] = docLines[n]
      /\ docLines'[Len(docLines) + 1] = kind
  BY <1>1, AppendProperties
<1>3. /\ Len(docLines) \in Nat /\ DOMAIN docLines = 1 .. Len(docLines)
      /\ DOMAIN docLines' = 1 .. Len(docLines) + 1
  BY <1>1, <1>2, LenProperties
<1>4. \A n \in 1 .. Len(docLines) : Line(n)' = Line(n)
  BY <1>2 DEF Line
<1>5. \A n : n = Len(docLines) + 1 => Line(n)' = LineKinds[kind]
  BY <1>2 DEF Line
<1>6. QED
  BY <1>2, <1>3, <1>4, <1>5

\* The least of some numbers, and one more above them.
LEMMA LeastIs ==
    ASSUME NEW S \in SUBSET Nat, NEW otherwise
    PROVE  /\ S = {} => LeastOr(S, otherwise) = otherwise
           /\ S # {} => /\ LeastOr(S, otherwise) \in S
                        /\ \A j \in S : LeastOr(S, otherwise) <= j
<1>1. ASSUME S # {}
      PROVE  /\ LeastOr(S, otherwise) \in S
             /\ \A j \in S : LeastOr(S, otherwise) <= j
  <2>1. \E i \in S : \A j \in S : i <= j
    BY <1>1, LeastExists
  <2>2. QED
    BY <1>1, <2>1 DEF LeastOr
<1>2. QED
  BY <1>1 DEF LeastOr

LEMMA LeastUnique ==
    ASSUME NEW S \in SUBSET Nat, NEW otherwise, NEW i \in S, \A j \in S : i <= j
    PROVE  LeastOr(S, otherwise) = i
<1>1. LeastOr(S, otherwise) \in S /\ LeastOr(S, otherwise) <= i
  BY LeastIs
<1>2. LeastOr(S, otherwise) \in Nat /\ i \in Nat /\ i <= LeastOr(S, otherwise)
  BY <1>1
<1>3. QED
  BY <1>1, <1>2

\* A table is made of its own lines.
LEMMA TablesOfLines ==
    ASSUME NEW d, NEW e, NEW lines, \A i \in DOMAIN lines : d[lines[i]] = e[lines[i]]
    PROVE  /\ ProcessLatticeTable(d, lines) = ProcessLatticeTable(e, lines)
           /\ ProcessStreamTable(d, lines) = ProcessStreamTable(e, lines)
<1>1. Kinds(d, lines) = Kinds(e, lines)
  BY DEF Kinds
<1>2. QED
  BY <1>1 DEF ProcessLatticeTable, ProcessStreamTable

LEMMA NumbersProperties ==
    ASSUME NEW a \in Nat, NEW b \in Int, a <= b + 1
    PROVE  /\ Numbers(a, b) \in Seq(a .. b) /\ Len(Numbers(a, b)) = b - a + 1
           /\ DOMAIN Numbers(a, b) = 1 .. b - a + 1
           /\ \A i \in 1 .. b - a + 1 : Numbers(a, b)[i] = a + i - 1
           /\ Numbers(a, b) = <<>> <=> a = b + 1
<1>1. Numbers(a, b) = [i \in 1 .. b - a + 1 |-> a + i - 1] /\ b - a + 1 \in Nat
  BY DEF Numbers
<1>2. \A i \in 1 .. b - a + 1 : a + i - 1 \in a .. b
  OBVIOUS
<1>3. Numbers(a, b) \in Seq(a .. b)
  BY <1>1, <1>2
<1>4. Len(Numbers(a, b)) = b - a + 1
  BY <1>1, <1>3, LenProperties
<1>5. Numbers(a, b) = <<>> <=> a = b + 1
  BY <1>3, <1>4, EmptySeq
<1>6. QED
  BY <1>1, <1>3, <1>4, <1>5

LEMMA NumbersAppend ==
    ASSUME NEW a \in Nat, NEW b \in Int, a <= b + 1
    PROVE  Append(Numbers(a, b), b + 1) = Numbers(a, b + 1)
<1> DEFINE s == Numbers(a, b)
           t == Numbers(a, b + 1)
           k == b - a + 1
<1>1. /\ s \in Seq(a .. b) /\ Len(s) = k /\ \A i \in 1 .. k : s[i] = a + i - 1
      /\ k \in Nat
  BY NumbersProperties
<1>2. /\ t \in Seq(a .. b + 1) /\ Len(t) = k + 1 /\ \A i \in 1 .. k + 1 : t[i] = a + i - 1
  BY NumbersProperties
<1> HIDE DEF s, t
<1>3. s \in Seq(a .. b + 1) /\ b + 1 \in a .. b + 1
  <2>1. a .. b \subseteq a .. b + 1
    OBVIOUS
  <2>2. QED
    BY <1>1, <2>1, SeqMonotonic
<1>4. /\ Append(s, b + 1) \in Seq(a .. b + 1) /\ Len(Append(s, b + 1)) = k + 1
      /\ \A i \in 1 .. k : Append(s, b + 1)[i] = s[i]
      /\ Append(s, b + 1)[k + 1] = b + 1
  BY <1>1, <1>3, AppendProperties
<1>5. \A i \in 1 .. k + 1 : Append(s, b + 1)[i] = t[i]
  <2>1. \A i \in 1 .. k : Append(s, b + 1)[i] = t[i]
    BY <1>1, <1>2, <1>4
  <2>2. t[k + 1] = b + 1
    BY <1>1, <1>2
  <2>3. QED
    BY <1>1, <1>4, <2>1, <2>2
<1>6. Append(s, b + 1) = t
  BY <1>2, <1>4, <1>5, SeqEqual
<1>7. QED
  BY <1>6 DEF s, t

LEMMA RulesAreLines ==
    ASSUME TablesInv
    PROVE  /\ Rules \subseteq 1 .. Len(docLines) /\ Rules \in SUBSET Nat /\ IsFiniteSet(Rules)
           /\ Cardinality(Rules) \in Nat /\ Len(docLines) \in Nat
           /\ DOMAIN docLines = 1 .. Len(docLines) /\ Opening \subseteq Rules
<1>1. DOMAIN docLines = 1 .. Len(docLines) /\ Len(docLines) \in Nat
  BY LenProperties DEF TablesInv
<1>2. Rules \in SUBSET (1 .. Len(docLines)) /\ IsFiniteSet(1 .. Len(docLines))
  BY <1>1, FS_Interval DEF Rules
<1>3. IsFiniteSet(Rules) /\ Cardinality(Rules) \in Nat
  BY <1>2, FS_Subset, FS_CardinalityType
<1>4. QED
  BY <1>1, <1>2, <1>3 DEF Opening

LEMMA RulesGrow ==
    ASSUME NEW kind, NewLine(kind), NEW N, N = Len(docLines) + 1
    PROVE  /\ ~ LineKinds[kind].border =>
                /\ Rules' = Rules /\ Opening' = Opening
           /\ LineKinds[kind].border =>
                /\ Rules' = Rules \cup {N}
                /\ Cardinality(Rules)' = Cardinality(Rules) + 1
                /\ Cardinality(Rules) % 2 = 0 => Opening' = Opening \cup {N}
                /\ Cardinality(Rules) % 2 = 1 => Opening' = Opening
<1>1. /\ Rules \subseteq 1 .. Len(docLines) /\ Rules \in SUBSET Nat /\ IsFiniteSet(Rules)
      /\ Cardinality(Rules) \in Nat /\ Opening \subseteq Rules
  BY RulesAreLines DEF NewLine
<1>2. /\ Len(docLines) \in Nat /\ DOMAIN docLines = 1 .. Len(docLines)
      /\ DOMAIN docLines' = 1 .. N /\ N \in Nat /\ N \notin Rules
      /\ \A n \in DOMAIN docLines : Line(n)' = Line(n)
      /\ Line(N)' = LineKinds[kind]
  BY <1>1, LinesKept
<1>3. Rules' = {n \in 1 .. N : Line(n)'.border}
  BY <1>2 DEF Rules
<1>4. Opening' = {n \in Rules' : Rank(n, Rules') % 2 = 1}
  BY DEF Opening
<1>5. ASSUME ~ LineKinds[kind].border
      PROVE  Rules' = Rules /\ Opening' = Opening
  <2>1. Rules' = Rules
    BY <1>2, <1>3, <1>5 DEF Rules
  <2>2. QED
    BY <1>4, <2>1 DEF Opening
<1>6. ASSUME LineKinds[kind].border
      PROVE  /\ Rules' = Rules \cup {N}
             /\ Cardinality(Rules)' = Cardinality(Rules) + 1
             /\ Cardinality(Rules) % 2 = 0 => Opening' = Opening \cup {N}
             /\ Cardinality(Rules) % 2 = 1 => Opening' = Opening
  <2>1. Rules' = Rules \cup {N}
    BY <1>2, <1>3, <1>6 DEF Rules
  <2>2. Cardinality(Rules') = Cardinality(Rules) + 1
    BY <1>1, <1>2, <2>1, FS_AddElement
  <2>3. \A n \in Rules : Rank(n, Rules') = Rank(n, Rules)
    <3>1. ASSUME NEW n \in Rules
          PROVE  {m \in Rules' : m <= n} = {m \in Rules : m <= n}
      <4>1. n \in 1 .. Len(docLines) /\ ~ N <= n
        BY <1>1, <1>2
      <4>2. QED
        BY <2>1, <4>1
    <3>2. QED
      BY <3>1 DEF Rank
  <2>4. Rank(N, Rules') = Cardinality(Rules) + 1
    <3>1. \A m \in Rules' : m <= N
      BY <1>1, <1>2, <2>1
    <3>2. {m \in Rules' : m <= N} = Rules'
      BY <3>1
    <3>3. QED
      BY <2>2, <3>2 DEF Rank
  <2>5. \A n \in Rules : n \in Opening' <=> n \in Opening
    BY <1>4, <2>1, <2>3 DEF Opening
  <2>6. N \in Opening' <=> (Cardinality(Rules) + 1) % 2 = 1
    BY <1>4, <2>1, <2>4
  <2>7. Opening' \subseteq Rules \cup {N}
    BY <1>4, <2>1
  <2>8. /\ Cardinality(Rules) % 2 = 0 => N \in Opening'
        /\ Cardinality(Rules) % 2 = 1 => N \notin Opening'
    BY <1>1, <2>6
  <2>9. QED
    BY <1>1, <2>1, <2>2, <2>5, <2>7, <2>8
<1>7. QED
  BY <1>5, <1>6

\* A table between two rules is not changed by the lines below them.
LEMMA TableFromKept ==
    ASSUME NEW kind, NewLine(kind), NEW n \in Rules, NEW later \in Rules, later > n
    PROVE  TableFrom(n)' = TableFrom(n)
<1> DEFINE N == Len(docLines) + 1
           S == {m \in Rules : m > n}
           T == {m \in Rules' : m > n}
           until == Until(n)
<1>1. /\ Rules \subseteq 1 .. Len(docLines) /\ Rules \in SUBSET Nat /\ Len(docLines) \in Nat
      /\ DOMAIN docLines = 1 .. Len(docLines)
  BY RulesAreLines DEF NewLine
<1>2. Rules' \subseteq Rules \cup {N} /\ Rules \subseteq Rules'
  BY RulesGrow
<1>3. until \in S /\ \A j \in S : until <= j
  <2>1. S \in SUBSET Nat /\ S # {}
    BY <1>1
  <2>2. QED
    BY <2>1, LeastIs DEF Until
<1>4. until \in 1 .. Len(docLines) /\ until > n /\ n \in 1 .. Len(docLines)
  BY <1>1, <1>3
<1>5. \A j \in T : until <= j
  <2>1. ASSUME NEW j \in T
        PROVE  until <= j
    <3>1. j \in S \/ j = N
      BY <1>2
    <3>2. until <= N
      BY <1>1, <1>4
    <3>3. QED
      BY <1>3, <3>1, <3>2
  <2>2. QED
    BY <2>1
<1>6. T \in SUBSET Nat /\ until \in T
  <2>1. N \in Nat /\ Rules' \in SUBSET Nat
    BY <1>1, <1>2
  <2>2. until \in Rules' /\ until > n
    BY <1>2, <1>3
  <2>3. QED
    BY <2>1, <2>2
<1>7. Until(n)' = until
  <2>1. Until(n)' = LeastOr(T, Len(docLines') + 1)
    BY DEF Until
  <2> HIDE DEF T, until
  <2>2. QED
    BY <1>5, <1>6, <2>1, LeastUnique
<1> DEFINE lines == Numbers(n + 1, until - 1)
<1>8. \A i \in DOMAIN lines : docLines'[lines[i]] = docLines[lines[i]]
  <2>1. \A i \in DOMAIN lines : lines[i] \in 1 .. Len(docLines)
    BY <1>1, <1>4 DEF Numbers
  <2>2. QED
    BY <1>1, <2>1, LinesKept
<1>9. TableFrom(n)' = ProcessLatticeTable(docLines', lines)
  BY <1>7 DEF TableFrom
<1>10. TableFrom(n) = ProcessLatticeTable(docLines, lines)
  BY DEF TableFrom
<1> HIDE DEF lines
<1>11. QED
  BY <1>8, <1>9, <1>10, TablesOfLines

\* Every table is between two rules when their number is even, or else one is open.
LEMMA OpeningEnds ==
    ASSUME TablesInv, Cardinality(Rules) % 2 = 0, NEW n \in Opening
    PROVE  \E m \in Rules : m > n
<1>1. /\ Rules \in SUBSET Nat /\ IsFiniteSet(Rules) /\ Cardinality(Rules) \in Nat
      /\ n \in Rules /\ Rank(n, Rules) % 2 = 1
  BY RulesAreLines DEF Opening
<1>2. Rank(n, Rules) \in 1 .. Cardinality(Rules)
  BY <1>1, RankOnto
<1>3. Rank(n, Rules) < Cardinality(Rules) /\ Cardinality(Rules) \in 1 .. Cardinality(Rules)
  BY <1>1, <1>2
<1>4. PICK m \in Rules : Rank(m, Rules) = Cardinality(Rules)
  BY <1>1, <1>3, RankOnto
<1>5. m # n /\ ~ m < n
  <2>1. m \in Nat /\ (m < n => Rank(m, Rules) < Rank(n, Rules))
    BY <1>1, RankGrows
  <2>2. Rank(n, Rules) \in Nat /\ Rank(m, Rules) \in Nat
    BY <1>1, RankType
  <2>3. QED
    BY <1>3, <1>4, <2>1, <2>2
<1>6. m > n
  BY <1>1, <1>5
<1>7. QED
  BY <1>6

LEMMA KindsOfLines ==
    \A k \in DOMAIN LineKinds :
      /\ LineKinds[k].border \in BOOLEAN
      /\ LineKinds[k].border => LineKinds[k].caps = 0
      /\ LineKinds[k].cols \in 1 .. 3 /\ LineKinds[k].words \in Nat /\ LineKinds[k].caps \in Nat
<1>1. DOMAIN LineKinds = {"rule", "grid", "header", "row", "digits", "named", "text"}
  BY DEF LineKinds
<1>2. /\ LineKinds["rule"].border = TRUE /\ LineKinds["grid"].border = TRUE
      /\ LineKinds["header"].border = FALSE /\ LineKinds["row"].border = FALSE
      /\ LineKinds["digits"].border = FALSE /\ LineKinds["named"].border = FALSE
      /\ LineKinds["text"].border = FALSE
  BY DEF LineKinds
<1>3. /\ LineKinds["rule"].cols = 1 /\ LineKinds["grid"].cols = 3
      /\ LineKinds["header"].cols = 3 /\ LineKinds["row"].cols = 3
      /\ LineKinds["digits"].cols = 3 /\ LineKinds["named"].cols = 2
      /\ LineKinds["text"].cols = 1
  BY DEF LineKinds
<1>4. /\ LineKinds["rule"].caps = 0 /\ LineKinds["grid"].caps = 0
      /\ LineKinds["header"].caps = 3 /\ LineKinds["row"].caps = 0
      /\ LineKinds["digits"].caps = 0 /\ LineKinds["named"].caps = 2
      /\ LineKinds["text"].caps = 1
  BY DEF LineKinds
<1>5. /\ LineKinds["rule"].words = 1 /\ LineKinds["grid"].words = 3
      /\ LineKinds["header"].words = 3 /\ LineKinds["row"].words = 3
      /\ LineKinds["digits"].words = 3 /\ LineKinds["named"].words = 3
      /\ LineKinds["text"].words = 8
  BY DEF LineKinds
<1> DEFINE kinds == {"rule", "grid", "header", "row", "digits", "named", "text"}
<1>6. /\ \A k \in kinds : LineKinds[k].border \in BOOLEAN
      /\ \A k \in kinds : LineKinds[k].border => LineKinds[k].caps = 0
  BY <1>2, <1>4
<1>7. /\ \A k \in kinds : LineKinds[k].cols \in 1 .. 3
      /\ \A k \in kinds : LineKinds[k].words \in Nat
      /\ \A k \in kinds : LineKinds[k].caps \in Nat
  BY <1>3, <1>4, <1>5
<1>8. QED
  BY <1>1, <1>6, <1>7

LEMMA NoDoubleBefore ==
    ASSUME NEW kind, NewLine(kind), NoDoubleRule'
    PROVE  NoDoubleRule /\ (LineKinds[kind].border => Len(docLines) \notin Rules)
<1> DEFINE N == Len(docLines) + 1
<1>1. /\ Len(docLines) \in Nat /\ Len(docLines') = N /\ DOMAIN docLines = 1 .. Len(docLines)
      /\ \A n \in DOMAIN docLines : Line(n)' = Line(n)
      /\ \A n : n = N => Line(n)' = LineKinds[kind]
  BY LinesKept
<1>2. \A n, m : n \in 2 .. N /\ m = n - 1 => ~ (Line(n)'.border /\ Line(m)'.border)
  BY <1>1 DEF NoDoubleRule
<1>3. NoDoubleRule
  <2>1. ASSUME NEW n \in 2 .. Len(docLines)
        PROVE  ~ (Line(n).border /\ Line(n - 1).border)
    <3>1. n \in DOMAIN docLines /\ n - 1 \in DOMAIN docLines /\ n \in 2 .. N
      BY <1>1
    <3>2. Line(n)' = Line(n) /\ \A m : m = n - 1 => Line(m)' = Line(m)
      BY <1>1, <3>1
    <3>3. \A m : m = n - 1 => ~ (Line(n).border /\ Line(m).border)
      BY <1>2, <3>1, <3>2
    <3>4. QED
      BY <3>3
  <2>2. QED
    BY <2>1 DEF NoDoubleRule
<1>4. ASSUME LineKinds[kind].border, Len(docLines) \in Rules
      PROVE  FALSE
  <2>1. Len(docLines) \in DOMAIN docLines /\ Line(Len(docLines)).border
    BY <1>4 DEF Rules
  <2>2. N \in 2 .. N /\ Len(docLines) = N - 1
    BY <1>1, <2>1
  <2>3. \A n, m : n = N /\ m = Len(docLines) => Line(n)'.border /\ Line(m)'.border
    BY <1>1, <1>4, <2>1
  <2> HIDE DEF N
  <2>4. QED
    BY <1>2, <2>2, <2>3
<1>5. QED
  BY <1>3, <1>4

\* The tables between rules are found when the second of these is read.
LEMMA LatticeInvStep ==
    ASSUME NEW kind, NewLine(kind), LatticeLine(docLines', Len(docLines')), LatticeInv
    PROVE  LatticeInv'
<1> DEFINE N == Len(docLines) + 1
           border == LineKinds[kind].border
           L == Len(docLines)
<1> SUFFICES ASSUME NoDoubleRule'
             PROVE  /\ latticeIn' <=> Cardinality(Rules)' % 2 = 1
                    /\ latticeIn' => \E o \in Opening' :
                         /\ \A r \in Rules' : r <= o
                         /\ latticeLines' = Numbers(o + 1, N)
                    /\ latticeTables' = Listed([n \in Closed' |-> TableFrom(n)'])
  BY LinesKept DEF LatticeInv
<1>1. /\ L \in Nat /\ N \in Nat /\ Len(docLines') = N
      /\ \A n \in DOMAIN docLines : docLines'[n] = docLines[n]
      /\ docLines'[N] = kind /\ DOMAIN docLines = 1 .. L
  BY LinesKept, AppendProperties DEF NewLine, TablesInv
<1>2. /\ Rules \subseteq 1 .. L /\ Rules \in SUBSET Nat /\ IsFiniteSet(Rules)
      /\ Cardinality(Rules) \in Nat /\ Opening \subseteq Rules
  BY RulesAreLines DEF NewLine
<1>3. border \in BOOLEAN
  BY KindsOfLines DEF NewLine
<1>4. NoDoubleRule /\ (border => L \notin Rules)
  BY NoDoubleBefore
<1>5. /\ latticeIn \in BOOLEAN /\ (latticeLines # <<>> => latticeIn)
  BY DEF NewLine, TablesInv
<1>6. /\ latticeIn <=> Cardinality(Rules) % 2 = 1
      /\ latticeIn => \E o \in Opening : /\ \A r \in Rules : r <= o
                                         /\ latticeLines = Numbers(o + 1, L)
      /\ latticeTables = Listed([n \in Closed |-> TableFrom(n)])
  BY <1>4 DEF LatticeInv
<1>7. /\ ~ latticeIn => /\ latticeIn' = border
                        /\ latticeLines' = latticeLines /\ latticeTables' = latticeTables
      /\ latticeIn =>
           /\ latticeIn' = ~ (border /\ latticeLines # <<>>)
           /\ latticeLines' = IF border /\ latticeLines # <<>> THEN <<>>
                              ELSE Append(latticeLines, N)
           /\ latticeTables' =
                IF border /\ latticeLines # <<>>
                THEN WithTable(latticeTables, ProcessLatticeTable(docLines', latticeLines))
                ELSE latticeTables
  BY <1>1 DEF LatticeLine
<1>8. \A n \in Rules : \A m \in Rules : m > n => TableFrom(n)' = TableFrom(n)
  BY TableFromKept
<1>9. Closed' = {n \in Opening' : (\E m \in Rules' : m > n) /\ TableFrom(n)' # <<>>}
  BY DEF Closed
<1>10. \A n \in Closed : TableFrom(n)' = TableFrom(n)
  BY <1>2, <1>8 DEF Closed
<1>11. ASSUME Closed' = Closed
       PROVE  [n \in Closed' |-> TableFrom(n)'] = [n \in Closed |-> TableFrom(n)]
  BY <1>10, <1>11
<1>12. CASE ~ border
  <2>1. Rules' = Rules /\ Opening' = Opening
    BY <1>12, RulesGrow
  <2>2. Closed' = Closed
    BY <1>2, <1>8, <1>9, <2>1 DEF Closed
  <2>3. latticeIn' = latticeIn /\ latticeTables' = latticeTables
    BY <1>3, <1>5, <1>7, <1>12
  <2>4. ASSUME latticeIn
        PROVE  \E o \in Opening' : /\ \A r \in Rules' : r <= o
                                   /\ latticeLines' = Numbers(o + 1, N)
    <3>1. PICK o \in Opening : /\ \A r \in Rules : r <= o
                               /\ latticeLines = Numbers(o + 1, L)
      BY <1>6, <2>4
    <3>2. latticeLines' = Append(latticeLines, N)
      BY <1>7, <1>12, <2>4
    <3>3. o \in Nat /\ o <= L
      BY <1>1, <1>2
    <3>4. Append(Numbers(o + 1, L), N) = Numbers(o + 1, N)
      BY <1>1, <3>3, NumbersAppend
    <3>5. QED
      BY <2>1, <3>1, <3>2, <3>4
  <2>5. QED
    BY <1>6, <1>11, <2>1, <2>2, <2>3, <2>4
<1>13. CASE border /\ ~ latticeIn
  <2>1. Cardinality(Rules) % 2 = 0
    BY <1>2, <1>6, <1>13
  <2>2. /\ Rules' = Rules \cup {N} /\ Opening' = Opening \cup {N}
        /\ Cardinality(Rules)' = Cardinality(Rules) + 1
    BY <1>13, <2>1, RulesGrow
  <2>3. latticeIn' = TRUE /\ latticeLines' = <<>> /\ latticeTables' = latticeTables
    BY <1>3, <1>5, <1>7, <1>13
  <2>4. \A r \in Rules' : r <= N
    BY <1>1, <1>2, <2>2
  <2>5. Numbers(N + 1, N) = <<>>
    BY <1>1, NumbersProperties
  <2>6. Closed' = Closed
    <3>1. \A n \in Opening : \E m \in Rules : m > n
      BY <2>1, OpeningEnds DEF NewLine
    <3>2. \A n \in Opening : TableFrom(n)' = TableFrom(n)
      BY <1>2, <1>8, <3>1
    <3>3. N \notin Closed'
      <4>1. ASSUME NEW m \in Rules', m > N
            PROVE  FALSE
        <5>1. m \in Rules \/ m = N
          BY <2>2
        <5>2. m \in 1 .. L \/ m = N
          BY <1>2, <5>1
        <5>3. QED
          BY <1>1, <4>1, <5>2
      <4>2. QED
        BY <1>9, <4>1
    <3>4. \A n \in Opening : n \in Closed' <=> n \in Closed
      <4>1. ASSUME NEW n \in Opening
            PROVE  n \in Closed' <=> n \in Closed
        <5>1. PICK m \in Rules : m > n
          BY <3>1
        <5>2. m \in Rules' /\ n \in Opening'
          BY <2>2
        <5>3. QED
          BY <1>9, <3>2, <5>1, <5>2 DEF Closed
      <4>2. QED
        BY <4>1
    <3>5. Closed' \subseteq Opening \cup {N} /\ Closed \subseteq Opening
      BY <1>9, <2>2 DEF Closed
    <3>6. QED
      BY <3>3, <3>4, <3>5
  <2>7. Cardinality(Rules)' % 2 = 1
    BY <1>2, <2>1, <2>2
  <2>8. QED
    BY <1>6, <1>11, <2>2, <2>3, <2>4, <2>5, <2>6, <2>7
<1>14. CASE border /\ latticeIn
  <2>1. Cardinality(Rules) % 2 = 1
    BY <1>6, <1>14
  <2>2. /\ Rules' = Rules \cup {N} /\ Opening' = Opening
        /\ Cardinality(Rules)' = Cardinality(Rules) + 1
    BY <1>14, <2>1, RulesGrow
  <2>3. PICK o \in Opening : /\ \A r \in Rules : r <= o
                             /\ latticeLines = Numbers(o + 1, L)
    BY <1>6, <1>14
  <2>4. o \in Rules /\ o \in Nat /\ o < L
    <3>1. o \in Rules /\ o \in 1 .. L
      BY <1>2
    <3>2. L \notin Rules
      BY <1>4, <1>14
    <3>3. o # L
      BY <3>1, <3>2
    <3>4. L \in Nat
      BY <1>1
    <3> HIDE DEF L
    <3>5. QED
      BY <3>1, <3>3, <3>4
  <2>5. latticeLines # <<>>
    BY <1>1, <2>3, <2>4, NumbersProperties
  <2> DEFINE table == ProcessLatticeTable(docLines', latticeLines)
  <2>6. latticeIn' = FALSE /\ latticeTables' = WithTable(latticeTables, table)
    BY <1>7, <1>14, <2>5
  <2>7. TableFrom(o)' = table
    <3>1. {m \in Rules' : m > o} = {N}
      <4>1. \A m \in Rules : ~ m > o
        BY <1>2, <2>3, <2>4
      <4>2. N > o
        BY <1>1, <2>4
      <4>3. QED
        BY <2>2, <4>1, <4>2
    <3>2. LeastOr({N}, N + 1) = N
      <4>1. {N} \in SUBSET Nat /\ N \in {N} /\ \A j \in {N} : N <= j
        BY <1>1
      <4> HIDE DEF N
      <4>2. QED
        BY <4>1, LeastUnique
    <3>3. Until(o)' = N
      BY <1>1, <3>1, <3>2 DEF Until
    <3>4. TableFrom(o)' = ProcessLatticeTable(docLines', Numbers(o + 1, N - 1))
      BY <3>3 DEF TableFrom
    <3>5. N - 1 = L
      BY <1>1
    <3>6. QED
      BY <2>3, <3>4, <3>5
  <2>8. \A n \in Opening : n # o => (\E m \in Rules : m > n) /\ n < o
    BY <1>2, <2>3, <2>4
  <2>9. ~ \E m \in Rules : m > o
    BY <1>2, <2>3, <2>4
  <2>10. N > o /\ N \in Rules'
    BY <1>1, <2>2, <2>4
  <2>11. \A n \in Opening : n # o => (n \in Closed' <=> n \in Closed)
    <3>1. ASSUME NEW n \in Opening, n # o
          PROVE  n \in Closed' <=> n \in Closed
      <4>1. PICK m \in Rules : m > n
        BY <2>8, <3>1
      <4>2. m \in Rules' /\ n \in Opening' /\ n \in Rules
        BY <1>2, <2>2
      <4>3. TableFrom(n)' = TableFrom(n)
        BY <1>8, <4>1, <4>2
      <4>4. QED
        BY <1>9, <4>1, <4>2, <4>3 DEF Closed
    <3>2. QED
      BY <3>1
  <2>12. o \notin Closed /\ (o \in Closed' <=> table # <<>>)
    BY <1>9, <2>2, <2>7, <2>9, <2>10 DEF Closed
  <2>13. Closed' \subseteq Opening /\ Closed \subseteq Opening
    BY <1>9, <2>2 DEF Closed
  <2>14. latticeTables' = Listed([n \in Closed' |-> TableFrom(n)'])
    <3>1. CASE table = <<>>
      <4>1. Closed' = Closed
        <5>1. o \notin Closed' /\ o \notin Closed
          BY <2>12, <3>1
        <5>2. \A n \in Opening : n \in Closed' <=> n \in Closed
          BY <2>11, <5>1
        <5>3. QED
          BY <2>13, <5>2
      <4>2. latticeTables' = latticeTables
        BY <2>6, <3>1 DEF WithTable
      <4>3. QED
        BY <1>6, <1>11, <4>1, <4>2
    <3>2. CASE table # <<>>
      <4> DEFINE f == [n \in Closed |-> TableFrom(n)]
                 g == [n \in Closed' |-> TableFrom(n)']
      <4>1. Closed' = Closed \cup {o}
        BY <2>11, <2>12, <2>13, <3>2
      <4>2. latticeTables' = Append(Listed(f), table)
        BY <1>6, <2>6, <3>2 DEF WithTable
      <4>3. DOMAIN f \in SUBSET Nat /\ IsFiniteSet(DOMAIN f) /\ \A n \in DOMAIN f : n < o
        <5>1. Closed \in SUBSET Rules
          BY <1>2, <2>13
        <5>2. IsFiniteSet(Closed) /\ Closed \in SUBSET Nat
          BY <1>2, <5>1, FS_Subset
        <5>3. QED
          BY <2>8, <2>12, <2>13, <5>2
      <4>4. DOMAIN g = DOMAIN f \cup {o} /\ (\A n \in DOMAIN f : g[n] = f[n]) /\ g[o] = table
        BY <1>10, <2>7, <4>1
      <4> HIDE DEF f, g, table
      <4>5. Listed(g) = Append(Listed(f), g[o])
        BY <2>4, <4>3, <4>4, ListedAppend
      <4>6. QED
        BY <4>2, <4>4, <4>5 DEF g
    <3>3. QED
      BY <3>1, <3>2
  <2>15. ~ Cardinality(Rules)' % 2 = 1
    BY <1>2, <2>1, <2>2
  <2>16. QED
    BY <2>6, <2>14, <2>15
<1>15. QED
  BY <1>3, <1>5, <1>12, <1>13, <1>14

\* The end of a run is the last line, or the line before one of few words.
LEMMA RunEnds ==
    ASSUME TablesInv, NEW n \in DOMAIN docLines
    PROVE  /\ RunEnd(n) \in n .. Len(docLines)
           /\ RunEnd(n) = Len(docLines) <=> Run(n + 1, Len(docLines))
           /\ n \in Starts => (RunEnd(n) = Len(docLines) <=> Run(n, Len(docLines)))
<1> DEFINE L == Len(docLines)
           S == {m \in n + 1 .. L : ~ MultipleWords(Line(m))}
<1>1. L \in Nat /\ n \in 1 .. L
  BY LenProperties DEF TablesInv
<1>2. RunEnd(n) = LeastOr(S, L + 1) - 1
  BY DEF RunEnd
<1>3. S \in SUBSET Nat
  BY <1>1
<1>4. S = {} <=> Run(n + 1, L)
  BY DEF Run
<1>5. ASSUME S = {}
      PROVE  /\ RunEnd(n) \in n .. L
             /\ RunEnd(n) = L <=> Run(n + 1, L)
  <2>1. LeastOr(S, L + 1) = L + 1
    BY <1>3, <1>5, LeastIs
  <2>2. RunEnd(n) = L
    BY <1>1, <1>2, <2>1
  <2>3. QED
    BY <1>1, <1>4, <1>5, <2>2
<1>6. ASSUME S # {}
      PROVE  /\ RunEnd(n) \in n .. L
             /\ RunEnd(n) = L <=> Run(n + 1, L)
  <2>1. LeastOr(S, L + 1) \in S
    BY <1>3, <1>6, LeastIs
  <2>2. LeastOr(S, L + 1) \in n + 1 .. L
    BY <2>1
  <2>3. RunEnd(n) \in n .. L /\ RunEnd(n) # L
    BY <1>1, <1>2, <2>2
  <2>4. QED
    BY <1>4, <1>6, <2>3
<1>7. /\ RunEnd(n) \in n .. L
      /\ RunEnd(n) = L <=> Run(n + 1, L)
  BY <1>5, <1>6
<1>8. n \in Starts => (Run(n, L) <=> Run(n + 1, L))
  <2>1. ASSUME n \in Starts
        PROVE  MultipleWords(Line(n))
    BY <2>1 DEF Starts, HeaderLike
  <2>2. n .. L = {n} \cup (n + 1 .. L)
    BY <1>1
  <2>3. QED
    BY <2>1, <2>2 DEF Run
<1>9. QED
  BY <1>7, <1>8

LEMMA RunEndGrows ==
    ASSUME NEW kind, NewLine(kind), NEW N, N = Len(docLines) + 1
    PROVE  /\ \A n \in DOMAIN docLines : RunEnd(n) # Len(docLines) => RunEnd(n)' = RunEnd(n)
           /\ \A n \in DOMAIN docLines : RunEnd(n) = Len(docLines) =>
                RunEnd(n)' = IF MultipleWords(LineKinds[kind]) THEN N ELSE Len(docLines)
           /\ RunEnd(N)' = N
<1> DEFINE L == Len(docLines)
           S(n) == {m \in n + 1 .. L : ~ MultipleWords(Line(m))}
           T(n) == {m \in n + 1 .. N : ~ MultipleWords(Line(m)')}
           many == MultipleWords(LineKinds[kind])
<1>1. /\ L \in Nat /\ N \in Nat /\ N = L + 1 /\ Len(docLines') = N /\ DOMAIN docLines = 1 .. L
      /\ \A n \in DOMAIN docLines : Line(n)' = Line(n)
      /\ Line(N)' = LineKinds[kind]
  BY LinesKept
<1>2. \A n : RunEnd(n) = LeastOr(S(n), L + 1) - 1
  BY DEF RunEnd
<1>3. \A n : RunEnd(n)' = LeastOr(T(n), N + 1) - 1
  BY <1>1 DEF RunEnd, MultipleWords
<1>4. ASSUME NEW n \in DOMAIN docLines
      PROVE  /\ S(n) \in SUBSET (1 .. L) /\ S(n) \in SUBSET Nat /\ T(n) \in SUBSET Nat
             /\ T(n) = IF many THEN S(n) ELSE S(n) \cup {N}
  <2>1. n + 1 .. N = (n + 1 .. L) \cup {N} /\ n \in 1 .. L
    BY <1>1, <1>4
  <2>2. \A m \in n + 1 .. L : Line(m)' = Line(m)
    BY <1>1, <2>1
  <2>3. /\ \A m \in n + 1 .. L : m \in T(n) <=> m \in S(n)
        /\ N \in T(n) <=> ~ many
    BY <1>1, <2>1, <2>2
  <2>4. T(n) \subseteq (n + 1 .. L) \cup {N} /\ S(n) \subseteq n + 1 .. L
    BY <2>1
  <2>5. n + 1 .. L \subseteq 1 .. L /\ 1 .. L \subseteq Nat
    BY <1>1, <2>1
  <2>6. N \notin S(n)
    BY <1>1
  <2>7. QED
    BY <1>1, <2>3, <2>4, <2>5, <2>6
<1>5. ASSUME NEW n \in DOMAIN docLines, RunEnd(n) # L
      PROVE  RunEnd(n)' = RunEnd(n)
  <2> DEFINE i == LeastOr(S(n), L + 1)
  <2>1. S(n) # {}
    <3>1. ASSUME S(n) = {}
          PROVE  FALSE
      <4>1. i = L + 1
        BY <1>4, <3>1, LeastIs
      <4>2. QED
        BY <1>1, <1>2, <1>5, <4>1
    <3>2. QED
      BY <3>1
  <2>2. i \in S(n) /\ \A j \in S(n) : i <= j
    BY <1>4, <2>1, LeastIs
  <2>3. i \in 1 .. L
    BY <1>4, <2>2
  <2> HIDE DEF i
  <2>4. i \in T(n) /\ \A j \in T(n) : i <= j
    BY <1>1, <1>4, <2>2, <2>3
  <2>5. LeastOr(T(n), N + 1) = i
    BY <1>4, <2>4, LeastUnique
  <2>6. RunEnd(n)' = i - 1
    BY <1>3, <2>5
  <2>7. RunEnd(n) = i - 1
    BY <1>2 DEF i
  <2>8. QED
    BY <2>6, <2>7
<1>6. ASSUME NEW n \in DOMAIN docLines, RunEnd(n) = L
      PROVE  RunEnd(n)' = IF many THEN N ELSE L
  <2>1. S(n) = {}
    <3>1. ASSUME S(n) # {}
          PROVE  FALSE
      <4>1. LeastOr(S(n), L + 1) \in S(n)
        BY <1>4, <3>1, LeastIs
      <4>2. LeastOr(S(n), L + 1) \in 1 .. L
        BY <1>4, <4>1
      <4>3. QED
        BY <1>1, <1>2, <1>6, <4>2
    <3>2. QED
      BY <3>1
  <2>2. CASE many
    <3>1. T(n) = {}
      BY <1>4, <2>1, <2>2
    <3>2. LeastOr(T(n), N + 1) = N + 1
      BY <1>4, <3>1, LeastIs
    <3>3. QED
      BY <1>1, <1>3, <2>2, <3>2
  <2>3. CASE ~ many
    <3>1. T(n) = {N}
      BY <1>4, <2>1, <2>3
    <3>2. N \in T(n) /\ \A j \in T(n) : N <= j
      BY <1>1, <3>1
    <3>3. LeastOr(T(n), N + 1) = N
      BY <1>4, <3>2, LeastUnique
    <3>4. QED
      BY <1>1, <1>3, <2>3, <3>3
  <2>4. QED
    BY <2>2, <2>3
<1>7. RunEnd(N)' = N
  <2>1. T(N) = {} /\ T(N) \in SUBSET Nat
    BY <1>1
  <2>2. LeastOr(T(N), N + 1) = N + 1
    BY <2>1, LeastIs
  <2>3. QED
    BY <1>1, <1>3, <2>2
<1>8. QED
  BY <1>5, <1>6, <1>7

LEMMA TableAtKept ==
    ASSUME NEW kind, NewLine(kind), NEW n \in DOMAIN docLines, RunEnd(n)' = RunEnd(n)
    PROVE  /\ TableAt(n)' = TableAt(n)
           /\ TableAt(n)' = ProcessStreamTable(docLines', Numbers(n, RunEnd(n)))
<1> DEFINE lines == Numbers(n, RunEnd(n))
<1>1. /\ RunEnd(n) \in n .. Len(docLines) /\ DOMAIN docLines = 1 .. Len(docLines)
      /\ Len(docLines) \in Nat
  BY RunEnds, LinesKept DEF NewLine
<1>2. \A i \in DOMAIN lines : docLines'[lines[i]] = docLines[lines[i]]
  <2>1. \A i \in DOMAIN lines : lines[i] \in 1 .. Len(docLines)
    BY <1>1 DEF Numbers
  <2>2. QED
    BY <1>1, <2>1, LinesKept
<1>3. TableAt(n)' = ProcessStreamTable(docLines', lines)
  BY DEF TableAt
<1>4. TableAt(n) = ProcessStreamTable(docLines, lines)
  BY DEF TableAt
<1> HIDE DEF lines
<1>5. TableAt(n)' = TableAt(n)
  BY <1>2, <1>3, <1>4, TablesOfLines
<1>6. QED
  BY <1>3, <1>5 DEF lines

LEMMA StartsGrow ==
    ASSUME NEW kind, NewLine(kind), NEW N, N = Len(docLines) + 1
    PROVE  /\ Starts \subseteq 1 .. Len(docLines) /\ Starts' \subseteq 1 .. N
           /\ \A n \in 1 .. Len(docLines) : n \in Starts' <=> n \in Starts
           /\ N \in Starts' <=>
                /\ HeaderLike(LineKinds[kind])
                /\ ~ \E i \in 1 .. Len(docLines) : HeaderLike(Line(i)) /\ Run(i, Len(docLines))
           /\ \A n \in 1 .. Len(docLines) :
                Run(n, N)' <=> Run(n, Len(docLines)) /\ MultipleWords(LineKinds[kind])
           /\ Run(N, N)' <=> MultipleWords(LineKinds[kind])
<1> DEFINE L == Len(docLines)
<1>1. /\ L \in Nat /\ N \in Nat /\ N = L + 1 /\ Len(docLines') = N /\ DOMAIN docLines = 1 .. L
      /\ DOMAIN docLines' = 1 .. N
      /\ \A n \in DOMAIN docLines : Line(n)' = Line(n)
      /\ Line(N)' = LineKinds[kind]
  BY LinesKept
<1>2. \A n \in 1 .. L : \A j \in 1 .. L : Run(n, j)' <=> Run(n, j)
  <2>1. ASSUME NEW n \in 1 .. L, NEW j \in 1 .. L
        PROVE  Run(n, j)' <=> Run(n, j)
    <3>1. \A m \in n .. j : Line(m)' = Line(m)
      BY <1>1
    <3>2. Run(n, j)' <=> \A m \in n .. j : MultipleWords(Line(m)')
      BY DEF Run, MultipleWords
    <3>3. QED
      BY <3>1, <3>2 DEF Run
  <2>2. QED
    BY <2>1
<1>3. \A n \in 1 .. L : Run(n, N)' <=> Run(n, L) /\ MultipleWords(LineKinds[kind])
  <2>1. ASSUME NEW n \in 1 .. L
        PROVE  Run(n, N)' <=> Run(n, L) /\ MultipleWords(LineKinds[kind])
    <3>1. n .. N = (n .. L) \cup {N}
      BY <1>1
    <3>2. Run(n, N)' <=> \A m \in n .. N : MultipleWords(Line(m)')
      BY DEF Run, MultipleWords
    <3>3. \A m \in n .. L : Line(m)' = Line(m)
      BY <1>1
    <3>4. QED
      BY <1>1, <3>1, <3>2, <3>3 DEF Run
  <2>2. QED
    BY <2>1
<1>4. Run(N, N)' <=> MultipleWords(LineKinds[kind])
  <2>1. N .. N = {N}
    BY <1>1
  <2>2. Run(N, N)' <=> \A m \in N .. N : MultipleWords(Line(m)')
    BY DEF Run, MultipleWords
  <2>3. QED
    BY <1>1, <2>1, <2>2
<1>5. \A n \in 1 .. N :
        n \in Starts' <=> /\ HeaderLike(Line(n)')
                          /\ ~ \E i \in 1 .. n - 1 : HeaderLike(Line(i)') /\ Run(i, n)'
  BY <1>1 DEF Starts, HeaderLike, MultipleWords
<1>6. \A n \in 1 .. L : n \in Starts' <=> n \in Starts
  <2>1. ASSUME NEW n \in 1 .. L
        PROVE  n \in Starts' <=> n \in Starts
    <3>1. n \in 1 .. N /\ Line(n)' = Line(n)
      BY <1>1
    <3>2. \A i \in 1 .. n - 1 : i \in 1 .. L /\ Line(i)' = Line(i) /\ (Run(i, n)' <=> Run(i, n))
      BY <1>1, <1>2
    <3>3. n \in Starts' <=> /\ HeaderLike(Line(n))
                            /\ ~ \E i \in 1 .. n - 1 : HeaderLike(Line(i)) /\ Run(i, n)
      BY <1>5, <3>1, <3>2
    <3>4. QED
      BY <1>1, <3>3 DEF Starts
  <2>2. QED
    BY <2>1
<1>7. N \in Starts' <=> /\ HeaderLike(LineKinds[kind])
                        /\ ~ \E i \in 1 .. L : HeaderLike(Line(i)) /\ Run(i, L)
  <2>1. N \in 1 .. N /\ N - 1 = L
    BY <1>1
  <2>2. HeaderLike(LineKinds[kind]) => MultipleWords(LineKinds[kind])
    BY DEF HeaderLike
  <2>3. N \in Starts' <=> /\ HeaderLike(LineKinds[kind])
                          /\ ~ \E i \in 1 .. L : HeaderLike(Line(i)') /\ Run(i, N)'
    BY <1>1, <1>5, <2>1
  <2>4. \A i \in 1 .. L : Line(i)' = Line(i)
    BY <1>1
  <2>5. QED
    BY <1>3, <2>2, <2>3, <2>4
<1>8. Starts \subseteq 1 .. L /\ Starts' \subseteq 1 .. N
  BY <1>1 DEF Starts
<1>9. QED
  BY <1>3, <1>4, <1>6, <1>7, <1>8

\* Of the runs only the last one can go on, and it is the last to start.
LEMMA OneStart ==
    ASSUME TablesInv, NEW s \in Starts, Run(s, Len(docLines)), NEW m \in Starts, m # s
    PROVE  m < s /\ RunEnd(m) # Len(docLines)
<1> DEFINE L == Len(docLines)
<1>1. L \in Nat /\ DOMAIN docLines = 1 .. L
  BY LenProperties DEF TablesInv
<1>2. s \in 1 .. L /\ m \in 1 .. L /\ HeaderLike(Line(s)) /\ HeaderLike(Line(m))
  BY <1>1 DEF Starts
<1>3. /\ \A i \in 1 .. s - 1 : ~ (HeaderLike(Line(i)) /\ Run(i, s))
      /\ \A i \in 1 .. m - 1 : ~ (HeaderLike(Line(i)) /\ Run(i, m))
  BY DEF Starts
<1>4. ASSUME s < m
      PROVE  FALSE
  <2>1. Run(s, m) /\ s \in 1 .. m - 1
    BY <1>1, <1>2, <1>4 DEF Run
  <2>2. QED
    BY <1>2, <1>3, <2>1
<1>5. m < s
  BY <1>2, <1>4
<1>6. ASSUME RunEnd(m) = L
      PROVE  FALSE
  <2>1. Run(m, L)
    BY <1>1, <1>2, <1>6, RunEnds
  <2>2. Run(m, s) /\ m \in 1 .. s - 1
    BY <1>1, <1>2, <1>5, <2>1 DEF Run
  <2>3. QED
    BY <1>2, <1>3, <2>2
<1>7. QED
  BY <1>5, <1>6

\* The tables of the runs are found when the first line after these is read.
LEMMA StreamInvStep ==
    ASSUME NEW kind, NewLine(kind), StreamLine(docLines', Len(docLines')), StreamInv,
           NEW N, N = Len(docLines) + 1
    PROVE  StreamInv'
<1> DEFINE L == Len(docLines)
           line == LineKinds[kind]
<1> SUFFICES /\ streamLines' # <<>> =>
                  \E s \in Starts' : Run(s, N)' /\ streamLines' = Numbers(s, N)
             /\ streamLines' = <<>> =>
                  ~ \E n \in 1 .. N : HeaderLike(Line(n)') /\ Run(n, N)'
             /\ streamTables' = Listed([n \in Ended' |-> TableAt(n)'])
  BY LinesKept DEF StreamInv, HeaderLike, MultipleWords, Run
<1>1. /\ L \in Nat /\ N \in Nat /\ Len(docLines') = N /\ docLines'[N] = kind
      /\ DOMAIN docLines = 1 .. L
      /\ \A n \in 1 .. L : Line(n)' = Line(n)
      /\ Line(N)' = line
  BY LinesKept, AppendProperties DEF NewLine, TablesInv
<1>2. /\ streamLines # <<>> => \E s \in Starts : Run(s, L) /\ streamLines = Numbers(s, L)
      /\ streamLines = <<>> => ~ \E n \in 1 .. L : HeaderLike(Line(n)) /\ Run(n, L)
      /\ streamTables = Listed([n \in Ended |-> TableAt(n)])
  BY <1>1 DEF StreamInv
<1>3. /\ streamLines = <<>> => /\ streamLines' = IF HeaderLike(line) THEN <<N>> ELSE <<>>
                               /\ streamTables' = streamTables
      /\ streamLines # <<>> /\ MultipleWords(line) =>
           streamLines' = Append(streamLines, N) /\ streamTables' = streamTables
      /\ streamLines # <<>> /\ ~ MultipleWords(line) =>
           /\ streamLines' = <<>>
           /\ streamTables' = IF EnoughLines(streamLines)
                              THEN WithTable(streamTables,
                                             ProcessStreamTable(docLines', streamLines))
                              ELSE streamTables
  BY <1>1 DEF StreamLine
<1>4. /\ Starts \subseteq 1 .. L /\ Starts' \subseteq 1 .. N
      /\ \A n \in 1 .. L : n \in Starts' <=> n \in Starts
      /\ N \in Starts' <=>
           HeaderLike(line) /\ ~ \E i \in 1 .. L : HeaderLike(Line(i)) /\ Run(i, L)
      /\ \A n \in 1 .. L : Run(n, N)' <=> Run(n, L) /\ MultipleWords(line)
      /\ Run(N, N)' <=> MultipleWords(line)
  BY StartsGrow
<1>5. /\ \A n \in 1 .. L : RunEnd(n) # L => RunEnd(n)' = RunEnd(n)
      /\ \A n \in 1 .. L : RunEnd(n) = L =>
           RunEnd(n)' = IF MultipleWords(line) THEN N ELSE L
      /\ RunEnd(N)' = N
  BY <1>1, RunEndGrows
<1>6. \A n \in 1 .. L : RunEnd(n) \in n .. L
  BY <1>1, RunEnds DEF NewLine
<1>7. Ended' = {n \in Starts' : /\ RunEnd(n)' < N /\ RunEnd(n)' >= n + 2
                                /\ TableAt(n)' # <<>>}
  BY <1>1 DEF Ended
<1>8. \A n \in 1 .. L : RunEnd(n) # L => (n \in Ended' <=> n \in Ended)
                                         /\ TableAt(n)' = TableAt(n)
  <2>1. ASSUME NEW n \in 1 .. L, RunEnd(n) # L
        PROVE  (n \in Ended' <=> n \in Ended) /\ TableAt(n)' = TableAt(n)
    <3>1. RunEnd(n)' = RunEnd(n) /\ RunEnd(n) \in n .. L
      BY <1>5, <1>6, <2>1
    <3>2. TableAt(n)' = TableAt(n)
      BY <1>1, <3>1, TableAtKept
    <3>3. RunEnd(n) < L /\ RunEnd(n) < N
      BY <1>1, <2>1, <3>1
    <3>4. QED
      BY <1>4, <1>7, <3>1, <3>2, <3>3 DEF Ended
  <2>2. QED
    BY <2>1
<1>9. /\ Ended \subseteq 1 .. L /\ Ended' \subseteq 1 .. N
      /\ \A n \in Ended : RunEnd(n) # L
      /\ \A n \in Ended : n \in Starts
  <2>1. Ended \subseteq Starts /\ Ended' \subseteq Starts'
    BY <1>7 DEF Ended
  <2>2. \A n \in Ended : RunEnd(n) < L
    BY DEF Ended
  <2>3. Ended \subseteq 1 .. L /\ Ended' \subseteq 1 .. N
    BY <1>4, <2>1
  <2>4. QED
    BY <1>1, <2>1, <2>2, <2>3
<1>10. N \notin Ended'
  BY <1>1, <1>5, <1>7
<1>11. ASSUME Ended' = Ended
       PROVE  [n \in Ended' |-> TableAt(n)'] = [n \in Ended |-> TableAt(n)]
  <2>1. \A n \in Ended : TableAt(n)' = TableAt(n)
    BY <1>8, <1>9
  <2>2. QED
    BY <1>11, <2>1
<1>12. \A n \in 1 .. N : n \in 1 .. L \/ n = N
  BY <1>1
<1>13. HeaderLike(line) => MultipleWords(line)
  BY DEF HeaderLike
<1>14. CASE streamLines = <<>>
  <2>1. \A n \in Starts : RunEnd(n) # L
    <3>1. ASSUME NEW n \in Starts, RunEnd(n) = L
          PROVE  FALSE
      <4>1. n \in 1 .. L /\ HeaderLike(Line(n)) /\ Run(n, L)
        BY <1>1, <1>4, <3>1, RunEnds DEF NewLine, Starts
      <4>2. QED
        BY <1>2, <1>14, <4>1
    <3>2. QED
      BY <3>1
  <2>2. Ended' = Ended
    <3>1. \A n \in 1 .. L : n \in Starts' => n \in Starts
      BY <1>4
    <3>2. \A n \in Ended' : n \in Starts'
      BY <1>7
    <3>3. QED
      BY <1>8, <1>9, <1>10, <1>12, <2>1, <3>1, <3>2
  <2>3. streamTables' = streamTables
    BY <1>3, <1>14
  <2>4. CASE HeaderLike(line)
    <3>1. N \in Starts' /\ Run(N, N)'
      BY <1>2, <1>4, <1>13, <1>14, <2>4
    <3>2. streamLines' = <<N>>
      BY <1>3, <1>14, <2>4
    <3>3. Numbers(N, N) = <<N>>
      <4>1. Numbers(N, L) = <<>> /\ Append(Numbers(N, L), N) = Numbers(N, N)
        <5>1. N \in Nat /\ L \in Int /\ N = L + 1 /\ N <= L + 1
          BY <1>1
        <5> HIDE DEF L
        <5>2. Numbers(N, L) = <<>>
          BY <5>1, NumbersProperties
        <5>3. Append(Numbers(N, L), L + 1) = Numbers(N, L + 1)
          BY <5>1, NumbersAppend
        <5>4. QED
          BY <5>1, <5>2, <5>3
      <4>2. Append(<<>>, N) = <<N>>
        OBVIOUS
      <4>3. QED
        BY <4>1, <4>2, Zenon
    <3>4. streamLines' # <<>>
      BY <3>2
    <3>5. QED
      BY <1>2, <1>11, <2>2, <2>3, <3>1, <3>2, <3>3, <3>4
  <2>5. CASE ~ HeaderLike(line)
    <3>1. streamLines' = <<>>
      BY <1>3, <1>14, <2>5
    <3>2. ~ \E n \in 1 .. N : HeaderLike(Line(n)') /\ Run(n, N)'
      <4>1. ASSUME NEW n \in 1 .. N, HeaderLike(Line(n)'), Run(n, N)'
            PROVE  FALSE
        <5>1. n # N
          BY <1>1, <2>5, <4>1
        <5>2. n \in 1 .. L /\ Run(n, L) /\ HeaderLike(Line(n))
          BY <1>1, <1>4, <1>12, <4>1, <5>1
        <5>3. QED
          BY <1>2, <1>14, <5>2
      <4>2. QED
        BY <4>1
    <3>3. QED
      BY <1>2, <1>11, <2>2, <2>3, <3>1, <3>2
  <2>6. QED
    BY <2>4, <2>5
<1>15. CASE streamLines # <<>>
  <2>1. PICK s \in Starts : Run(s, L) /\ streamLines = Numbers(s, L)
    BY <1>2, <1>15
  <2>2. s \in 1 .. L /\ HeaderLike(Line(s)) /\ RunEnd(s) = L /\ s \in Starts' /\ s \in Nat
    BY <1>1, <1>4, <2>1, RunEnds DEF NewLine, Starts
  <2>3. \A n \in Starts : n # s => n < s /\ RunEnd(n) # L
    BY <2>1, OneStart DEF NewLine
  <2>4. N \notin Starts'
    BY <1>4, <2>1, <2>2
  <2>5. \A n \in Starts' : n \in Starts /\ n \in 1 .. L
    BY <1>4, <1>12, <2>4
  <2>6. \A n \in Starts : n # s => (n \in Ended' <=> n \in Ended)
    BY <1>4, <1>8, <2>3
  <2>7. s \notin Ended
    BY <1>9, <2>2
  <2>8. Ended \subseteq Starts /\ Ended' \subseteq Starts
    BY <1>7, <2>5 DEF Ended
  <2>9. CASE MultipleWords(line)
    <3>1. RunEnd(s)' = N
      BY <1>5, <2>2, <2>9
    <3>2. s \notin Ended'
      BY <1>1, <1>7, <3>1
    <3>3. Ended' = Ended
      <4>1. \A n \in Starts : n \in Ended' <=> n \in Ended
        BY <2>6, <2>7, <3>2
      <4>2. QED
        BY <2>8, <4>1
    <3>4. streamLines' = Numbers(s, N) /\ streamTables' = streamTables
      <4>1. Append(Numbers(s, L), N) = Numbers(s, N)
        <5>1. s \in Nat /\ L \in Int /\ N = L + 1 /\ s <= L + 1
          BY <1>1, <2>2
        <5> HIDE DEF L
        <5>2. Append(Numbers(s, L), L + 1) = Numbers(s, L + 1)
          BY <5>1, NumbersAppend
        <5>3. QED
          BY <5>1, <5>2
      <4>2. QED
        BY <1>3, <1>15, <2>1, <2>9, <4>1
    <3>5. Numbers(s, N) # <<>>
      BY <1>1, <2>2, NumbersProperties
    <3>6. Run(s, N)'
      BY <1>4, <2>1, <2>2, <2>9
    <3>7. QED
      BY <1>2, <1>11, <2>2, <3>3, <3>4, <3>5, <3>6
  <2>10. CASE ~ MultipleWords(line)
    <3> DEFINE table == ProcessStreamTable(docLines', streamLines)
    <3>1. streamLines' = <<>>
      BY <1>3, <1>15, <2>10
    <3>2. ~ \E n \in 1 .. N : HeaderLike(Line(n)') /\ Run(n, N)'
      BY <1>4, <1>12, <2>10
    <3>3. RunEnd(s)' = L
      BY <1>5, <2>2, <2>10
    <3>4. TableAt(s)' = table
      BY <1>1, <2>1, <2>2, <3>3, TableAtKept
    <3>5. s \in Ended' <=> L >= s + 2 /\ table # <<>>
      BY <1>1, <1>7, <2>2, <3>3, <3>4
    <3>6. EnoughLines(streamLines) <=> L >= s + 2
      <4>1. Len(streamLines) = L - s + 1
        <5>1. Len(Numbers(s, L)) = L - s + 1
          BY <1>1, <2>2, NumbersProperties
        <5>2. QED
          BY <2>1, <5>1
      <4>2. QED
        BY <1>1, <2>2, <4>1 DEF EnoughLines
    <3>7. CASE s \notin Ended'
      <4>1. Ended' = Ended
        <5>1. \A n \in Starts : n \in Ended' <=> n \in Ended
          BY <2>6, <2>7, <3>7
        <5>2. QED
          BY <2>8, <5>1
      <4>2. streamTables' = streamTables
        BY <1>3, <1>15, <2>10, <3>5, <3>6, <3>7 DEF WithTable
      <4>3. QED
        BY <1>2, <1>11, <3>1, <3>2, <4>1, <4>2
    <3>8. CASE s \in Ended'
      <4> DEFINE f == [n \in Ended |-> TableAt(n)]
                 g == [n \in Ended' |-> TableAt(n)']
      <4>1. Ended' = Ended \cup {s}
        BY <2>6, <2>7, <2>8, <3>8
      <4>2. streamTables' = Append(Listed(f), table)
        BY <1>2, <1>3, <1>15, <2>10, <3>5, <3>6, <3>8 DEF WithTable
      <4>3. DOMAIN f \in SUBSET Nat /\ IsFiniteSet(DOMAIN f) /\ \A n \in DOMAIN f : n < s
        <5>1. Ended \in SUBSET (1 .. L) /\ 1 .. L \in SUBSET Nat
          BY <1>9
        <5>2. IsFiniteSet(1 .. L)
          BY <1>1, FS_Interval
        <5>3. IsFiniteSet(Ended)
          BY <5>1, <5>2, FS_Subset
        <5>4. QED
          BY <2>3, <2>7, <2>8, <5>1, <5>3
      <4>4. DOMAIN g = DOMAIN f \cup {s} /\ (\A n \in DOMAIN f : g[n] = f[n]) /\ g[s] = table
        <5>1. \A n \in Ended : TableAt(n)' = TableAt(n)
          BY <1>8, <1>9
        <5>2. QED
          BY <3>4, <4>1, <5>1
      <4> HIDE DEF f, g, table
      <4>5. Listed(g) = Append(Listed(f), g[s])
        BY <2>2, <4>3, <4>4, ListedAppend
      <4>6. QED
        BY <3>1, <3>2, <4>2, <4>4, <4>5 DEF g
    <3>9. QED
      BY <3>7, <3>8
  <2>11. QED
    BY <2>9, <2>10
<1>16. QED
  BY <1>14, <1>15

\* Where the text ends, both loops have found the tables of the whole text.
LEMMA LatticeFinds ==
    ASSUME TablesInv, LatticeInv, NoDoubleRule
    PROVE  LatticeTables = BetweenRules
<1> DEFINE L == Len(docLines)
           table == ProcessLatticeTable(docLines, latticeLines)
           All == {m \in Opening : TableFrom(m) # <<>>}
           f == [n \in Closed |-> TableFrom(n)]
           g == [n \in All |-> TableFrom(n)]
<1>1. /\ Rules \subseteq 1 .. L /\ Rules \in SUBSET Nat /\ IsFiniteSet(Rules)
      /\ Cardinality(Rules) \in Nat /\ L \in Nat /\ Opening \subseteq Rules
  BY RulesAreLines
<1>2. /\ latticeIn <=> Cardinality(Rules) % 2 = 1
      /\ latticeIn => \E o \in Opening : /\ \A r \in Rules : r <= o
                                         /\ latticeLines = Numbers(o + 1, L)
      /\ latticeTables = Listed(f)
  BY DEF LatticeInv
<1>3. LatticeTables = WithTable(Listed(f), table) /\ BetweenRules = Listed(g)
  BY <1>2 DEF LatticeTables, BetweenRules
<1>4. CASE ~ latticeIn
  <2>1. latticeLines = <<>>
    BY <1>4 DEF TablesInv
  <2>2. table = <<>>
    BY <2>1 DEF ProcessLatticeTable
  <2>3. Cardinality(Rules) % 2 = 0
    BY <1>1, <1>2, <1>4
  <2>4. \A n \in Opening : \E m \in Rules : m > n
    BY <2>3, OpeningEnds
  <2>5. All = Closed
    BY <2>4 DEF Closed
  <2>6. f = g
    BY <2>5
  <2> HIDE DEF f, g, table
  <2>7. QED
    BY <1>3, <2>2, <2>6 DEF WithTable
<1>5. CASE latticeIn
  <2>1. PICK o \in Opening : /\ \A r \in Rules : r <= o
                             /\ latticeLines = Numbers(o + 1, L)
    BY <1>2, <1>5
  <2>2. o \in Nat /\ o <= L
    BY <1>1
  <2>3. TableFrom(o) = table
    <3>1. {m \in Rules : m > o} = {}
      <4>1. \A r \in Rules : r \in Nat /\ r <= o
        BY <1>1, <2>1
      <4>2. QED
        BY <2>2, <4>1
    <3>2. {} \in SUBSET Nat
      OBVIOUS
    <3>3. LeastOr({}, L + 1) = L + 1
      BY <3>2, LeastIs
    <3>4. Until(o) = L + 1
      BY <3>1, <3>3 DEF Until
    <3>5. L + 1 - 1 = L
      BY <1>1
    <3>6. TableFrom(o) = ProcessLatticeTable(docLines, Numbers(o + 1, L))
      BY <3>4, <3>5 DEF TableFrom
    <3>7. QED
      BY <2>1, <3>6
  <2>4. \A n \in Opening : n # o => n < o
    BY <1>1, <2>1, <2>2
  <2>5. ~ \E m \in Rules : m > o
    BY <1>1, <2>1, <2>2
  <2>6. o \notin Closed /\ Closed \subseteq All
    BY <2>5 DEF Closed
  <2>7. \A n \in All : n # o => n \in Closed
    BY <1>1, <2>1, <2>4 DEF Closed
  <2>8. CASE table = <<>>
    <3>1. All = Closed
      <4>1. o \notin All
        BY <2>3, <2>8
      <4>2. All \subseteq Closed
        BY <2>7, <4>1
      <4>3. QED
        BY <2>6, <4>2
    <3>2. f = g
      BY <3>1
    <3> HIDE DEF f, g, table
    <3>3. QED
      BY <1>3, <2>8, <3>2 DEF WithTable
  <2>9. CASE table # <<>>
    <3>1. All = Closed \cup {o}
      BY <2>3, <2>6, <2>7, <2>9
    <3>2. DOMAIN f \in SUBSET Nat /\ IsFiniteSet(DOMAIN f) /\ \A n \in DOMAIN f : n < o
      <4>1. Closed \in SUBSET Rules
        BY <1>1 DEF Closed
      <4>2. IsFiniteSet(Closed) /\ Closed \in SUBSET Nat
        BY <1>1, <4>1, FS_Subset
      <4>3. \A n \in Closed : n \in Opening
        BY DEF Closed
      <4>4. QED
        BY <2>4, <2>6, <4>2, <4>3
    <3>3. DOMAIN g = DOMAIN f \cup {o} /\ (\A n \in DOMAIN f : g[n] = f[n]) /\ g[o] = table
      BY <2>3, <3>1
    <3> HIDE DEF f, g, table
    <3>4. Listed(g) = Append(Listed(f), g[o])
      BY <2>2, <3>2, <3>3, ListedAppend
    <3>5. QED
      BY <1>3, <2>9, <3>3, <3>4 DEF WithTable
  <2>10. QED
    BY <2>8, <2>9
<1>6. QED
  BY <1>4, <1>5

LEMMA StreamFinds ==
    ASSUME TablesInv, StreamInv
    PROVE  StreamTables = RunsOfWords
<1> DEFINE L == Len(docLines)
           table == ProcessStreamTable(docLines, streamLines)
           All == {m \in Starts : RunEnd(m) >= m + 2 /\ TableAt(m) # <<>>}
           f == [n \in Ended |-> TableAt(n)]
           g == [n \in All |-> TableAt(n)]
<1>1. L \in Nat /\ DOMAIN docLines = 1 .. L
  BY LenProperties DEF TablesInv
<1>2. /\ streamLines # <<>> => \E s \in Starts : Run(s, L) /\ streamLines = Numbers(s, L)
      /\ streamLines = <<>> => ~ \E n \in 1 .. L : HeaderLike(Line(n)) /\ Run(n, L)
      /\ streamTables = Listed(f)
  BY <1>1 DEF StreamInv
<1>3. RunsOfWords = Listed(g)
  BY DEF RunsOfWords
<1>4. \A n \in Starts : n \in 1 .. L /\ HeaderLike(Line(n)) /\ RunEnd(n) \in n .. L
                        /\ (RunEnd(n) = L <=> Run(n, L))
  BY <1>1, RunEnds DEF Starts
<1>5. \A n \in Starts : RunEnd(n) # L => (n \in All <=> n \in Ended)
  BY <1>1, <1>4 DEF Ended
<1>6. \A n \in Starts : RunEnd(n) = L => n \notin Ended
  BY <1>1 DEF Ended
<1>7. Ended \subseteq Starts /\ All \subseteq Starts
  BY DEF Ended
<1>8. CASE streamLines = <<>>
  <2>1. \A n \in Starts : RunEnd(n) # L
    BY <1>2, <1>4, <1>8
  <2>2. All = Ended
    BY <1>5, <1>7, <2>1
  <2>3. f = g
    BY <2>2
  <2>4. ~ EnoughLines(streamLines)
    BY <1>8 DEF EnoughLines
  <2>5. StreamTables = streamTables
    BY <2>4 DEF StreamTables
  <2> HIDE DEF f, g
  <2>6. QED
    BY <1>2, <1>3, <2>3, <2>5
<1>9. CASE streamLines # <<>>
  <2>1. PICK s \in Starts : Run(s, L) /\ streamLines = Numbers(s, L)
    BY <1>2, <1>9
  <2>2. s \in 1 .. L /\ RunEnd(s) = L /\ s \in Nat
    BY <1>1, <1>4, <2>1
  <2>3. \A n \in Starts : n # s => n < s /\ RunEnd(n) # L
    BY <2>1, OneStart
  <2>4. TableAt(s) = table
    BY <2>1, <2>2 DEF TableAt
  <2>5. EnoughLines(streamLines) <=> L >= s + 2
    <3>1. Len(Numbers(s, L)) = L - s + 1
      BY <1>1, <2>2, NumbersProperties
    <3>2. Len(streamLines) = L - s + 1
      BY <2>1, <3>1
    <3>3. QED
      BY <1>1, <2>2, <3>2 DEF EnoughLines
  <2>6. s \in All <=> EnoughLines(streamLines) /\ table # <<>>
    BY <2>2, <2>4, <2>5
  <2>7. s \notin Ended
    BY <1>6, <2>2
  <2>8. \A n \in Starts : n # s => (n \in All <=> n \in Ended)
    BY <1>5, <2>3
  <2>9. CASE s \notin All
    <3>1. \A n \in Starts : n \in All <=> n \in Ended
      BY <2>7, <2>8, <2>9
    <3>2. All = Ended
      BY <1>7, <3>1
    <3>3. f = g
      BY <3>2
    <3> HIDE DEF All
    <3>4. StreamTables = streamTables
      BY <2>6, <2>9 DEF StreamTables, WithTable
    <3> HIDE DEF f, g
    <3>5. QED
      BY <1>2, <1>3, <3>3, <3>4
  <2>10. CASE s \in All
    <3>1. All = Ended \cup {s}
      BY <1>7, <2>7, <2>8, <2>10
    <3>2. DOMAIN f \in SUBSET Nat /\ IsFiniteSet(DOMAIN f) /\ \A n \in DOMAIN f : n < s
      <4>1. Ended \in SUBSET (1 .. L) /\ 1 .. L \in SUBSET Nat
        BY <1>4, <1>7
      <4>2. IsFiniteSet(1 .. L)
        BY <1>1, FS_Interval
      <4>3. IsFiniteSet(Ended)
        BY <4>1, <4>2, FS_Subset
      <4>4. QED
        BY <1>7, <2>3, <2>7, <4>1, <4>3
    <3>3. DOMAIN g = DOMAIN f \cup {s} /\ (\A n \in DOMAIN f : g[n] = f[n]) /\ g[s] = table
      BY <2>4, <3>1
    <3> HIDE DEF All
    <3>4. StreamTables = Append(streamTables, table)
      BY <2>6, <2>10 DEF StreamTables, WithTable
    <3> HIDE DEF f, g, table
    <3>5. Listed(g) = Append(Listed(f), g[s])
      BY <2>2, <3>2, <3>3, ListedAppend
    <3>6. QED
      BY <1>2, <1>3, <3>3, <3>4, <3>5
  <2>11. QED
    BY <2>9, <2>10
<1>10. QED
  BY <1>8, <1>9

\* F adds up the values of h over every set of its arguments.
Adds(F, h) ==
    F = [t \in SUBSET DOMAIN h |->
           IF t = {} THEN 0
           ELSE h[CHOOSE x \in t : TRUE] + F[t \ {CHOOSE x \in t : TRUE}]]

\* There is one that does, and those that do are products where h is constant.
LEMMA ConstantAdds ==
    ASSUME NEW d \in {2, 3, 4, 9}, NEW h, IsFiniteSet(DOMAIN h), \A x \in DOMAIN h : h[x] = d
    PROVE  /\ \E F : Adds(F, h)
           /\ \A F : Adds(F, h) => F[DOMAIN h] = d * Cardinality(DOMAIN h)
<1> DEFINE S == DOMAIN h
           pick(t) == CHOOSE x \in t : TRUE
<1>1. ASSUME NEW t \in SUBSET S, t # {}
      PROVE  /\ pick(t) \in t /\ h[pick(t)] = d /\ t \ {pick(t)} \in SUBSET S
             /\ IsFiniteSet(t) /\ Cardinality(t) \in Nat /\ Cardinality(t) # 0
             /\ Cardinality(t \ {pick(t)}) = Cardinality(t) - 1
  <2>1. pick(t) \in t
    BY <1>1
  <2>2. IsFiniteSet(t) /\ Cardinality(t) \in Nat /\ Cardinality(t) # 0
    BY <1>1, FS_Subset, FS_CardinalityType, FS_EmptySet
  <2> HIDE DEF pick
  <2>3. Cardinality(t \ {pick(t)}) = Cardinality(t) - 1
    BY <2>1, <2>2, FS_RemoveElement
  <2>4. QED
    BY <2>1, <2>2, <2>3
<1>2. {} \in SUBSET S /\ Cardinality({}) = 0
  BY FS_EmptySet
<1> DEFINE G == [t \in SUBSET S |-> d * Cardinality(t)]
<1>3. Adds(G, h)
  <2>1. ASSUME NEW t \in SUBSET S
        PROVE  G[t] = IF t = {} THEN 0 ELSE h[pick(t)] + G[t \ {pick(t)}]
    <3>1. CASE t = {}
      BY <1>2, <3>1
    <3>2. CASE t # {}
      <4>1. /\ h[pick(t)] = d /\ t \ {pick(t)} \in SUBSET S
            /\ Cardinality(t) \in Nat
            /\ Cardinality(t \ {pick(t)}) = Cardinality(t) - 1
        BY <1>1, <3>2
      <4> HIDE DEF pick
      <4>2. G[t \ {pick(t)}] = d * (Cardinality(t) - 1) /\ G[t] = d * Cardinality(t)
        BY <4>1
      <4> HIDE DEF G
      <4>3. d + d * (Cardinality(t) - 1) = d * Cardinality(t)
        BY <4>1
      <4>4. QED
        BY <3>2, <4>1, <4>2, <4>3
    <3>3. QED
      BY <3>1, <3>2
  <2>2. G = [t \in SUBSET S |-> IF t = {} THEN 0 ELSE h[pick(t)] + G[t \ {pick(t)}]]
    BY <2>1
  <2> HIDE DEF G
  <2>3. QED
    BY <2>2 DEF Adds
<1>4. ASSUME NEW F, Adds(F, h)
      PROVE  F[S] = d * Cardinality(S)
  <2> DEFINE Wrong == {n \in Nat : \E t \in SUBSET S : Cardinality(t) = n /\ F[t] # d * n}
  <2>1. \A t \in SUBSET S : F[t] = IF t = {} THEN 0 ELSE h[pick(t)] + F[t \ {pick(t)}]
    BY <1>4 DEF Adds
  <2>2. ASSUME Wrong # {}
        PROVE  FALSE
    <3>1. PICK n \in Wrong : \A m \in Wrong : n <= m
      BY <2>2, LeastExists
    <3>2. PICK t \in SUBSET S : Cardinality(t) = n /\ F[t] # d * n
      OBVIOUS
    <3>3. CASE t = {}
      BY <1>2, <2>1, <3>2, <3>3
    <3>4. CASE t # {}
      <4>1. /\ h[pick(t)] = d /\ t \ {pick(t)} \in SUBSET S
            /\ n \in Nat /\ n # 0 /\ Cardinality(t \ {pick(t)}) = n - 1
        BY <1>1, <3>2, <3>4
      <4>2. F[t] = d + F[t \ {pick(t)}]
        BY <2>1, <3>4, <4>1
      <4> HIDE DEF pick
      <4>3. n - 1 \in Nat /\ n - 1 \notin Wrong
        BY <3>1, <4>1
      <4>4. F[t \ {pick(t)}] = d * (n - 1)
        BY <4>1, <4>3
      <4> HIDE DEF Wrong
      <4>5. d + d * (n - 1) = d * n
        BY <4>1
      <4>6. QED
        BY <3>2, <4>2, <4>4, <4>5
    <3>5. QED
      BY <3>3, <3>4
  <2>3. Cardinality(S) \in Nat /\ S \in SUBSET S
    BY FS_CardinalityType
  <2>4. QED
    BY <2>2, <2>3
<1>5. QED
  BY <1>3, <1>4

\* What the folds of the measure compute where every record has c fields.
LEMMA ConstantFolds ==
    ASSUME NEW k \in Nat, NEW c \in {2, 3}, NEW s, s = [i \in 1 .. k |-> c]
    PROVE  /\ FoldSeq(LAMBDA x, y : x + y, 0, s) = c * k
           /\ FoldSeq(LAMBDA x, y : x * x + y, 0, s) = c * c * k
<1> DEFINE pick(t) == CHOOSE x \in t : TRUE
           h == [i \in 1 .. k |-> s[i] * s[i]]
<1>1. /\ DOMAIN s = 1 .. k /\ DOMAIN h = 1 .. k
      /\ \A i \in 1 .. k : s[i] = c /\ h[i] = c * c
      /\ IsFiniteSet(1 .. k) /\ Cardinality(1 .. k) = k
      /\ c * c \in {2, 3, 4, 9} /\ c \in {2, 3, 4, 9}
  BY FS_Interval
<1>2. FoldSeq(LAMBDA x, y : x + y, 0, s) = (CHOOSE F : Adds(F, s))[DOMAIN s]
  BY DEF FoldSeq, FoldFunction, FoldFunctionOnSet, MapThenFoldSet, Adds
<1>3. FoldSeq(LAMBDA x, y : x + y, 0, s) = c * k
  <2>1. Adds(CHOOSE F : Adds(F, s), s)
    BY <1>1, ConstantAdds
  <2>2. (CHOOSE F : Adds(F, s))[DOMAIN s] = c * Cardinality(DOMAIN s)
    BY <1>1, <2>1, ConstantAdds
  <2>3. QED
    BY <1>1, <1>2, <2>2
<1> DEFINE Squares(F) ==
             F = [t \in SUBSET DOMAIN s |->
                    IF t = {} THEN 0 ELSE s[pick(t)] * s[pick(t)] + F[t \ {pick(t)}]]
<1>4. FoldSeq(LAMBDA x, y : x * x + y, 0, s) = (CHOOSE F : Squares(F))[DOMAIN s]
  BY DEF FoldSeq, FoldFunction, FoldFunctionOnSet, MapThenFoldSet
<1>5. \A F : Squares(F) <=> Adds(F, h)
  <2>1. ASSUME NEW t \in SUBSET DOMAIN s, t # {}
        PROVE  h[pick(t)] = s[pick(t)] * s[pick(t)]
    <3>1. pick(t) \in 1 .. k
      BY <1>1, <2>1
    <3>2. QED
      BY <3>1
  <2>2. \A F : [t \in SUBSET DOMAIN s |->
                  IF t = {} THEN 0 ELSE s[pick(t)] * s[pick(t)] + F[t \ {pick(t)}]]
               = [t \in SUBSET DOMAIN h |-> IF t = {} THEN 0 ELSE h[pick(t)] + F[t \ {pick(t)}]]
    BY <1>1, <2>1
  <2>3. QED
    BY <2>2 DEF Adds
<1>6. FoldSeq(LAMBDA x, y : x * x + y, 0, s) = c * c * k
  <2> HIDE DEF Squares, h
  <2>1. \E F : Squares(F)
    BY <1>1, <1>5, ConstantAdds
  <2>2. Squares(CHOOSE F : Squares(F))
    BY <2>1
  <2>3. (CHOOSE F : Squares(F))[DOMAIN h] = c * c * Cardinality(DOMAIN h)
    BY <1>1, <1>5, <2>2, ConstantAdds
  <2>4. QED
    BY <1>1, <1>4, <2>3
<1>7. QED
  BY <1>3, <1>6

LEMMA FlattenOne ==
    ASSUME NEW s
    PROVE  FlattenSeq(<<s>>) = s
  BY DEF FlattenSeq

\* One regular table is what the lattice mode is sure of.
LEMMA RegularConfident ==
    ASSUME NEW k \in Nat \ {0}, NEW c \in {2, 3}, NEW table,
           table = [j \in 1 .. k |-> [line |-> j + 2, fields |-> c]]
    PROVE  LatticeConfident(<<table>>) /\ FlattenSeq(<<table>>) = table
<1> DEFINE fields == [i \in 1 .. k |-> c]
           total == FoldSeq(LAMBDA x, y : x + y, 0, fields)
           squares == FoldSeq(LAMBDA x, y : x * x + y, 0, fields)
<1>1. FlattenSeq(<<table>>) = table
  BY FlattenOne
<1>2. [i \in DOMAIN FlattenSeq(<<table>>) |-> FlattenSeq(<<table>>)[i].fields] = fields
  BY <1>1
<1>3. Len(fields) = k
  <2>1. fields \in Seq(Nat) /\ DOMAIN fields = 1 .. k
    OBVIOUS
  <2>2. QED
    BY <2>1, LenProperties
<1>4. total = c * k /\ squares = c * c * k
  BY ConstantFolds
<1> DEFINE m == Measure(<<table>>)
<1>5. m = [records |-> Len(fields), fields |-> total,
           deviation |-> Len(fields) * squares - total * total]
  BY <1>2 DEF Measure
<1> HIDE DEF m, total, squares, fields
<1>6. m.records = k /\ m.fields = c * k /\ m.deviation = k * (c * c * k) - (c * k) * (c * k)
  BY <1>3, <1>4, <1>5
<1>7. CASE c = 3
  <2>1. m.fields >= 3 * m.records
    BY <1>6, <1>7
  <2>2. QED
    BY <1>1, <2>1 DEF LatticeConfident, m
<1>8. CASE c = 2
  <2>1. m.records = k /\ m.fields = 2 * k
    BY <1>6, <1>8
  <2>2. m.deviation = 0
    <3>1. m.deviation = k * (4 * k) - (2 * k) * (2 * k)
      BY <1>6, <1>8
    <3>2. \A n \in Nat : n * (4 * n) - (2 * n) * (2 * n) = 0
      OBVIOUS
    <3>3. QED
      BY <3>1, <3>2
  <2> DEFINE slack == 7 * m.fields - 12 * m.records
             scale == 81 * m.records * m.records
  <2>3. slack = 2 * k /\ slack \in Nat /\ m.fields \in Nat
    BY <2>1
  <2>4. scale * m.deviation = 0
    <3>1. scale \in Nat
      BY <2>1
    <3> HIDE DEF scale
    <3>2. QED
      BY <2>2, <3>1
  <2>5. m.fields * m.fields * slack * slack >= 0
    <3>1. \A a, b \in Nat : a * a * b * b >= 0
      <4>1. \A a, b \in Nat : a * b \in Nat
        OBVIOUS
      <4>2. QED
        BY <4>1
    <3> HIDE DEF slack
    <3>2. QED
      BY <2>3, <3>1
  <2>6. /\ slack >= 0
        /\ 81 * m.records * m.records * m.deviation <= m.fields * m.fields * slack * slack
    <3>1. slack >= 0
      BY <2>3
    <3>2. m.fields * m.fields * slack * slack \in Int
      <4> HIDE DEF slack
      <4>1. QED
        BY <2>3
    <3> HIDE DEF slack
    <3>3. QED
      BY <2>4, <2>5, <3>1, <3>2
  <2>7. QED
    BY <1>1, <2>6 DEF LatticeConfident, m
<1>9. c = 2 \/ c = 3
  OBVIOUS
<1>10. QED
  BY <1>7, <1>8, <1>9, Zenon

\* The only table of a regular text, as the whole text shows it.
LEMMA OneTableFound ==
    ASSUME TablesInv, OneTable
    PROVE  /\ NoDoubleRule /\ Len(docLines) - 3 \in Nat \ {0} /\ Line(2).cols \in {2, 3}
           /\ BetweenRules =
                <<[j \in 1 .. Len(docLines) - 3 |-> [line |-> j + 2, fields |-> Line(2).cols]]>>
<1> DEFINE last == Len(docLines)
           c == Line(2).cols
           table == [j \in 1 .. last - 3 |-> [line |-> j + 2, fields |-> c]]
<1>1. /\ last \in Nat /\ last >= 4 /\ DOMAIN docLines = 1 .. last
      /\ Line(1).border /\ Line(last).border /\ HeaderLike(Line(2))
      /\ \A n \in 2 .. last - 1 : ~ Line(n).border /\ Line(n).cols = c /\ Line(n).cols >= 2
  BY LenProperties DEF TablesInv, OneTable
<1>2. c \in {2, 3}
  <2>1. 2 \in DOMAIN docLines /\ 2 \in 2 .. last - 1
    BY <1>1
  <2>2. c \in 1 .. 3
    BY <2>1, KindsOfLines, ElementOfSeq DEF TablesInv, Line
  <2>3. QED
    BY <1>1, <2>1, <2>2
<1>3. NoDoubleRule
  <2>1. ASSUME NEW n \in 2 .. last
        PROVE  ~ (Line(n).border /\ Line(n - 1).border)
    <3>1. n \in 2 .. last - 1 \/ n - 1 \in 2 .. last - 1
      BY <1>1
    <3>2. QED
      BY <1>1, <3>1
  <2>2. QED
    BY <2>1 DEF NoDoubleRule
<1>4. Rules = {1, last}
  <2>1. \A n \in DOMAIN docLines : n = 1 \/ n = last \/ n \in 2 .. last - 1
    BY <1>1
  <2>2. 1 \in DOMAIN docLines /\ last \in DOMAIN docLines
    BY <1>1
  <2>3. \A n \in Rules : n = 1 \/ n = last
    BY <1>1, <2>1 DEF Rules
  <2>4. 1 \in Rules /\ last \in Rules
    BY <1>1, <2>2 DEF Rules
  <2>5. QED
    BY <2>3, <2>4
<1>5. Opening = {1}
  <2>1. {m \in Rules : m <= 1} = {1} /\ {m \in Rules : m <= last} = {1} \cup {last}
    BY <1>1, <1>4
  <2>2. Cardinality({1}) = 1 /\ IsFiniteSet({1})
    BY FS_Singleton
  <2>3. Cardinality({1} \cup {last}) = 2
    <3>1. last \notin {1}
      BY <1>1
    <3> HIDE DEF last
    <3>2. Cardinality({1} \cup {last}) = Cardinality({1}) + 1
      BY <2>2, <3>1, FS_AddElement
    <3>3. QED
      BY <2>2, <3>2
  <2>4. Rank(1, Rules) = 1 /\ Rank(last, Rules) = 2
    BY <2>1, <2>2, <2>3 DEF Rank
  <2>5. Rank(1, Rules) % 2 = 1 /\ ~ Rank(last, Rules) % 2 = 1
    BY <2>4
  <2>6. QED
    BY <1>4, <2>5 DEF Opening
<1>6. Until(1) = last
  <2>1. {m \in Rules : m > 1} = {last}
    BY <1>1, <1>4
  <2>2. {last} \in SUBSET Nat /\ \A j \in {last} : last <= j
    BY <1>1
  <2> HIDE DEF last
  <2>3. LeastOr({last}, last + 1) = last
    BY <2>2, LeastUnique
  <2>4. QED
    BY <2>1, <2>3 DEF Until, last
<1> DEFINE lines == Numbers(2, last - 1)
           kinds == Kinds(docLines, lines)
<1>7. /\ DOMAIN lines = 1 .. last - 2 /\ Len(lines) = last - 2
      /\ \A i \in 1 .. last - 2 : lines[i] = i + 1
  <2>1. 2 \in Nat /\ last - 1 \in Int /\ 2 <= last - 1 + 1 /\ last - 1 - 2 + 1 = last - 2
    BY <1>1
  <2>2. /\ DOMAIN lines = 1 .. last - 1 - 2 + 1 /\ Len(lines) = last - 1 - 2 + 1
        /\ \A i \in 1 .. last - 1 - 2 + 1 : lines[i] = 2 + i - 1
    BY <2>1, NumbersProperties
  <2> HIDE DEF lines, last
  <2>3. \A i \in 1 .. last - 2 : lines[i] = 2 + i - 1
    BY <2>1, <2>2
  <2>4. QED
    BY <2>1, <2>2, <2>3
<1>8. \A i \in 1 .. last - 2 : kinds[i] = Line(i + 1)
  BY <1>7 DEF Kinds, Line
<1>9. LeastOr({i \in 1 .. AtMost(3, Len(lines)) : HeaderLike(kinds[i])}, 1) = 1
  <2> DEFINE S == {i \in 1 .. AtMost(3, Len(lines)) : HeaderLike(kinds[i])}
  <2>1. 1 \in 1 .. AtMost(3, Len(lines)) /\ kinds[1] = Line(2)
    BY <1>1, <1>7, <1>8 DEF AtMost
  <2>2. 1 \in S /\ S \in SUBSET Nat /\ \A j \in S : 1 <= j
    BY <1>1, <2>1
  <2> HIDE DEF S
  <2>3. LeastOr(S, 1) = 1
    BY <2>2, LeastUnique
  <2>4. QED
    BY <2>3 DEF S
<1>10. TableFrom(1) = RecordsBelow(kinds, lines, 1)
  <2>1. 1 + 1 = 2 /\ ~ Len(lines) < 2
    BY <1>1, <1>7
  <2>2. TableFrom(1) = ProcessLatticeTable(docLines, lines)
    BY <1>6, <2>1 DEF TableFrom
  <2> HIDE DEF lines
  <2>3. QED
    BY <1>9, <2>1, <2>2 DEF ProcessLatticeTable
<1> HIDE DEF lines, kinds
<1>11. \A i \in 1 .. last - 2 : kinds[i].cols = c
  BY <1>1, <1>8
<1> DEFINE rows == {i \in 2 .. Len(lines) : /\ kinds[i].cols >= 2
                                            /\ 2 * kinds[i].cols >= kinds[1].cols}
           f == [i \in rows |->
                   [line |-> lines[i],
                    fields |-> IF kinds[i].cols > kinds[1].cols THEN kinds[1].cols + 1
                               ELSE kinds[i].cols]]
<1>12. RecordsBelow(kinds, lines, 1) = Listed(f)
  <2>1. 1 \in 1 .. last - 2
    BY <1>1
  <2>2. ~ kinds[1].cols < 2
    BY <1>2, <1>11, <2>1
  <2>3. 1 + 1 = 2
    OBVIOUS
  <2>4. QED
    BY <2>2, <2>3 DEF RecordsBelow
<1>13. DOMAIN f = 2 .. last - 2 /\ \A i \in 2 .. last - 2 : f[i] = [line |-> i + 1, fields |-> c]
  <2>1. 2 .. Len(lines) = 2 .. last - 2 /\ \A i \in 2 .. last - 2 : i \in 1 .. last - 2
    BY <1>7
  <2>2. 1 \in 1 .. last - 2
    BY <1>1
  <2>3. \A i \in 2 .. last - 2 : kinds[i].cols = c /\ kinds[1].cols = c /\ lines[i] = i + 1
    BY <1>7, <1>11, <2>1, <2>2
  <2> HIDE DEF c
  <2>4. rows = 2 .. last - 2
    BY <1>2, <2>1, <2>3
  <2> HIDE DEF rows
  <2>5. \A i \in 2 .. last - 2 : f[i] = [line |-> i + 1, fields |-> c]
    BY <1>2, <2>3, <2>4
  <2>6. QED
    BY <2>4, <2>5
<1> HIDE DEF f
<1>14. Listed(f) = table
  <2>1. 2 \in Nat /\ last - 2 \in Int /\ 2 <= last - 2 + 1 /\ last - 2 - 2 + 1 = last - 3
    BY <1>1
  <2>2. Listed(f) = [j \in 1 .. last - 3 |-> f[2 + j - 1]]
    BY <1>13, <2>1, ListedInterval
  <2>3. \A j \in 1 .. last - 3 : f[2 + j - 1] = [line |-> j + 2, fields |-> c]
    <3>1. ASSUME NEW j \in 1 .. last - 3
          PROVE  f[2 + j - 1] = [line |-> j + 2, fields |-> c]
      <4>1. 2 + j - 1 \in 2 .. last - 2 /\ 2 + j - 1 + 1 = j + 2
        BY <1>1
      <4>2. f[2 + j - 1] = [line |-> 2 + j - 1 + 1, fields |-> c]
        BY <1>13, <4>1
      <4>3. QED
        BY <4>1, <4>2
    <3>2. QED
      BY <3>1
  <2>4. QED
    BY <2>2, <2>3
<1>15. TableFrom(1) = table
  BY <1>10, <1>12, <1>14
<1>16. table # <<>>
  <2>1. 1 \in 1 .. last - 3
    BY <1>1
  <2>2. DOMAIN table # {}
    BY <2>1
  <2> HIDE DEF table
  <2>3. QED
    BY <2>2
<1>17. BetweenRules = <<table>>
  <2> DEFINE g == [n \in {m \in Opening : TableFrom(m) # <<>>} |-> TableFrom(n)]
  <2> HIDE DEF table
  <2>1. {m \in Opening : TableFrom(m) # <<>>} = {1}
    BY <1>5, <1>15, <1>16
  <2>2. DOMAIN g = {1} /\ g[1] = table
    BY <1>15, <2>1
  <2> HIDE DEF g
  <2>3. Listed(g) = <<g[1]>>
    BY <2>2, ListedOne
  <2>4. QED
    BY <2>2, <2>3 DEF BetweenRules, g
<1>18. QED
  BY <1>1, <1>2, <1>3, <1>17

\* The simpler reading of such a text.
LEMMA OneTableRead ==
    ASSUME TablesInv, OneTable, docLines[2] = "header", HeaderWindow >= 2,
           ~ Line(Len(docLines)).cols >= 3,
           \A n \in 3 .. Len(docLines) - 1 : Line(n).long
    PROVE  TabularData = Numbers(3, Len(docLines) - 1)
<1> DEFINE last == Len(docLines)
           isHeader(n) == Line(n).words >= 3 /\ Line(n).caps >= 3
           S == {n \in 1 .. AtMost(HeaderWindow, last) : isHeader(n)}
           isRow(n) == Line(n).long /\ Line(n).cols >= 3 /\ Line(2).cols >= 3
           f == [n \in {m \in 3 .. last : isRow(m)} |-> n]
<1>1. /\ last \in Nat /\ last >= 4 /\ DOMAIN docLines = 1 .. last
      /\ Line(1).border
      /\ \A n \in 2 .. last - 1 : Line(n).cols = Line(2).cols
  BY LenProperties DEF TablesInv, OneTable
<1>2. Line(2).words = 3 /\ Line(2).caps = 3 /\ Line(2).cols = 3
  BY DEF Line, LineKinds
<1>3. LeastOr(S, 1) = 2
  <2>1. Line(1).caps = 0
    <3>1. docLines[1] \in DOMAIN LineKinds
      BY <1>1, ElementOfSeq DEF TablesInv
    <3>2. QED
      BY <1>1, <3>1, KindsOfLines DEF Line
  <2>2. 1 \notin S
    BY <2>1
  <2>3. AtMost(HeaderWindow, last) \in Nat /\ 2 \in 1 .. AtMost(HeaderWindow, last)
    BY <1>1, TablesAssumption DEF AtMost
  <2>4. 2 \in S /\ S \in SUBSET Nat
    BY <1>2, <2>3
  <2>5. \A j \in S : 2 <= j
    BY <2>2, <2>3
  <2> HIDE DEF S
  <2>6. QED
    BY <2>4, <2>5, LeastUnique
<1>4. {m \in 3 .. last : isRow(m)} = 3 .. last - 1
  <2>1. \A m \in 3 .. last - 1 : isRow(m)
    BY <1>1, <1>2
  <2>2. ~ isRow(last)
    OBVIOUS
  <2>3. 3 .. last = (3 .. last - 1) \cup {last}
    BY <1>1
  <2> HIDE DEF isRow
  <2>4. QED
    BY <2>1, <2>2, <2>3
<1>5. TabularData = Listed(f)
  <2>1. 2 + 1 = 3
    OBVIOUS
  <2>2. TabularData = Listed([n \in {m \in LeastOr(S, 1) + 1 .. last :
                                       /\ Line(m).long /\ Line(m).cols >= 3
                                       /\ Line(LeastOr(S, 1)).cols >= 3} |-> n])
    BY DEF TabularData
  <2>3. QED
    BY <1>3, <2>1, <2>2
<1>6. DOMAIN f = 3 .. last - 1 /\ \A n \in 3 .. last - 1 : f[n] = n
  BY <1>4
<1> HIDE DEF f
<1>7. 3 \in Nat /\ last - 1 \in Int /\ 3 <= last - 1 + 1
  BY <1>1
<1>8. Listed(f) = [j \in 1 .. last - 1 - 3 + 1 |-> f[3 + j - 1]]
  BY <1>6, <1>7, ListedInterval
<1>9. \A j \in 1 .. last - 1 - 3 + 1 : f[3 + j - 1] = 3 + j - 1
  BY <1>1, <1>6
<1>10. QED
  BY <1>5, <1>8, <1>9 DEF Numbers

\* The number of a header is its column, where no column before it has none.
LEMMA HeaderNumbers ==
    ASSUME NEW header \in SUBSET Columns
    PROVE  LET headers == Listed([c \in header |-> c]) IN
           \A c \in Columns : 1 .. c \subseteq header => c \in DOMAIN headers /\ headers[c] = c
<1> DEFINE f == [c \in header |-> c]
<1>1. header \in SUBSET Nat /\ IsFiniteSet(header) /\ \A m \in header : m >= 1
  <2>1. Columns = 1 .. SheetColumns /\ SheetColumns \in Nat
    BY TablesAssumption DEF Columns
  <2>2. IsFiniteSet(Columns)
    BY <2>1, FS_Interval
  <2>3. IsFiniteSet(header)
    BY <2>2, FS_Subset
  <2>4. \A m \in Columns : m \in Nat /\ m >= 1
    BY <2>1
  <2>5. QED
    BY <2>3, <2>4
<1>2. DOMAIN f = header /\ \A c \in header : f[c] = c
  OBVIOUS
<1> HIDE DEF f
<1>3. \A n \in header : /\ Rank(n, header) \in DOMAIN Listed(f)
                        /\ Listed(f)[Rank(n, header)] = n
  BY <1>1, <1>2, ListedAt
<1>4. ASSUME NEW c \in Columns, 1 .. c \subseteq header
      PROVE  c \in DOMAIN Listed(f) /\ Listed(f)[c] = c
  <2>1. c \in Nat /\ c >= 1 /\ c \in header
    BY <1>4, TablesAssumption DEF Columns
  <2>2. {m \in header : m <= c} = 1 .. c
    <3>1. \A m \in header : m \in Nat /\ m >= 1
      BY <1>1
    <3>2. \A m \in header : m <= c => m \in 1 .. c
      BY <2>1, <3>1
    <3>3. \A m \in 1 .. c : m \in header /\ m <= c
      BY <1>4
    <3>4. QED
      BY <3>2, <3>3
  <2>3. Rank(c, header) = c
    <3>1. Cardinality(1 .. c) = c
      BY <2>1, FS_Interval
    <3>2. QED
      BY <2>2, <3>1 DEF Rank
  <2>4. QED
    BY <1>3, <2>1, <2>3
<1>5. QED
  BY <1>4 DEF f

LEMMA SheetsAgree ==
    ASSUME NEW header \in SUBSET Columns, NEW row \in SUBSET Columns
    PROVE  /\ row \subseteq header /\ (\A c \in header : \A d \in 1 .. c : d \in header)
                => ParseXLSX(header, row) = ProcessWorksheet(header, row)
           /\ \A cell \in ParseXLSX(header, row) \ ProcessWorksheet(header, row) :
                ~ \A d \in 1 .. cell[2] : d \in header
<1> DEFINE headers == Listed([c \in header |-> c])
<1>1. \A c \in Columns : 1 .. c \subseteq header => c \in DOMAIN headers /\ headers[c] = c
  BY HeaderNumbers
<1>2. ParseXLSX(header, row) = {<<<<"h", headers[c]>>, c>> : c \in row \cap DOMAIN headers}
  BY DEF ParseXLSX
<1>3. ProcessWorksheet(header, row) = {<<<<IF c \in header THEN "h" ELSE "c", c>>, c>> : c \in row}
  BY DEF ProcessWorksheet
<1> HIDE DEF headers
<1>4. ASSUME row \subseteq header, \A c \in header : \A d \in 1 .. c : d \in header
      PROVE  ParseXLSX(header, row) = ProcessWorksheet(header, row)
  <2>1. \A c \in row : c \in DOMAIN headers /\ headers[c] = c /\ c \in header
    BY <1>1, <1>4
  <2>2. row \cap DOMAIN headers = row
    BY <2>1
  <2>3. ParseXLSX(header, row) = {<<<<"h", c>>, c>> : c \in row}
    BY <1>2, <2>1, <2>2
  <2>4. ProcessWorksheet(header, row) = {<<<<"h", c>>, c>> : c \in row}
    BY <1>3, <2>1
  <2>5. QED
    BY <2>3, <2>4
<1>5. ASSUME NEW cell \in ParseXLSX(header, row), \A d \in 1 .. cell[2] : d \in header
      PROVE  cell \in ProcessWorksheet(header, row)
  <2>1. PICK c \in row \cap DOMAIN headers : cell = <<<<"h", headers[c]>>, c>>
    BY <1>2
  <2>2. c \in Columns /\ cell[2] = c
    BY <2>1
  <2>3. headers[c] = c
    BY <1>1, <1>5, <2>2
  <2>4. c \in header
    BY <1>5, <2>2, TablesAssumption DEF Columns
  <2>5. cell = <<<<IF c \in header THEN "h" ELSE "c", c>>, c>> /\ c \in row
    BY <2>1, <2>3, <2>4
  <2>6. QED
    BY <1>3, <2>5
<1>6. QED
  BY <1>4, <1>5

LEMMA TablesKeptNow ==
    ASSUME TablesInv, LatticeInv, StreamInv
    PROVE  TablesKept
<1> DEFINE last == Len(docLines)
<1>1. NoDoubleRule => LatticeTables = BetweenRules
  BY LatticeFinds
<1>2. StreamTables = RunsOfWords
  BY StreamFinds
<1> DEFINE rows == FlattenSeq(ExtractedTables)
<1>3. ASSUME OneTable
      PROVE  /\ Extracted
             /\ [i \in DOMAIN rows |-> rows[i].line] = Numbers(3, last - 1)
             /\ /\ docLines[2] = "header" /\ HeaderWindow >= 2 /\ ~ Line(last).cols >= 3
                /\ \A i \in DOMAIN rows : Line(rows[i].line).long
                => TabularData = Numbers(3, last - 1)
  <2> DEFINE c == Line(2).cols
             table == [j \in 1 .. last - 3 |-> [line |-> j + 2, fields |-> c]]
  <2>1. /\ NoDoubleRule /\ last - 3 \in Nat \ {0} /\ c \in {2, 3}
        /\ BetweenRules = <<table>>
    BY <1>3, OneTableFound
  <2>2. LatticeConfident(<<table>>) /\ FlattenSeq(<<table>>) = table
    BY <2>1, RegularConfident
  <2>3. Extracted /\ rows = table
    <3> HIDE DEF table
    <3>1. LatticeTables = <<table>>
      BY <1>1, <2>1
    <3>2. ByLattice
      BY <2>2, <3>1 DEF ByLattice
    <3>3. QED
      BY <2>2, <3>1, <3>2 DEF Extracted, ExtractedTables
  <2> HIDE DEF rows
  <2>4. DOMAIN rows = 1 .. last - 3 /\ \A i \in 1 .. last - 3 : rows[i].line = i + 2
    BY <2>3
  <2>5. last \in Nat /\ last - 1 - 3 + 1 = last - 3
    BY LenProperties DEF TablesInv
  <2>6. [i \in DOMAIN rows |-> rows[i].line] = Numbers(3, last - 1)
    <3>1. Numbers(3, last - 1) = [i \in 1 .. last - 3 |-> 3 + i - 1]
      BY <2>5 DEF Numbers
    <3>2. \A i \in 1 .. last - 3 : rows[i].line = 3 + i - 1
      BY <2>4
    <3>3. QED
      BY <2>4, <3>1, <3>2
  <2>7. ASSUME docLines[2] = "header", HeaderWindow >= 2, ~ Line(last).cols >= 3,
               \A i \in DOMAIN rows : Line(rows[i].line).long
        PROVE  TabularData = Numbers(3, last - 1)
    <3>1. ASSUME NEW n \in 3 .. last - 1
          PROVE  Line(n).long
      <4>1. n - 2 \in 1 .. last - 3 /\ n - 2 + 2 = n
        BY <2>5
      <4>2. rows[n - 2].line = n - 2 + 2 /\ n - 2 \in DOMAIN rows
        BY <2>4, <4>1
      <4>3. rows[n - 2].line = n
        BY <4>1, <4>2
      <4>4. QED
        BY <2>7, <4>2, <4>3
    <3>2. QED
      BY <1>3, <2>7, <3>1, OneTableRead
  <2>8. QED
    BY <2>3, <2>6, <2>7
<1>4. ASSUME NEW r \in 2 .. Len(sheet)
      PROVE  sheet[1] \in SUBSET Columns /\ sheet[r] \in SUBSET Columns
  <2>1. sheet \in Seq(SUBSET Columns) /\ Len(sheet) \in Nat
    BY LenProperties DEF TablesInv
  <2>2. 1 \in 1 .. Len(sheet) /\ r \in 1 .. Len(sheet)
    BY <2>1
  <2>3. QED
    BY <2>1, <2>2, ElementOfSeq
<1>5. \A r \in 2 .. Len(sheet) :
        LET header == sheet[1]
            prefix(c) == \A d \in 1 .. c : d \in header
        IN /\ sheet[r] \subseteq header /\ (\A c \in header : prefix(c))
                => ParseXLSX(header, sheet[r]) = ProcessWorksheet(header, sheet[r])
           /\ \A cell \in ParseXLSX(header, sheet[r]) \ ProcessWorksheet(header, sheet[r]) :
                ~ prefix(cell[2])
  BY <1>4, SheetsAgree
<1>6. QED
  BY <1>1, <1>2, <1>3, <1>5 DEF TablesKept, NoDoubleRule

\* What the loops have found depends on their own variables only.
LEMMA FoundUnchanged ==
    ASSUME LatticeInv, StreamInv,
           UNCHANGED <<docLines, latticeIn, latticeLines, latticeTables, streamLines, streamTables>>
    PROVE  LatticeInv' /\ StreamInv'
<1>1. /\ docLines' = docLines /\ latticeIn' = latticeIn /\ latticeLines' = latticeLines
      /\ latticeTables' = latticeTables /\ streamLines' = streamLines
      /\ streamTables' = streamTables
  OBVIOUS
<1>2. LatticeInv' <=> LatticeInv
  BY <1>1 DEF LatticeInv, NoDoubleRule, Rules, Opening, Closed, TableFrom, Until, Line
<1>3. StreamInv' <=> StreamInv
  BY <1>1 DEF StreamInv, Starts, Ended, RunEnd, TableAt, Run, HeaderLike, MultipleWords, Line
<1>4. QED
  BY <1>2, <1>3

LEMMA TablesFoundInit == TablesInit => TablesFound
<1> SUFFICES ASSUME TablesInit
             PROVE  TablesFound
  OBVIOUS
<1>1. /\ docLines = <<>> /\ latticeIn = FALSE /\ latticeLines = <<>> /\ latticeTables = <<>>
      /\ streamLines = <<>> /\ streamTables = <<>> /\ sheet = <<>>
  BY DEF TablesInit
<1>2. Len(docLines) = 0 /\ DOMAIN docLines = {}
  BY <1>1
<1>3. TablesInv
  <2>1. /\ <<>> \in Seq(DOMAIN LineKinds) /\ <<>> \in Seq(1 .. Len(docLines))
        /\ <<>> \in Seq(SUBSET Columns)
    OBVIOUS
  <2>2. Len(docLines) <= MaxLines
    BY <1>2, TablesAssumption
  <2>3. QED
    BY <1>1, <2>1, <2>2 DEF TablesInv
<1>4. LatticeInv
  <2>1. Rules = {} /\ Closed = {}
    BY <1>2 DEF Rules, Opening, Closed
  <2>2. Cardinality(Rules) = 0
    BY <2>1, FS_EmptySet
  <2>3. Listed([n \in Closed |-> TableFrom(n)]) = <<>>
    BY <2>1, ListedEmpty
  <2>4. ~ Cardinality(Rules) % 2 = 1
    BY <2>2
  <2>5. QED
    BY <1>1, <2>3, <2>4 DEF LatticeInv
<1>5. StreamInv
  <2>1. Ended = {}
    BY <1>2 DEF Starts, Ended
  <2>2. Listed([n \in Ended |-> TableAt(n)]) = <<>>
    BY <2>1, ListedEmpty
  <2>3. QED
    BY <1>1, <1>2, <2>2 DEF StreamInv
<1>6. QED
  BY <1>3, <1>4, <1>5 DEF TablesFound

LEMMA TablesFoundStep ==
    ASSUME TablesFound, [TablesNext]_tableVars
    PROVE  TablesFound'
<1>1. TablesInv' /\ TablesInv /\ LatticeInv /\ StreamInv
  BY TablesInvStep DEF TablesFound
<1>2. CASE NextLine
  <2>1. PICK kind \in DOMAIN LineKinds :
          /\ docLines' = Append(docLines, kind)
          /\ LatticeLine(docLines', Len(docLines'))
          /\ StreamLine(docLines', Len(docLines'))
    BY <1>2 DEF NextLine
  <2>2. NewLine(kind)
    BY <1>1, <2>1 DEF NewLine
  <2>3. LatticeInv'
    BY <1>1, <2>1, <2>2, LatticeInvStep
  <2>4. StreamInv'
    BY <1>1, <2>1, <2>2, StreamInvStep
  <2>5. QED
    BY <1>1, <2>3, <2>4 DEF TablesFound
<1>3. CASE ReadSheet \/ UNCHANGED tableVars
  <2>1. UNCHANGED <<docLines, latticeIn, latticeLines, latticeTables, streamLines, streamTables>>
    BY <1>3 DEF ReadSheet, tableVars
  <2>2. LatticeInv' /\ StreamInv'
    BY <1>1, <2>1, FoundUnchanged
  <2>3. QED
    BY <1>1, <2>2 DEF TablesFound
<1>4. QED
  BY <1>2, <1>3 DEF TablesNext

LEMMA TablesFoundAlways == TablesSpec => []TablesFound
<1>1. QED
  BY TablesFoundInit, TablesFoundStep, PTL DEF TablesSpec

(* Both loops keep numbers of lines that have been read, and the lattice loop  *)
(* keeps none outside a table.                                              *)
THEOREM TablesTypeCorrect == TablesSpec => []TablesTypeOK
<1>1. ASSUME TablesFound
      PROVE  TablesTypeOK
  <2>1. TablesInv
    BY <1>1 DEF TablesFound
  <2>2. DOMAIN docLines = 1 .. Len(docLines)
    BY <2>1, LenProperties DEF TablesInv
  <2>3. \A c \in DOMAIN sheet : sheet[c] \subseteq Columns
    <3>1. sheet \in Seq(SUBSET Columns) /\ DOMAIN sheet = 1 .. Len(sheet)
      BY <2>1, LenProperties DEF TablesInv
    <3>2. QED
      BY <3>1, ElementOfSeq
  <2>4. QED
    BY <2>1, <2>2, <2>3, ElementOfSeq, LenProperties DEF TablesInv, TablesTypeOK
<1>2. QED
  BY <1>1, TablesFoundAlways, PTL

(* However long the text and whatever its lines: if it ends here, both loops    *)
(* have found exactly the tables that a look at the whole of it finds (the one  *)
(* by rules, unless a rule follows another at once).  A regular table between   *)
(* two rules is extracted with all its rows, and the simpler reading agrees     *)
(* where it is meant to; the two readings of a worksheet agree where its        *)
(* headers leave no column out, and differ only behind a gap in them.           *)
THEOREM TablesTruthful == TablesSpec => []TablesKept
<1>1. ASSUME TablesFound
      PROVE  TablesKept
  BY <1>1, TablesKeptNow DEF TablesFound
<1>2. QED
  BY <1>1, TablesFoundAlways, PTL

-----------------------------------------------------------------------------
(* What the server counts of itself: the operators.                         *)

LEMMA Limits ==
    /\ AlertAfter \in Nat \ {0} /\ RateInverse \in Nat \ {0} /\ BufferLimit \in Nat \ {0}
    /\ SlowLimit \in Nat \ {0} /\ HistoryLimit \in Nat \ {0} /\ MaxSamples \in Nat
  BY MonitoringAssumption

\* A metric is pushed, and a full buffer flushed.
LEMMA TrackMetricKeeps ==
    ASSUME NEW d \in Datadog, Buffered(d)
    PROVE  TrackMetric(d) \in Datadog /\ Buffered(TrackMetric(d)) /\ TrackMetric(d).up = d.up
<1> DEFINE b == d.buffer + 1
           t == d.tracked + 1
           pushed == [d EXCEPT !.buffer = b, !.tracked = t]
           s == pushed.cleared + pushed.buffer
           flushed == [pushed EXCEPT !.buffer = 0, !.cleared = s]
<1>1. /\ d.up \in {"no", "yes", "flushed"} /\ d.buffer \in Nat /\ d.cleared \in Nat
      /\ d.tracked \in Nat
  BY DEF Datadog
<1>2. b \in Nat /\ t \in Nat
  BY <1>1
<1> HIDE DEF b, t
<1>3. /\ pushed \in Datadog /\ pushed.up = d.up /\ pushed.buffer = b
      /\ pushed.cleared = d.cleared /\ pushed.tracked = t
  BY <1>2 DEF Datadog
<1> HIDE DEF pushed
<1>4. s \in Nat
  BY <1>1, <1>2, <1>3
<1> HIDE DEF s
<1>5. /\ flushed \in Datadog /\ flushed.up = d.up /\ flushed.buffer = 0
      /\ flushed.cleared = s /\ flushed.tracked = t
  BY <1>3, <1>4 DEF Datadog
<1> HIDE DEF flushed
<1>6. TrackMetric(d) = IF pushed.buffer >= BufferLimit THEN flushed ELSE pushed
  BY DEF TrackMetric, Full, FlushMetrics, pushed, flushed, b, t, s
<1>7. CASE pushed.buffer >= BufferLimit
  BY <1>1, <1>3, <1>5, <1>6, <1>7, Limits DEF Buffered, b, t, s
<1>8. CASE ~ (pushed.buffer >= BufferLimit)
  BY <1>1, <1>2, <1>3, <1>6, <1>8, Limits DEF Buffered, b, t
<1>9. QED
  BY <1>7, <1>8

LEMMA TrackMetricsKeeps ==
    ASSUME NEW d \in Datadog, Buffered(d), NEW n \in 1 .. 4
    PROVE  TrackMetrics(d, n) \in Datadog /\ Buffered(TrackMetrics(d, n))
<1> DEFINE one == TrackMetric(d)
           two == TrackMetric(one)
           three == TrackMetric(two)
           four == TrackMetric(three)
<1>1. one \in Datadog /\ Buffered(one)
  BY TrackMetricKeeps
<1> HIDE DEF one
<1>2. two \in Datadog /\ Buffered(two)
  BY <1>1, TrackMetricKeeps
<1> HIDE DEF two
<1>3. three \in Datadog /\ Buffered(three)
  BY <1>2, TrackMetricKeeps
<1> HIDE DEF three
<1>4. four \in Datadog /\ Buffered(four)
  BY <1>3, TrackMetricKeeps
<1>5. TrackMetrics(d, n) = IF d.up = "no" THEN d ELSE <<one, two, three, four>>[n]
  BY DEF TrackMetrics, one, two, three
<1> HIDE DEF four
<1>6. <<one, two, three, four>>[n] \in {one, two, three, four}
  <2>1. n = 1 \/ n = 2 \/ n = 3 \/ n = 4
    OBVIOUS
  <2>2. QED
    BY <2>1
<1>7. QED
  BY <1>1, <1>2, <1>3, <1>4, <1>5, <1>6

\* The last of a sequence that one has been appended to.
LastOfAppend(last, S, s, e, gone) ==
    /\ last \in Seq(S) /\ Len(last) = Len(s) + 1 - gone
    /\ last[Len(last)] = e
    /\ \A i \in 1 .. Len(last) - 1 : last[i] = s[i + gone]

LEMMA LastOnesOfAppend ==
    ASSUME NEW S, NEW s \in Seq(S), NEW e \in S, NEW limit \in Nat \ {0}, Len(s) <= limit
    PROVE  LastOfAppend(LastOnes(Append(s, e), limit), S, s, e, IF Len(s) = limit THEN 1 ELSE 0)
<1> DEFINE a == Append(s, e)
           shift == IF Len(s) = limit THEN 1 ELSE 0
           l == SubSeq(a, shift + 1, Len(a))
<1>1. /\ a \in Seq(S) /\ Len(a) = Len(s) + 1 /\ Len(s) \in Nat
      /\ a[Len(s) + 1] = e /\ \A i \in 1 .. Len(s) : a[i] = s[i]
  <2>1. /\ Append(s, e) \in Seq(S) /\ Len(Append(s, e)) = Len(s) + 1
        /\ Append(s, e)[Len(s) + 1] = e
        /\ \A i \in 1 .. Len(s) : Append(s, e)[i] = s[i]
    BY AppendProperties
  <2>2. Len(s) \in Nat
    BY LenProperties
  <2>3. QED
    BY <2>1, <2>2
<1> HIDE DEF a
<1>2. shift \in {0, 1} /\ (shift = 1 => Len(s) = limit) /\ (shift = 0 => Len(s) < limit)
  BY <1>1
<1>3. LastOnes(a, limit) = l
  <2>1. (IF Len(a) > limit THEN Len(a) - limit + 1 ELSE 1) = shift + 1
    BY <1>1, <1>2
  <2>2. QED
    BY <2>1 DEF LastOnes
<1> HIDE DEF shift
<1>4. /\ l \in Seq(S) /\ Len(l) = Len(s) + 1 - shift
      /\ \A i \in 1 .. Len(s) + 1 - shift : l[i] = a[shift + i]
  <2>1. \A i \in shift + 1 .. Len(a) : i \in 1 .. Len(a)
    BY <1>1, <1>2
  <2>2. \A i \in shift + 1 .. Len(a) : a[i] \in S
    BY <1>1, <2>1, ElementOfSeq
  <2>3. /\ l \in Seq(S)
        /\ Len(l) = IF shift + 1 <= Len(a) THEN Len(a) - (shift + 1) + 1 ELSE 0
        /\ \A i \in 1 .. Len(a) - (shift + 1) + 1 : l[i] = a[shift + 1 + i - 1]
    BY <1>1, <1>2, <2>1, <2>2, SubSeqProperties
  <2>4. Len(a) - (shift + 1) + 1 = Len(s) + 1 - shift /\ shift + 1 <= Len(a)
    BY <1>1, <1>2, Limits
  <2>5. \A i \in 1 .. Len(s) + 1 - shift : shift + 1 + i - 1 = shift + i
    BY <1>1, <1>2
  <2>6. QED
    BY <2>3, <2>4, <2>5
<1> HIDE DEF l
<1>5. l[Len(l)] = e
  <2>1. Len(l) \in 1 .. Len(s) + 1 - shift /\ shift + Len(l) = Len(s) + 1
    BY <1>1, <1>2, <1>4
  <2>2. QED
    BY <1>1, <1>4, <2>1
<1>6. \A i \in 1 .. Len(l) - 1 : l[i] = s[i + shift]
  <2>1. ASSUME NEW i \in 1 .. Len(l) - 1
        PROVE  l[i] = s[i + shift]
    <3>1. i \in 1 .. Len(s) + 1 - shift /\ shift + i \in 1 .. Len(s) /\ shift + i = i + shift
      BY <1>1, <1>2, <1>4
    <3>2. QED
      BY <1>1, <1>4, <3>1
  <2>2. QED
    BY <2>1
<1>7. QED
  BY <1>3, <1>4, <1>5, <1>6 DEF a, shift, LastOfAppend

-----------------------------------------------------------------------------
(* What is measured of the requests that are answered.                      *)

LEMMA SumsUnique ==
    ASSUME answered \in Seq(Answer), NEW p, NEW f, NEW g, Sums(f, p), Sums(g, p)
    PROVE  f = g
<1> DEFINE N == Len(answered)
           S == {n \in 0 .. N : f[n] # g[n]}
<1>1. N \in Nat
  BY LenProperties
<1>2. /\ \A n \in 0 .. N : f[n] = IF n = 0 THEN 0
                                  ELSE f[n - 1]
                                       + (IF answered[n].path = p THEN answered[n].time ELSE 0)
      /\ \A n \in 0 .. N : g[n] = IF n = 0 THEN 0
                                  ELSE g[n - 1]
                                       + (IF answered[n].path = p THEN answered[n].time ELSE 0)
      /\ f = [n \in 0 .. N |-> f[n]] /\ g = [n \in 0 .. N |-> g[n]]
  BY DEF Sums
<1> HIDE DEF N
<1>3. ASSUME S # {}
      PROVE  FALSE
  <2>1. S \subseteq Nat
    BY <1>1
  <2>2. PICK n \in S : \A m \in S : n <= m
    BY <1>3, <2>1, LeastExists
  <2>3. n \in 0 .. N /\ f[n] # g[n]
    OBVIOUS
  <2>4. n # 0
    BY <1>2, <2>3
  <2>5. n - 1 \in 0 .. N /\ n - 1 \notin S
    BY <1>1, <2>2, <2>3, <2>4
  <2>6. f[n - 1] = g[n - 1]
    BY <2>5
  <2>7. QED
    BY <1>2, <2>3, <2>4, <2>6
<1>4. \A n \in 0 .. N : f[n] = g[n]
  BY <1>3
<1>5. QED
  BY <1>2, <1>4

LEMMA TimeOfPath ==
    ASSUME answered \in Seq(Answer), NEW p, NEW f, Sums(f, p)
    PROVE  TimeOf(p) = f[Len(answered)]
<1> DEFINE upTo[n \in 0 .. Len(answered)] ==
             IF n = 0 THEN 0
             ELSE upTo[n - 1] + (IF answered[n].path = p THEN answered[n].time ELSE 0)
<1>1. TimeOf(p) = upTo[Len(answered)]
  BY Zenon DEF TimeOf
<1>2. upTo = CHOOSE g : Sums(g, p)
  BY Zenon DEF upTo, Sums
<1> HIDE DEF upTo
<1>3. Sums(upTo, p)
  BY <1>2
<1>4. QED
  BY <1>1, <1>3, SumsUnique

LEMMA NothingMeasured ==
    answered = <<>> /\ perf = NoPerf => /\ answered \in Seq(Answer) /\ perf \in Perf
                                        /\ PathsMeasured /\ TimesBounded /\ SlowKept
<1> SUFFICES ASSUME answered = <<>>, perf = NoPerf
             PROVE  /\ answered \in Seq(Answer) /\ perf \in Perf
                    /\ PathsMeasured /\ TimesBounded /\ SlowKept
  OBVIOUS
<1>1. answered \in Seq(Answer) /\ Len(answered) = 0
  OBVIOUS
<1>2. perf \in Perf
  BY DEF NoPerf, Perf
<1>3. PathsMeasured
  <2>1. ASSUME NEW p \in Paths
        PROVE  /\ perf.perPath[p] = Cardinality(TimesOf(p))
               /\ \E f : Sums(f, p) /\ f[Len(answered)] = perf.timePerPath[p]
    <3>1. TimesOf(p) = {}
      BY <1>1 DEF TimesOf
    <3>2. perf.perPath[p] = 0 /\ perf.timePerPath[p] = 0
      BY DEF NoPerf
    <3> DEFINE f == [n \in 0 .. 0 |-> 0]
    <3>3. Sums(f, p) /\ f[0] = 0
      BY <1>1 DEF Sums
    <3>4. QED
      BY <1>1, <3>1, <3>2, <3>3, FS_EmptySet
  <2>2. QED
    BY <2>1 DEF PathsMeasured
<1>4. TimesBounded
  BY <1>1 DEF NoPerf, TimesBounded, Paths
<1>5. SlowKept
  <2>1. SlowOnes = {}
    BY <1>1 DEF SlowOnes
  <2>2. Len(perf.slow) = 0 /\ Cardinality(SlowOnes) = 0
    BY <2>1, FS_EmptySet DEF NoPerf
  <2>3. QED
    BY <2>1, <2>2, Limits DEF SlowKept, AtMostOf
<1>6. QED
  BY <1>1, <1>2, <1>3, <1>4, <1>5

LEMMA AnsweredGrows ==
    ASSUME answered \in Seq(Answer), NEW e \in Answer, answered' = Append(answered, e)
    PROVE  /\ answered' \in Seq(Answer) /\ Len(answered) \in Nat
           /\ Len(answered') = Len(answered) + 1
           /\ answered'[Len(answered) + 1] = e
           /\ \A i \in 1 .. Len(answered) : answered'[i] = answered[i]
<1>1. /\ Append(answered, e) \in Seq(Answer)
      /\ Len(Append(answered, e)) = Len(answered) + 1
      /\ Append(answered, e)[Len(answered) + 1] = e
      /\ \A i \in 1 .. Len(answered) : Append(answered, e)[i] = answered[i]
  BY AppendProperties
<1>2. Len(answered) \in Nat
  BY LenProperties
<1>3. QED
  BY <1>1, <1>2

LEMMA PathsMeasuredStep ==
    ASSUME MonitoringTyped, PathsMeasured, NEW p \in Paths, NEW time \in Times,
           answered' = Append(answered, [path |-> p, time |-> time]),
           perf' = Measured(p, time)
    PROVE  PathsMeasured'
<1> DEFINE N == Len(answered)
           e == [path |-> p, time |-> time]
<1>1. /\ N \in Nat /\ Len(answered') = N + 1 /\ answered'[N + 1].path = p
      /\ answered'[N + 1].time = time
      /\ \A i \in 1 .. N : answered'[i] = answered[i]
  <2>1. e \in Answer /\ e.path = p /\ e.time = time /\ answered' = Append(answered, e)
    BY DEF Answer
  <2> HIDE DEF e
  <2>2. QED
    BY <2>1, AnsweredGrows DEF MonitoringTyped
<1>2. perf.perPath \in [Paths -> Nat] /\ perf.timePerPath \in [Paths -> Nat]
  BY DEF MonitoringTyped, Perf
<1>3. /\ perf'.perPath = [perf.perPath EXCEPT ![p] = @ + 1]
      /\ perf'.timePerPath = [perf.timePerPath EXCEPT ![p] = @ + time]
  BY DEF Measured
<1> HIDE DEF N, e
<1>4. ASSUME NEW q \in Paths
      PROVE  perf'.perPath[q] = Cardinality(TimesOf(q)')
  <2>1. TimesOf(q)' = {i \in 1 .. N + 1 : q = answered'[i].path}
    BY <1>1 DEF TimesOf
  <2>2. TimesOf(q) = {i \in 1 .. N : q = answered[i].path}
    BY DEF TimesOf, N
  <2>3. IsFiniteSet(TimesOf(q))
    <3>1. IsFiniteSet(1 .. N)
      BY <1>1, FS_Interval
    <3>2. QED
      BY <2>2, <3>1, FS_Subset
  <2>4. N + 1 \notin TimesOf(q)
    BY <1>1, <2>2
  <2>5. TimesOf(q)' = IF q = p THEN TimesOf(q) \cup {N + 1} ELSE TimesOf(q)
    <3>1. \A i \in 1 .. N + 1 : i \in 1 .. N \/ i = N + 1
      BY <1>1
    <3>2. N + 1 \in 1 .. N + 1 /\ 1 .. N \subseteq 1 .. N + 1
      BY <1>1
    <3>3. QED
      BY <1>1, <2>1, <2>2, <3>1, <3>2
  <2>6. perf.perPath[q] = Cardinality(TimesOf(q))
    BY DEF PathsMeasured
  <2>7. QED
    <3>1. CASE q = p
      <4>1. Cardinality(TimesOf(q)') = Cardinality(TimesOf(q)) + 1
        BY <2>3, <2>4, <2>5, <3>1, FS_AddElement
      <4>2. perf'.perPath[q] = perf.perPath[q] + 1
        BY <1>2, <1>3, <3>1
      <4>3. QED
        BY <2>6, <4>1, <4>2
    <3>2. CASE q # p
      BY <1>2, <1>3, <2>5, <2>6, <3>2
    <3>3. QED
      BY <3>1, <3>2
<1>5. ASSUME NEW q \in Paths
      PROVE  \E f : Sums(f, q)' /\ f[Len(answered')] = perf'.timePerPath[q]
  <2>1. PICK g : Sums(g, q) /\ g[N] = perf.timePerPath[q]
    BY DEF PathsMeasured, N
  <2> DEFINE add(n) == IF answered'[n].path = q THEN answered'[n].time ELSE 0
  <2>2. \A n \in 0 .. N : g[n] = IF n = 0 THEN 0
                                 ELSE g[n - 1]
                                      + (IF answered[n].path = q THEN answered[n].time ELSE 0)
    BY <2>1 DEF Sums, N
  <2>3. \A n \in 0 .. N : g[n] = IF n = 0 THEN 0 ELSE g[n - 1] + add(n)
    <3>1. \A n \in 0 .. N : n # 0 => n \in 1 .. N
      BY <1>1
    <3>2. QED
      BY <1>1, <2>2, <3>1
  <2> HIDE DEF add
  <2>4. PICK f : f = [n \in 0 .. N + 1 |-> IF n <= N THEN g[n] ELSE g[N] + add(N + 1)]
    OBVIOUS
  <2>5. /\ \A n \in 0 .. N : f[n] = g[n]
        /\ f[N + 1] = g[N] + add(N + 1)
        /\ f = [n \in 0 .. N + 1 |-> f[n]]
    BY <1>1, <2>4
  <2>6. f = [n \in 0 .. N + 1 |-> IF n = 0 THEN 0 ELSE f[n - 1] + add(n)]
    <3>1. ASSUME NEW n \in 0 .. N + 1
          PROVE  f[n] = IF n = 0 THEN 0 ELSE f[n - 1] + add(n)
      <4>1. CASE n \in 0 .. N
        <5>1. n # 0 => n - 1 \in 0 .. N
          BY <1>1, <4>1
        <5>2. QED
          BY <2>3, <2>5, <4>1, <5>1
      <4>2. CASE n = N + 1
        <5>1. n - 1 = N /\ N \in 0 .. N /\ n # 0
          BY <1>1, <4>2
        <5>2. QED
          BY <2>5, <4>2, <5>1
      <4>3. QED
        BY <1>1, <4>1, <4>2
    <3>2. QED
      BY <2>5, <3>1
  <2>7. Sums(f, q)'
    <3>1. Sums(f, q)' <=> f = [n \in 0 .. Len(answered') |->
                                IF n = 0 THEN 0 ELSE f[n - 1] + add(n)]
      BY DEF Sums, add
    <3>2. QED
      BY <1>1, <2>6, <3>1
  <2>8. f[N + 1] = perf'.timePerPath[q]
    <3>1. add(N + 1) = IF p = q THEN time ELSE 0
      BY <1>1 DEF add
    <3>2. perf'.timePerPath[q] = IF p = q THEN perf.timePerPath[q] + time ELSE perf.timePerPath[q]
      BY <1>2, <1>3
    <3>3. perf.timePerPath[q] \in Nat
      BY <1>2
    <3>4. QED
      BY <2>1, <2>5, <3>1, <3>2, <3>3
  <2>9. QED
    BY <1>1, <2>7, <2>8
<1>6. QED
  BY <1>4, <1>5 DEF PathsMeasured

LEMMA SmallTimes ==
    ASSUME NEW a \in 0 .. 4, NEW b \in 0 .. 4, a <= b, NEW c \in Nat
    PROVE  a * c <= b * c /\ a * c \in Nat /\ a * (c + 1) = a * c + a
<1>1. a \in {0, 1, 2, 3, 4} /\ b \in {0, 1, 2, 3, 4}
  OBVIOUS
<1>2. ASSUME NEW x \in {0, 1, 2, 3, 4}
      PROVE  x * c \in Nat /\ x * (c + 1) = x * c + x
  BY <1>2
<1>3. /\ 0 * c <= 1 * c /\ 1 * c <= 2 * c /\ 2 * c <= 3 * c /\ 3 * c <= 4 * c
      /\ 0 * c <= 2 * c /\ 1 * c <= 3 * c /\ 2 * c <= 4 * c
      /\ 0 * c <= 3 * c /\ 1 * c <= 4 * c /\ 0 * c <= 4 * c
  OBVIOUS
<1>4. a * c <= b * c
  <2>1. CASE a = b
    BY <1>2, <1>1, <2>1
  <2>2. CASE a # b
    BY <1>1, <1>3, <2>2
  <2>3. QED
    BY <2>1, <2>2
<1>5. QED
  BY <1>1, <1>2, <1>4

LEMMA TimesBoundedStep ==
    ASSUME MonitoringTyped, TimesBounded, NEW p \in Paths, NEW time \in Times,
           answered' = Append(answered, [path |-> p, time |-> time]),
           perf' = Measured(p, time)
    PROVE  TimesBounded' /\ perf'.total \in Nat /\ perf'.count \in Nat
<1> DEFINE e == [path |-> p, time |-> time]
           c == perf.count
           t == perf.total
           M == perf'.max
           m == perf'.min
<1>1. /\ c \in Nat /\ t \in Nat /\ perf.max \in 0 .. 3 /\ perf.min \in 1 .. 4
      /\ perf.timePerPath \in [Paths -> Nat]
  BY DEF MonitoringTyped, Perf
<1>2. time \in 1 .. 3
  BY DEF Times
<1>3. /\ perf'.count = c + 1 /\ perf'.total = t + time
      /\ M = IF time > perf.max THEN time ELSE perf.max
      /\ m = IF time < perf.min THEN time ELSE perf.min
      /\ perf'.timePerPath = [perf.timePerPath EXCEPT ![p] = @ + time]
  BY DEF Measured
<1>4. perf'.count = Len(answered')
  <2>1. e \in Answer /\ answered' = Append(answered, e)
    BY DEF Answer
  <2> HIDE DEF e
  <2>2. Len(answered') = Len(answered) + 1
    BY <2>1, AnsweredGrows DEF MonitoringTyped
  <2>3. QED
    BY <1>3, <2>2 DEF TimesBounded
<1>5. perf'.total = perf'.timePerPath["task"] + perf'.timePerPath["health"]
                    + perf'.timePerPath["static"]
  <2> DEFINE x == perf.timePerPath["task"]
             y == perf.timePerPath["health"]
             z == perf.timePerPath["static"]
  <2>1. x \in Nat /\ y \in Nat /\ z \in Nat /\ t = x + y + z
    BY <1>1 DEF Paths, TimesBounded
  <2>2. /\ perf'.timePerPath["task"] = IF p = "task" THEN x + time ELSE x
        /\ perf'.timePerPath["health"] = IF p = "health" THEN y + time ELSE y
        /\ perf'.timePerPath["static"] = IF p = "static" THEN z + time ELSE z
    BY <1>1, <1>3 DEF Paths
  <2>3. p = "task" \/ p = "health" \/ p = "static"
    BY DEF Paths
  <2> HIDE DEF x, y, z, t
  <2>4. QED
    BY <1>2, <1>3, <2>1, <2>2, <2>3
<1>6. /\ m \in 0 .. 4 /\ M \in 0 .. 4 /\ m <= perf.min /\ perf.max <= M
      /\ m <= time /\ time <= M /\ perf.min \in 0 .. 4 /\ perf.max \in 0 .. 4
  BY <1>1, <1>2, <1>3
<1>7. perf.min * c <= t /\ t <= perf.max * c
  BY DEF TimesBounded
<1> HIDE DEF m, M, c, t
<1>8. /\ m * c <= perf.min * c /\ m * c \in Nat /\ m * (c + 1) = m * c + m
      /\ perf.min * c \in Nat
  BY <1>1, <1>6, SmallTimes
<1>9. /\ perf.max * c <= M * c /\ perf.max * c \in Nat /\ M * c \in Nat
      /\ M * (c + 1) = M * c + M
  BY <1>1, <1>6, SmallTimes
<1>10. m * (c + 1) <= t + time
  BY <1>1, <1>2, <1>6, <1>7, <1>8
<1>11. t + time <= M * (c + 1)
  BY <1>1, <1>2, <1>6, <1>7, <1>9
<1>12. perf'.min * perf'.count <= perf'.total /\ perf'.total <= perf'.max * perf'.count
  BY <1>3, <1>10, <1>11 DEF m, M
<1>13. QED
  BY <1>1, <1>2, <1>3, <1>4, <1>5, <1>12 DEF TimesBounded

LEMMA SlowCounted ==
    ASSUME answered \in Seq(Answer)
    PROVE  /\ SlowOnes \subseteq 1 .. Len(answered)
           /\ IsFiniteSet(SlowOnes) /\ Cardinality(SlowOnes) \in Nat
           /\ \A i : IsFiniteSet({j \in SlowOnes : j > i}) /\ SlowAfter(i) \in Nat
<1>1. Len(answered) \in Nat
  BY LenProperties
<1>2. IsFiniteSet(1 .. Len(answered))
  BY <1>1, FS_Interval
<1>3. SlowOnes \subseteq 1 .. Len(answered)
  BY DEF SlowOnes
<1>4. IsFiniteSet(SlowOnes)
  BY <1>2, <1>3, FS_Subset
<1>5. \A i : {j \in SlowOnes : j > i} \subseteq SlowOnes
  OBVIOUS
<1>6. \A i : IsFiniteSet({j \in SlowOnes : j > i})
  BY <1>4, <1>5, FS_Subset
<1>7. QED
  BY <1>3, <1>4, <1>6, FS_CardinalityType DEF SlowAfter

LEMMA SlowKeptStep ==
    ASSUME MonitoringTyped, SlowKept, NEW p \in Paths, NEW time \in Times,
           answered' = Append(answered, [path |-> p, time |-> time]),
           perf' = Measured(p, time)
    PROVE  SlowKept' /\ perf'.slow \in Seq(Times)
<1> DEFINE N == Len(answered)
           e == [path |-> p, time |-> time]
           slow == perf.slow
           new == perf'.slow
<1>1. /\ N \in Nat /\ Len(answered') = N + 1 /\ answered'[N + 1].time = time
      /\ \A i \in 1 .. N : answered'[i] = answered[i]
  <2>1. e \in Answer /\ e.time = time /\ answered' = Append(answered, e)
    BY DEF Answer
  <2> HIDE DEF e
  <2>2. QED
    BY <2>1, AnsweredGrows DEF MonitoringTyped
<1>2. new = IF time > SlowRequest THEN LastOnes(Append(slow, time), SlowLimit) ELSE slow
  BY DEF Measured
<1>3. slow \in Seq(Times) /\ Len(slow) \in Nat
  BY LenProperties DEF MonitoringTyped, Perf
<1> HIDE DEF N, e, slow, new
<1>4. /\ SlowOnes \subseteq 1 .. N /\ IsFiniteSet(SlowOnes) /\ Cardinality(SlowOnes) \in Nat
      /\ \A i : IsFiniteSet({j \in SlowOnes : j > i}) /\ SlowAfter(i) \in Nat
  BY SlowCounted DEF MonitoringTyped, N
<1>5. SlowOnes' = IF time > SlowRequest THEN SlowOnes \cup {N + 1} ELSE SlowOnes
  <2>1. SlowOnes' = {i \in 1 .. N + 1 : answered'[i].time > SlowRequest}
    BY <1>1 DEF SlowOnes
  <2>2. SlowOnes = {i \in 1 .. N : answered[i].time > SlowRequest}
    BY DEF SlowOnes, N
  <2>3. \A i \in 1 .. N + 1 : i \in 1 .. N \/ i = N + 1
    BY <1>1
  <2>4. N + 1 \in 1 .. N + 1 /\ 1 .. N \subseteq 1 .. N + 1 /\ N + 1 \notin 1 .. N
    BY <1>1
  <2>5. QED
    BY <1>1, <2>1, <2>2, <2>3, <2>4
<1>6. /\ Len(slow) = AtMostOf(Cardinality(SlowOnes), SlowLimit)
      /\ \A i \in SlowOnes : SlowAfter(i) < SlowLimit =>
           /\ SlowAfter(i) < Len(slow)
           /\ slow[Len(slow) - SlowAfter(i)] = answered[i].time
  BY DEF SlowKept, slow
<1>7. CASE ~ (time > SlowRequest)
  <2>1. SlowOnes' = SlowOnes /\ new = slow
    BY <1>2, <1>5, <1>7
  <2>2. \A i : SlowAfter(i)' = SlowAfter(i)
    BY <2>1 DEF SlowAfter
  <2>3. \A i \in SlowOnes : answered'[i].time = answered[i].time
    BY <1>1, <1>4
  <2>4. QED
    BY <1>3, <1>6, <2>1, <2>2, <2>3 DEF SlowKept, new
<1>8. CASE time > SlowRequest
  <2>1. SlowOnes' = SlowOnes \cup {N + 1} /\ new = LastOnes(Append(slow, time), SlowLimit)
    BY <1>2, <1>5, <1>8
  <2>2. N + 1 \notin SlowOnes /\ \A i \in SlowOnes : i \in 1 .. N /\ N + 1 > i /\ ~ (i > N + 1)
    BY <1>1, <1>4
  <2>3. Cardinality(SlowOnes') = Cardinality(SlowOnes) + 1
    BY <1>4, <2>1, <2>2, FS_AddElement
  <2>4. \A i \in SlowOnes : SlowAfter(i)' = SlowAfter(i) + 1
    <3>1. ASSUME NEW i \in SlowOnes
          PROVE  SlowAfter(i)' = SlowAfter(i) + 1
      <4> DEFINE S == {j \in SlowOnes : j > i}
      <4>1. {j \in SlowOnes' : j > i} = S \cup {N + 1}
        BY <2>1, <2>2
      <4>2. N + 1 \notin S /\ IsFiniteSet(S)
        BY <1>4, <2>2
      <4>3. SlowAfter(i)' = Cardinality(S \cup {N + 1}) /\ SlowAfter(i) = Cardinality(S)
        BY <4>1 DEF SlowAfter
      <4> HIDE DEF S
      <4>4. QED
        BY <4>2, <4>3, FS_AddElement
    <3>2. QED
      BY <3>1
  <2>5. ASSUME NEW i, i = N + 1
        PROVE  SlowAfter(i)' = 0
    <3>1. {j \in SlowOnes' : j > i} = {}
      BY <1>1, <2>1, <2>2, <2>5
    <3>2. SlowAfter(i)' = Cardinality({j \in SlowOnes' : j > i})
      BY DEF SlowAfter
    <3>3. QED
      BY <3>1, <3>2, FS_EmptySet
  <2> DEFINE len == Len(slow)
             shift == IF len = SlowLimit THEN 1 ELSE 0
  <2>6. len \in Nat /\ len <= SlowLimit
    BY <1>3, <1>4, <1>6, Limits DEF AtMostOf
  <2>7. /\ new \in Seq(Times) /\ Len(new) = len + 1 - shift
        /\ new[Len(new)] = time
        /\ \A i \in 1 .. Len(new) - 1 : new[i] = slow[i + shift]
    <3>1. /\ new = LastOnes(Append(slow, time), SlowLimit)
          /\ shift = IF Len(slow) = SlowLimit THEN 1 ELSE 0
          /\ slow \in Seq(Times) /\ time \in Times /\ SlowLimit \in Nat \ {0}
          /\ Len(slow) <= SlowLimit
      BY <1>3, <2>1, <2>6, Limits
    <3> HIDE DEF shift
    <3>2. LastOfAppend(LastOnes(Append(slow, time), SlowLimit), Times, slow, time,
                       IF Len(slow) = SlowLimit THEN 1 ELSE 0)
      BY <3>1, LastOnesOfAppend
    <3>3. LastOfAppend(new, Times, slow, time, shift)
      BY <3>1, <3>2
    <3>4. QED
      BY <3>3 DEF LastOfAppend
  <2>8. shift \in {0, 1} /\ (shift = 1 <=> len = SlowLimit)
    OBVIOUS
  <2> HIDE DEF shift, len
  <2>9. Len(new) = AtMostOf(Cardinality(SlowOnes'), SlowLimit)
    <3>1. len = AtMostOf(Cardinality(SlowOnes), SlowLimit)
      BY <1>6 DEF len
    <3>2. QED
      BY <1>4, <2>3, <2>6, <2>7, <2>8, <3>1, Limits DEF AtMostOf
  <2>10. ASSUME NEW i \in SlowOnes', SlowAfter(i)' < SlowLimit
         PROVE  SlowAfter(i)' < Len(new) /\ new[Len(new) - SlowAfter(i)'] = answered'[i].time
    <3>1. CASE i = N + 1
      <4>1. SlowAfter(i)' = 0
        BY <2>5, <3>1
      <4>2. Len(new) - 0 = Len(new) /\ Len(new) > 0
        BY <2>6, <2>7, <2>8, Limits
      <4>3. QED
        BY <1>1, <2>7, <3>1, <4>1, <4>2
    <3>2. CASE i # N + 1
      <4> DEFINE after == SlowAfter(i)
      <4>1. i \in SlowOnes /\ after \in Nat /\ SlowAfter(i)' = after + 1
        BY <1>4, <2>1, <2>4, <3>2
      <4>2. answered'[i].time = answered[i].time
        BY <1>1, <2>2, <4>1
      <4>3. after < len /\ slow[len - after] = answered[i].time
        BY <1>6, <2>10, <4>1, Limits DEF len
      <4> HIDE DEF after
      <4>4. /\ after + 1 < Len(new)
            /\ Len(new) - (after + 1) \in 1 .. Len(new) - 1
            /\ Len(new) - (after + 1) + shift = len - after
        BY <2>6, <2>7, <2>8, <2>10, <4>1, <4>3, Limits
      <4>5. new[Len(new) - (after + 1)] = slow[len - after]
        BY <2>7, <4>4
      <4>6. QED
        BY <4>1, <4>2, <4>3, <4>4, <4>5
    <3>3. QED
      BY <3>1, <3>2
  <2>11. QED
    BY <2>7, <2>9, <2>10 DEF SlowKept, new
<1>9. QED
  BY <1>7, <1>8

LEMMA MonitoringInvInit == MonitoringInit => MonitoringInv
<1> SUFFICES ASSUME MonitoringInit
             PROVE  MonitoringInv
  OBVIOUS
<1>1. answered \in Seq(Answer) /\ perf \in Perf /\ PathsMeasured /\ TimesBounded /\ SlowKept
  BY NothingMeasured DEF MonitoringInit
<1>2. request \in [Requests -> Paths \cup {"unseen", "over"}]
  BY DEF MonitoringInit
<1>3. counts \in CountsType /\ CountsAdd
  BY DEF MonitoringInit, CountsType, CountsAdd
<1>4. datadog \in Datadog /\ Buffered(datadog)
  BY Limits DEF MonitoringInit, Datadog, Buffered
<1>5. SamplesInv
  <2>1. /\ history = <<>> /\ samples = 0 /\ collector = [s \in 1 .. MaxSamples |-> "none"]
        /\ metricsTable = [exists |-> FALSE, indexed |-> FALSE]
    BY DEF MonitoringInit
  <2>2. history \in Seq(Nat) /\ Len(history) = 0
    BY <2>1
  <2>3. SamplesTyped
    BY <2>1, <2>2, Limits DEF SamplesTyped
  <2>4. LastSamples
    BY <2>1, <2>2, Limits DEF LastSamples, AtMostOf
  <2>5. QED
    BY <2>3, <2>4 DEF SamplesInv
<1>6. QED
  BY <1>1, <1>2, <1>3, <1>4, <1>5 DEF MonitoringInv, RequestsInv, MonitoringTyped

\* Steps that answer no request keep what has been measured.
LEMMA MeasuresStay ==
    ASSUME PathsMeasured, TimesBounded, SlowKept, UNCHANGED <<perf, answered>>
    PROVE  PathsMeasured' /\ TimesBounded' /\ SlowKept'
<1>1. \A p : TimesOf(p)' = TimesOf(p)
  BY DEF TimesOf
<1>2. \A f, p : Sums(f, p)' <=> Sums(f, p)
  BY DEF Sums
<1>3. PathsMeasured'
  BY <1>1, <1>2 DEF PathsMeasured
<1>4. TimesBounded'
  BY DEF TimesBounded
<1>5. SlowOnes' = SlowOnes
  BY DEF SlowOnes
<1>6. \A i : SlowAfter(i)' = SlowAfter(i)
  BY <1>5 DEF SlowAfter
<1>7. SlowKept'
  BY <1>5, <1>6 DEF SlowKept
<1>8. QED
  BY <1>3, <1>4, <1>7

LEMMA AnswerMeasured ==
    ASSUME RequestsInv, NEW p \in Paths, NEW time \in Times,
           answered' = Append(answered, [path |-> p, time |-> time]),
           perf' = Measured(p, time)
    PROVE  /\ answered' \in Seq(Answer) /\ perf' \in Perf
           /\ PathsMeasured' /\ TimesBounded' /\ SlowKept'
<1>1. MonitoringTyped /\ PathsMeasured /\ TimesBounded /\ SlowKept
  BY DEF RequestsInv
<1>2. PathsMeasured'
  BY <1>1, PathsMeasuredStep
<1>3. TimesBounded' /\ perf'.total \in Nat /\ perf'.count \in Nat
  BY <1>1, TimesBoundedStep
<1>4. SlowKept' /\ perf'.slow \in Seq(Times)
  BY <1>1, SlowKeptStep
<1>5. answered' \in Seq(Answer)
  <2> DEFINE e == [path |-> p, time |-> time]
  <2>1. e \in Answer /\ answered' = Append(answered, e) /\ answered \in Seq(Answer)
    BY <1>1 DEF Answer, MonitoringTyped
  <2> HIDE DEF e
  <2>2. QED
    BY <2>1, AnsweredGrows
<1>6. perf' \in Perf
  <2>1. /\ perf.max \in 0 .. 3 /\ perf.min \in 1 .. 4 /\ time \in 1 .. 3
        /\ perf.perPath \in [Paths -> Nat] /\ perf.timePerPath \in [Paths -> Nat]
    BY <1>1 DEF MonitoringTyped, Perf, Times
  <2>2. /\ perf'.max = (IF time > perf.max THEN time ELSE perf.max)
        /\ perf'.min = (IF time < perf.min THEN time ELSE perf.min)
        /\ perf'.perPath = [perf.perPath EXCEPT ![p] = @ + 1]
        /\ perf'.timePerPath = [perf.timePerPath EXCEPT ![p] = @ + time]
        /\ perf' = [count |-> perf'.count, total |-> perf'.total, max |-> perf'.max,
                    min |-> perf'.min, perPath |-> perf'.perPath,
                    timePerPath |-> perf'.timePerPath, slow |-> perf'.slow]
    BY DEF Measured
  <2>3. perf'.max \in 0 .. 3 /\ perf'.min \in 1 .. 4
    BY <2>1, <2>2
  <2>4. perf'.perPath \in [Paths -> Nat] /\ perf'.timePerPath \in [Paths -> Nat]
    BY <2>1, <2>2
  <2>5. QED
    BY <1>3, <1>4, <2>2, <2>3, <2>4 DEF Perf
<1>7. QED
  BY <1>2, <1>3, <1>4, <1>5, <1>6

LEMMA CountedAdds ==
    ASSUME RequestsInv, NEW ok \in BOOLEAN, counts' = Counted(ok),
           \/ alerts' = alerts
           \/ RateExceeded(counts') /\ alerts' = alerts \cup {counts'}
    PROVE  counts' \in CountsType /\ CountsAdd'
<1> DEFINE s == counts.success + (IF ok THEN 1 ELSE 0)
           e == counts.error + (IF ok THEN 0 ELSE 1)
           t == counts.total + 1
<1>1. /\ counts.success \in Nat /\ counts.error \in Nat /\ counts.total \in Nat
      /\ counts \in CountsType
  BY DEF RequestsInv, MonitoringTyped, CountsType
<1>2. s \in Nat /\ e \in Nat /\ t \in Nat /\ s + e = t
  BY <1>1 DEF RequestsInv, CountsAdd
<1>3. counts' = [counts EXCEPT !.total = t, !.success = s, !.error = e]
  BY DEF Counted
<1> HIDE DEF s, e, t
<1>4. /\ counts' \in CountsType /\ counts'.success = s /\ counts'.error = e /\ counts'.total = t
  BY <1>1, <1>2, <1>3 DEF CountsType
<1>5. \A a \in alerts' : a.total >= AlertAfter /\ a.error * RateInverse > a.total
  BY DEF RequestsInv, CountsAdd, RateExceeded
<1>6. QED
  BY <1>2, <1>4, <1>5 DEF CountsAdd

LEMMA EndRequestStep ==
    ASSUME RequestsInv, NEW r \in Requests, EndRequest(r)
    PROVE  RequestsInv'
<1> DEFINE p == request[r]
           tracked == p # "health"
<1>1. PICK time \in Times, ok \in BOOLEAN :
        /\ IF tracked
           THEN /\ counts' = Counted(ok)
                /\ alerts' = IF RateExceeded(Counted(ok)) THEN alerts \cup {Counted(ok)} ELSE alerts
                /\ datadog' = TrackMetrics(datadog, IF time > SlowApi THEN 3 ELSE 2)
           ELSE UNCHANGED <<counts, alerts, datadog>>
        /\ IF p # "static"
           THEN /\ perf' = Measured(p, time)
                /\ answered' = Append(answered, [path |-> p, time |-> time])
           ELSE UNCHANGED <<perf, answered>>
  BY DEF EndRequest
<1>2. p \in Paths /\ request' = [request EXCEPT ![r] = "over"]
  BY DEF EndRequest
<1>3. request' \in [Requests -> Paths \cup {"unseen", "over"}]
  BY <1>2 DEF RequestsInv, MonitoringTyped
<1>4. counts' \in CountsType /\ CountsAdd'
  <2>1. CASE tracked
    BY <1>1, <2>1, CountedAdds
  <2>2. CASE ~ tracked
    BY <1>1, <2>2 DEF RequestsInv, MonitoringTyped, CountsAdd
  <2>3. QED
    BY <2>1, <2>2
<1>5. datadog' \in Datadog /\ Buffered(datadog')
  <2>1. datadog \in Datadog /\ Buffered(datadog)
    BY DEF RequestsInv, MonitoringTyped
  <2>2. PICK n \in 1 .. 4 : n = IF time > SlowApi THEN 3 ELSE 2
    OBVIOUS
  <2>3. TrackMetrics(datadog, n) \in Datadog /\ Buffered(TrackMetrics(datadog, n))
    BY <2>1, TrackMetricsKeeps
  <2>4. datadog' = TrackMetrics(datadog, n) \/ datadog' = datadog
    BY <1>1, <2>2
  <2>5. QED
    BY <2>1, <2>3, <2>4
<1> HIDE DEF p
<1>6. /\ answered' \in Seq(Answer) /\ perf' \in Perf
      /\ PathsMeasured' /\ TimesBounded' /\ SlowKept'
  <2>1. CASE p # "static"
    BY <1>1, <1>2, <2>1, AnswerMeasured
  <2>2. CASE p = "static"
    <3>1. UNCHANGED <<perf, answered>>
      BY <1>1, <2>2
    <3>2. QED
      BY <3>1, MeasuresStay DEF RequestsInv, MonitoringTyped
  <2>3. QED
    BY <2>1, <2>2
<1>7. QED
  BY <1>3, <1>4, <1>5, <1>6 DEF RequestsInv, MonitoringTyped, Buffered

\* Steps of the buffer, and others that answer nothing.
LEMMA QuietRequestsStep ==
    ASSUME RequestsInv, UNCHANGED <<perf, answered, alerts>>,
           request' \in [Requests -> Paths \cup {"unseen", "over"}],
           counts' \in CountsType,
           counts'.total = counts.total, counts'.success = counts.success,
           counts'.error = counts.error,
           datadog' \in Datadog, Buffered(datadog')
    PROVE  RequestsInv'
<1>1. PathsMeasured' /\ TimesBounded' /\ SlowKept'
  BY MeasuresStay DEF RequestsInv
<1>2. CountsAdd'
  BY DEF RequestsInv, CountsAdd
<1>3. QED
  BY <1>1, <1>2 DEF RequestsInv, MonitoringTyped, Buffered

LEMMA RequestsInvStep ==
    ASSUME RequestsInv, RequestsNext
    PROVE  RequestsInv'
<1>1. /\ request \in [Requests -> Paths \cup {"unseen", "over"}] /\ counts \in CountsType
      /\ datadog \in Datadog /\ Buffered(datadog)
  BY DEF RequestsInv, MonitoringTyped
<1>2. \A n \in 1 .. 4 : TrackMetrics(datadog, n) \in Datadog /\ Buffered(TrackMetrics(datadog, n))
  BY <1>1, TrackMetricsKeeps
<1>3. CASE InitializeMonitoring
  <2> DEFINE up == [datadog EXCEPT !.up = "yes"]
  <2>1. up \in Datadog /\ up.buffer = datadog.buffer /\ up.cleared = datadog.cleared
        /\ up.tracked = datadog.tracked
    BY <1>1 DEF Datadog
  <2>2. datadog' = TrackMetrics(up, 4) /\ UNCHANGED requestVars
    BY <1>3 DEF InitializeMonitoring
  <2> HIDE DEF up
  <2>3. Buffered(up) /\ 4 \in 1 .. 4
    BY <1>1, <2>1 DEF Buffered
  <2>4. datadog' \in Datadog /\ Buffered(datadog')
    BY <2>1, <2>2, <2>3, TrackMetricsKeeps
  <2>5. QED
    BY <1>1, <2>2, <2>4, QuietRequestsStep DEF requestVars
<1>4. CASE TrackSystemResources
  <2>1. datadog' = TrackMetrics(datadog, 4) /\ UNCHANGED requestVars /\ 4 \in 1 .. 4
    BY <1>4 DEF TrackSystemResources
  <2>2. QED
    BY <1>1, <1>2, <2>1, QuietRequestsStep DEF requestVars
<1>5. ASSUME NEW slow \in BOOLEAN, TrackDatabaseQuery(slow)
      PROVE  RequestsInv'
  <2>1. PICK n \in 1 .. 4 : datadog' = TrackMetrics(datadog, n)
    BY <1>5 DEF TrackDatabaseQuery
  <2>2. UNCHANGED requestVars
    BY <1>5 DEF TrackDatabaseQuery
  <2>3. QED
    BY <1>1, <1>2, <2>1, <2>2, QuietRequestsStep DEF requestVars
<1>6. CASE ShutDownMonitoring
  <2> DEFINE s == datadog.cleared + datadog.buffer
  <2>1. datadog' = [datadog EXCEPT !.buffer = 0, !.cleared = s, !.up = "flushed"]
        /\ UNCHANGED requestVars
    BY <1>6 DEF ShutDownMonitoring, FlushMetrics
  <2>2. datadog.buffer \in Nat /\ datadog.cleared \in Nat /\ datadog.tracked \in Nat
        /\ s = datadog.tracked /\ s \in Nat
    BY <1>1 DEF Datadog, Buffered
  <2> HIDE DEF s
  <2>3. datadog' \in Datadog /\ datadog'.buffer = 0 /\ datadog'.cleared = s
        /\ datadog'.tracked = datadog.tracked
    BY <1>1, <2>1, <2>2 DEF Datadog
  <2>4. Buffered(datadog')
    BY <2>2, <2>3, Limits DEF Buffered
  <2>5. QED
    BY <1>1, <2>1, <2>3, <2>4, QuietRequestsStep DEF requestVars
<1>7. ASSUME NEW r \in Requests, BeginRequest(r)
      PROVE  RequestsInv'
  <2>1. request' \in [Requests -> Paths \cup {"unseen", "over"}]
        /\ UNCHANGED <<perf, answered, counts, alerts, datadog>>
    BY <1>1, <1>7 DEF BeginRequest
  <2>2. QED
    BY <1>1, <2>1, QuietRequestsStep
<1>8. CASE TrackError
  <2>1. /\ counts' = [counts EXCEPT !.errors = @ + 1, !.critical = @ + 1]
        /\ datadog' = TrackMetrics(datadog, 1) /\ UNCHANGED <<request, perf, answered, alerts>>
        /\ 1 \in 1 .. 4
    BY <1>8 DEF TrackError
  <2>2. counts.errors + 1 \in Nat /\ counts.critical + 1 \in Nat
    BY <1>1 DEF CountsType
  <2>3. /\ counts' \in CountsType /\ counts'.total = counts.total
        /\ counts'.success = counts.success /\ counts'.error = counts.error
    BY <1>1, <2>1, <2>2 DEF CountsType
  <2>4. QED
    BY <1>1, <1>2, <2>1, <2>3, QuietRequestsStep
<1>9. CASE ResetPerformanceMetrics
  <2>1. answered' = <<>> /\ perf' = NoPerf /\ UNCHANGED <<request, counts, alerts, datadog>>
    BY <1>9 DEF ResetPerformanceMetrics
  <2>2. (answered = <<>> /\ perf = NoPerf => /\ answered \in Seq(Answer) /\ perf \in Perf
                                             /\ PathsMeasured /\ TimesBounded /\ SlowKept)'
    BY NothingMeasured, PTL
  <2>3. /\ answered' \in Seq(Answer) /\ perf' \in Perf
        /\ PathsMeasured' /\ TimesBounded' /\ SlowKept'
    BY <2>1, <2>2 DEF NoPerf
  <2>4. QED
    BY <2>1, <2>3 DEF RequestsInv, MonitoringTyped, CountsAdd, Buffered
<1>10. QED
  BY <1>3, <1>4, <1>5, <1>6, <1>7, <1>8, <1>9, EndRequestStep DEF RequestsNext

\* Where the collection of a sample goes, and what becomes of the table.
LEMMA CollectionStep ==
    ASSUME SamplesInv, NEW s \in 1 .. MaxSamples,
           NEW label \in {"create", "index", "insert", "over"}, Collect(s, label),
           metricsTable' \in [exists : BOOLEAN, indexed : BOOLEAN],
           metricsTable.exists => metricsTable'.exists,
           metricsTable'.indexed => metricsTable'.exists,
           label = "index" => metricsTable'.exists,
           UNCHANGED <<history, samples>>
    PROVE  SamplesInv'
<1>1. /\ collector' = [collector EXCEPT ![s] = label]
      /\ collector \in [1 .. MaxSamples -> {"none", "check", "create", "index", "insert", "over"}]
  BY DEF Collect, SamplesInv, SamplesTyped
<1>2. collector' \in [1 .. MaxSamples -> {"none", "check", "create", "index", "insert", "over"}]
  BY <1>1
<1>3. \A t \in 1 .. MaxSamples : collector'[t] = "index" => metricsTable'.exists
  BY <1>1 DEF SamplesInv, SamplesTyped
<1>4. SamplesTyped'
  BY <1>2, <1>3 DEF SamplesInv, SamplesTyped
<1>5. LastSamples'
  BY DEF SamplesInv, LastSamples
<1>6. QED
  BY <1>4, <1>5 DEF SamplesInv

LEMMA SamplesInvStep ==
    ASSUME SamplesInv, SamplesNext
    PROVE  SamplesInv'
<1>1. /\ metricsTable \in [exists : BOOLEAN, indexed : BOOLEAN]
      /\ metricsTable.indexed => metricsTable.exists
      /\ \A s \in 1 .. MaxSamples : collector[s] = "index" => metricsTable.exists
  BY DEF SamplesInv, SamplesTyped
<1>2. CASE CollectPerformanceMetrics
  <2> DEFINE n == samples + 1
             len == Len(history)
             gone == IF Len(history) = HistoryLimit THEN 1 ELSE 0
             new == history'
  <2>1. /\ samples < MaxSamples /\ samples' = n
        /\ new = LastOnes(Append(history, n), HistoryLimit)
        /\ collector' = [collector EXCEPT ![n] = "check"] /\ UNCHANGED metricsTable
    BY <1>2 DEF CollectPerformanceMetrics, Collect
  <2>2. samples \in Nat /\ n \in Nat /\ n \in 1 .. MaxSamples /\ history \in Seq(Nat) /\ len \in Nat
    BY <2>1, Limits, LenProperties DEF SamplesInv, SamplesTyped
  <2>3. /\ len = (IF samples <= HistoryLimit THEN samples ELSE HistoryLimit)
        /\ \A i \in 1 .. len : history[i] = samples - len + i
    BY DEF SamplesInv, LastSamples, AtMostOf
  <2>4. Len(history) <= HistoryLimit /\ HistoryLimit \in Nat \ {0}
    BY <2>2, <2>3, Limits
  <2> HIDE DEF n, new
  <2>5. LastOfAppend(LastOnes(Append(history, n), HistoryLimit), Nat, history, n,
                     IF Len(history) = HistoryLimit THEN 1 ELSE 0)
    BY <2>2, <2>4, LastOnesOfAppend
  <2>6. LastOfAppend(new, Nat, history, n, gone)
    BY <2>1, <2>5
  <2>7. /\ new \in Seq(Nat) /\ Len(new) = len + 1 - gone /\ new[Len(new)] = n
        /\ \A i \in 1 .. Len(new) - 1 : new[i] = history[i + gone]
    BY <2>6 DEF LastOfAppend
  <2>8. gone \in {0, 1} /\ (gone = 1 <=> len = HistoryLimit)
    OBVIOUS
  <2> HIDE DEF gone, len
  <2>9. Len(new) = IF n <= HistoryLimit THEN n ELSE HistoryLimit
    BY <2>2, <2>3, <2>4, <2>7, <2>8, Limits DEF n
  <2>10. ASSUME NEW i \in 1 .. Len(new)
         PROVE  new[i] = n - Len(new) + i
    <3>1. CASE i = Len(new)
      BY <2>2, <2>7, <2>9, <3>1, Limits
    <3>2. CASE i # Len(new)
      <4>1. i \in 1 .. Len(new) - 1 /\ i + gone \in 1 .. len
        BY <2>2, <2>7, <2>8, <2>9, <3>2, Limits
      <4>2. new[i] = samples - len + (i + gone)
        BY <2>3, <2>7, <4>1
      <4>3. samples - len + (i + gone) = n - Len(new) + i
        BY <2>2, <2>7, <2>8, <4>1 DEF n
      <4>4. QED
        BY <4>2, <4>3
    <3>3. QED
      BY <3>1, <3>2
  <2>11. LastSamples'
    BY <2>1, <2>9, <2>10 DEF LastSamples, AtMostOf, new
  <2>12. SamplesTyped'
    <3>1. collector' \in [1 .. MaxSamples -> {"none", "check", "create", "index", "insert", "over"}]
          /\ \A s \in 1 .. MaxSamples : collector'[s] = "index" => collector[s] = "index"
      BY <2>1, <2>2 DEF SamplesInv, SamplesTyped
    <3>2. samples' \in 0 .. MaxSamples
      BY <2>1, <2>2
    <3>3. QED
      BY <1>1, <2>1, <2>7, <3>1, <3>2 DEF SamplesTyped, new
  <2>13. QED
    BY <2>11, <2>12 DEF SamplesInv
<1>3. ASSUME NEW s \in 1 .. MaxSamples,
             CheckTableExists(s) \/ CreateMetricsTable(s) \/ CreateMetricsIndex(s)
          \/ InsertMetrics(s)
      PROVE  SamplesInv'
  <2>1. CASE CheckTableExists(s) \/ InsertMetrics(s)
    <3>1. PICK label \in {"create", "over"} :
            Collect(s, label) /\ UNCHANGED <<history, samples, metricsTable>>
      BY <2>1 DEF CheckTableExists, InsertMetrics
    <3>2. QED
      BY <1>1, <3>1, CollectionStep
  <2>2. CASE CreateMetricsTable(s)
    <3>1. PICK label \in {"index", "insert"} :
            /\ Collect(s, label) /\ UNCHANGED <<history, samples>>
            /\ \/ /\ label = "index"
                  /\ metricsTable' = [metricsTable EXCEPT !.exists = TRUE]
               \/ label = "insert" /\ metricsTable' = metricsTable
      BY <2>2 DEF CreateMetricsTable
    <3>2. /\ metricsTable' \in [exists : BOOLEAN, indexed : BOOLEAN]
          /\ metricsTable.exists => metricsTable'.exists
          /\ metricsTable'.indexed => metricsTable'.exists
          /\ label = "index" => metricsTable'.exists
      BY <1>1, <3>1
    <3>3. QED
      BY <3>1, <3>2, CollectionStep
  <2>3. CASE CreateMetricsIndex(s)
    <3>1. /\ Collect(s, "insert") /\ UNCHANGED <<history, samples>> /\ collector[s] = "index"
          /\ metricsTable' \in {metricsTable, [metricsTable EXCEPT !.indexed = TRUE]}
      BY <2>3 DEF CreateMetricsIndex
    <3>2. /\ metricsTable' \in [exists : BOOLEAN, indexed : BOOLEAN]
          /\ metricsTable.exists => metricsTable'.exists
          /\ metricsTable'.indexed => metricsTable'.exists
      BY <1>1, <3>1
    <3>3. QED
      BY <3>1, <3>2, CollectionStep
  <2>4. QED
    BY <1>3, <2>1, <2>2, <2>3
<1>4. QED
  BY <1>2, <1>3 DEF SamplesNext

LEMMA RequestsAside ==
    ASSUME RequestsInv, UNCHANGED <<requestVars, datadog>>
    PROVE  RequestsInv'
<1>1. UNCHANGED <<request, perf, answered, counts, alerts, datadog>>
  BY DEF requestVars
<1>2. QED
  BY <1>1, QuietRequestsStep DEF RequestsInv, MonitoringTyped

LEMMA SamplesAside ==
    ASSUME SamplesInv, UNCHANGED sampleVars
    PROVE  SamplesInv'
  BY DEF SamplesInv, SamplesTyped, LastSamples, sampleVars

LEMMA MonitoringInvStep ==
    ASSUME MonitoringInv, [RequestsNext \/ SamplesNext]_monitoringVars
    PROVE  MonitoringInv'
<1>1. CASE RequestsNext
  <2>1. UNCHANGED sampleVars
    BY <1>1 DEF RequestsNext, InitializeMonitoring, TrackSystemResources, ShutDownMonitoring,
         TrackDatabaseQuery, BeginRequest, EndRequest, TrackError, ResetPerformanceMetrics
  <2>2. QED
    BY <1>1, <2>1, RequestsInvStep, SamplesAside DEF MonitoringInv
<1>2. CASE SamplesNext
  <2>1. UNCHANGED <<requestVars, datadog>>
    BY <1>2 DEF SamplesNext, CollectPerformanceMetrics, CheckTableExists, CreateMetricsTable,
         CreateMetricsIndex, InsertMetrics
  <2>2. QED
    BY <1>2, <2>1, SamplesInvStep, RequestsAside DEF MonitoringInv
<1>3. CASE UNCHANGED monitoringVars
  <2>1. UNCHANGED <<requestVars, datadog>> /\ UNCHANGED sampleVars
    BY <1>3 DEF monitoringVars, requestVars, sampleVars
  <2>2. QED
    BY <2>1, RequestsAside, SamplesAside DEF MonitoringInv
<1>4. QED
  BY <1>1, <1>2, <1>3

LEMMA MonitoringInvAlways == MonitoringSpec => []MonitoringInv
  BY MonitoringInvInit, MonitoringInvStep, PTL DEF MonitoringSpec

(* What the server counts of itself keeps to its types, and an index is one   *)
(* of a table that exists.                                                  *)
THEOREM MonitoringTypeCorrect == MonitoringSpec => []MonitoringTypeOK
<1>1. ASSUME MonitoringInv
      PROVE  MonitoringTypeOK
  <2>1. /\ perf.max \in 0 .. 3 /\ perf.min \in 1 .. 4
        /\ \A c \in {"total", "success", "error", "errors", "critical"} : counts[c] \in Nat
        /\ datadog.up \in {"no", "yes", "flushed"}
    BY <1>1 DEF MonitoringInv, RequestsInv, MonitoringTyped, Perf, CountsType, Datadog
  <2>2. QED
    BY <1>1, <2>1 DEF MonitoringInv, RequestsInv, MonitoringTyped, SamplesInv, SamplesTyped,
         MonitoringTypeOK
<1>2. QED
  BY <1>1, MonitoringInvAlways, PTL

(* However requests, errors, resets and collections interleave: the response   *)
(* times are those of the requests answered since the last reset and the slow  *)
(* ones the last of them, no request or metric is lost or counted twice, no     *)
(* alert is raised below the rate, and the history holds the last samples.  *)
THEOREM MonitoringTruthful == MonitoringSpec => []MonitoringHonest
<1>1. ASSUME MonitoringInv
      PROVE  MonitoringHonest
  <2>1. /\ MonitoringTyped /\ PathsMeasured /\ TimesBounded /\ SlowKept /\ CountsAdd
        /\ Buffered(datadog) /\ LastSamples
    BY <1>1 DEF MonitoringInv, RequestsInv, SamplesInv
  <2>2. ASSUME NEW p \in Paths
        PROVE  /\ perf.perPath[p] = Cardinality(TimesOf(p))
               /\ perf.timePerPath[p] = TimeOf(p)
    BY <2>1, TimeOfPath DEF PathsMeasured, MonitoringTyped
  <2>3. \A i \in SlowOnes : SlowAfter(i) < SlowLimit =>
          perf.slow[Len(perf.slow) - SlowAfter(i)] = answered[i].time
    BY <2>1 DEF SlowKept
  <2>4. QED
    BY <2>1, <2>2, <2>3 DEF MonitoringHonest, TimesBounded, SlowKept, CountsAdd, Buffered,
         LastSamples
<1>2. QED
  BY <1>1, MonitoringInvAlways, PTL

-----------------------------------------------------------------------------
(* MCPlatform: all ten of its components.                                   *)

LEMMA OthersBegin ==
    Init => ConfigurationInit /\ SecurityInit /\ ParserInit /\ TablesInit /\ MonitoringInit
  BY DEF Init

LEMMA OthersStep ==
    ASSUME [Next]_vars
    PROVE  /\ [ConfigurationNext]_configVars /\ [SecurityNext]_secVars
           /\ [ParserNext]_parserVars /\ [TablesNext]_tableVars
           /\ [RequestsNext \/ SamplesNext]_monitoringVars
<1>1. CASE UNCHANGED vars
  BY <1>1 DEF vars
<1>2. CASE Next
  BY <1>2 DEF Next, Choose
<1>3. QED
  BY <1>1, <1>2

LEMMA OthersImplemented ==
    Spec => ConfigurationSpec /\ SecuritySpec /\ ParsersSpec /\ TablesSpec /\ MonitoringSpec
  BY OthersBegin, OthersStep, PTL DEF Spec, ConfigurationSpec, SecuritySpec, ParsersSpec,
     TablesSpec, MonitoringSpec

(* In every behavior of MCPlatform every component keeps to its types.      *)
THEOREM PlatformTypeCorrect == Spec => []PlatformTypeOK
<1>1. RedisTypeOK /\ HealthTypeOK /\ MigTypeOK /\ CredTypeOK /\ TablesTypeOK /\ ParserTypeOK
      /\ MonitoringTypeOK /\ ConfigurationTypeOK /\ SecurityTypeOK => PlatformTypeOK
  BY DEF PlatformTypeOK
<1>2. QED
  BY <1>1, PartsImplemented, OthersImplemented, RedisTypeCorrect, HealthTypeCorrect,
     MigrationsTypeCorrect, CredentialsTypeCorrect, TablesTypeCorrect, ParsersTypeCorrect,
     MonitoringTypeCorrect, ConfigurationTypeCorrect, SecurityTypeCorrect, PTL

(* In every behavior of MCPlatform: what is extracted from a document is what    *)
(* it holds, and a parse is refused or counted only for what was parsed.        *)
THEOREM DocumentsCorrect == Spec => []DocumentsHonest
<1>1. TablesKept /\ ParsesHonest => DocumentsHonest
  BY DEF DocumentsHonest
<1>2. QED
  BY <1>1, OthersImplemented, TablesTruthful, ParsesTruthful, PTL

(* In every behavior of MCPlatform: the server that has started is configured  *)
(* as it has to be, counts what happens and watches its audit log with no task *)
(* that a second initialization did not leave behind, for whatever number of   *)
(* starts, requests, samples and runs.                                      *)
THEOREM StartupCorrect == Spec => []StartupHonest
<1>1. ConfigurationHonest /\ MonitoringHonest /\ SecurityHonest => StartupHonest
  BY DEF StartupHonest
<1>2. QED
  BY <1>1, OthersImplemented, ConfigurationTruthful, MonitoringTruthful, SecurityWatched, PTL

=============================================================================
