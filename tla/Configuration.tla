---------------------------- MODULE Configuration ----------------------------
(***************************************************************************)
(* The start of the server as its modules see it: src/shared/db.ts,          *)
(* src/utils/encryption.ts and then the sections of src/config/index.ts,     *)
(* with src/config/schema.ts, defaults.ts and secrets.ts, and what the       *)
(* running server encrypts and reads back after a restart with another       *)
(* environment.  src/utils/envValidator.ts may be called before.             *)
(***************************************************************************)
EXTENDS Integers, FiniteSets

CONSTANT MaxStarts  \* bound: starts of the process

ASSUME ConfigurationAssumption == MaxStarts \in Nat \ {0}

VARIABLES
    setting,     \* what the environment says of the mode, the key and the database
    start,       \* the module or section that is loaded next, or how the start ended
    validated,   \* the answer of validateEnvOrExit, "uncalled" without a call
    dbClient,    \* where the client of db.ts has its connection from
    cipher,      \* encryptionKey of encryption.ts
    secretsKey,  \* encryptionKey of secrets.ts
    sections,    \* the sections loaded so far
    encrypted,   \* history: under which setting and cipher something was encrypted
    processStarts

configVars == <<setting, start, validated, dbClient, cipher, secretsKey, sections,
                encrypted, processStarts>>

Modes == {"development", "test", "production", "staging"}

\* ENCRYPTION_KEY: the three defaults that the code lists, the example of
\* docs/ENVIRONMENT_VARIABLES.md that it does not, a key too short, 64 hex digits,
\* 44 characters of base64 with and without padding, and any other long one.
KeyLength == [none |-> 0, devDefault |-> 43, codeDefault |-> 52, temporary |-> 24,
              example |-> 32, short |-> 16, hex |-> 64, base64 |-> 44, unpadded |-> 44,
              long |-> 40]
EncryptionKeys == DOMAIN KeyLength

\* INSECURE_DEFAULT_VALUES of defaults.ts and DEFAULT_VALUES of envValidator.ts
InsecureDefaults  == {"devDefault", "codeDefault", "temporary"}
ValidatorDefaults == {"devDefault", "codeDefault"}

\* A DATABASE_URL may be there and empty.
Settings ==
    [mode : Modes, key : EncryptionKeys,
     url : {"none", "empty", "invalid", "default", "valid"},
     pg : {"none", "noPassword", "all"}]  \* PGHOST, PGUSER and PGDATABASE, then all five

NoSections == [database |-> "none", email |-> "none", emailHost |-> FALSE,
               otpEmail |-> "none", redis |-> "none", redisTls |-> FALSE]
NoCipher == [how |-> "none", of |-> "none"]

ConfigurationInit ==
    /\ setting = [mode |-> "development", key |-> "none", url |-> "none", pg |-> "none"]
    /\ start = "environment" /\ validated = "uncalled"
    /\ dbClient = "none" /\ cipher = NoCipher /\ secretsKey = "none"
    /\ sections = NoSections
    /\ encrypted = {} /\ processStarts = 1

\* The process is started in some environment, its .env file included: db.ts
\* reads that before encryption.ts looks at the key.
StartProcess ==
    /\ start = "environment"
    /\ setting' \in Settings
    /\ start' = "db"
    /\ UNCHANGED <<validated, dbClient, cipher, secretsKey, sections, encrypted, processStarts>>

-----------------------------------------------------------------------------
(* envValidator.ts                                                          *)

Production == setting.mode = "production"

\* DATABASE_URL is truthy.
UrlGiven == setting.url \notin {"none", "empty"}

\* validateEnv.  SENDGRID_API_KEY and the OTP account are right or not.
EnvValid(others) ==
    /\ UrlGiven
    /\ Production => /\ setting.key \notin {"none"} \cup ValidatorDefaults
                     /\ setting.url # "default"
                     /\ others

ValidateEnvOrExit ==
    /\ start = "db" /\ validated = "uncalled" /\ processStarts = 1
    /\ \E others \in BOOLEAN :
         /\ validated' = IF EnvValid(others) THEN "valid" ELSE "invalid"
         /\ start' = IF Production /\ ~ EnvValid(others) THEN "exited" ELSE start
    /\ UNCHANGED <<setting, dbClient, cipher, secretsKey, sections, encrypted, processStarts>>

-----------------------------------------------------------------------------
(* db.ts and encryption.ts, loaded before the configuration                 *)

\* getDatabaseConfig throws while the module is loaded: nothing catches it.
LoadDatabaseModule ==
    /\ start = "db"
    /\ dbClient' = IF UrlGiven THEN "url"
                   ELSE IF setting.pg = "all" THEN "parts" ELSE "none"
    /\ start' = IF dbClient' = "none" THEN "threw" ELSE "encryption"
    /\ UNCHANGED <<setting, validated, cipher, secretsKey, sections, encrypted, processStarts>>

\* 64 hex digits, 44 characters of base64, or anything else.
DerivedKey(k) ==
    [how |-> CASE k = "hex" -> "hex"
               [] k \in {"base64", "unpadded"} -> "base64"
               [] OTHER -> "scrypt",
     of |-> k]

DefaultCipher == DerivedKey("codeDefault")

InitializeEncryption ==
    /\ start = "encryption"
    /\ \/ /\ setting.key # "none"
          /\ cipher' = DerivedKey(setting.key) /\ start' = "database"
       \/ /\ setting.key = "none" /\ ~ Production
          /\ cipher' = DefaultCipher /\ start' = "database"
       \/ /\ setting.key = "none" /\ Production
          /\ start' = "threw" /\ UNCHANGED cipher
    /\ UNCHANGED <<setting, validated, dbClient, secretsKey, sections, encrypted, processStarts>>

\* isEncryptionConfigured
IsEncryptionConfigured == Production => cipher # DefaultCipher

-----------------------------------------------------------------------------
(* loadConfig, section by section                                           *)

\* The catch of loadConfig.
Rejected == IF Production THEN "exited" ELSE "threw"

\* A section is loaded when its values pass its schema.
Section(s, passes, next, loaded) ==
    /\ start = s
    /\ start' = IF passes THEN next ELSE Rejected
    /\ sections' = IF passes THEN loaded ELSE sections
    /\ UNCHANGED <<setting, validated, dbClient, cipher, encrypted, processStarts>>

\* PG_POOL_SIZE, PG_CONNECTION_TIMEOUT and PGPORT are right or not.  A URL that is
\* empty is none for db.ts and an invalid one here.
LoadDatabaseConfig ==
    /\ \E numbers \in BOOLEAN :
         Section("database",
                 /\ numbers /\ setting.url \notin {"invalid", "empty"}
                 /\ setting.url = "none" => setting.pg # "none",
                 "email",
                 [sections EXCEPT !.database = IF setting.url = "none" THEN "parts" ELSE "url"])
    /\ UNCHANGED secretsKey

\* Without EMAIL_HOST, EMAIL_USER or EMAIL_PASS there is no section; with all
\* of them their values may still be wrong.
LoadEmailConfig ==
    /\ \E host, others, right \in BOOLEAN :
         Section("email", host /\ others => right, "otpEmail",
                 [sections EXCEPT !.emailHost = host,
                                  !.email = IF host /\ others THEN "loaded" ELSE "none"])
    /\ UNCHANGED secretsKey

\* The host is the one of the email section unless it has one of its own.
LoadOtpEmailConfig ==
    /\ \E account, host, right \in BOOLEAN :
         Section("otpEmail", account => right /\ (host \/ sections.emailHost), "security",
                 [sections EXCEPT !.otpEmail = IF account THEN "loaded" ELSE "none"])
    /\ UNCHANGED secretsKey

\* Mutant: the list of defaults lacks the one that encryption.ts falls back to.
OldDefaultValue(k) == k \in {"devDefault", "temporary"}

IsDefaultValue(k) == k \in InsecureDefaults

\* JWT_SECRET, SESSION_SECRET and the limits are right or not.
LoadSecurityConfig ==
    /\ \E others \in BOOLEAN :
         Section("security",
                 /\ ~ (Production /\ IsDefaultValue(setting.key))
                 /\ KeyLength[setting.key] >= 32
                 /\ others,
                 "server", sections)
    /\ UNCHANGED secretsKey

\* The server, the application (log level, addresses of the administrators) and
\* the API keys.
LoadServerConfig ==
    /\ \E right \in BOOLEAN : Section("server", right, "redis", sections)
    /\ UNCHANGED secretsKey

\* REDIS_HOST, REDIS_URL and REDIS_TLS.  A URL that cannot be parsed leaves the
\* defaults, localhost among them.
RedisSection(host, url, tls) ==
    [sections EXCEPT
        !.redis = IF host THEN "host"
                  ELSE IF url \in {"redis", "rediss"} THEN "url"
                  ELSE IF url = "invalid" THEN "localhost" ELSE "none",
        !.redisTls = (host \/ url # "none") /\ (tls \/ url = "rediss")]

LoadRedisConfig ==
    /\ \E host, tls \in BOOLEAN, url \in {"none", "invalid", "redis", "rediss"} :
         Section("redis", TRUE, "whole", RedisSection(host, url, tls))
    /\ UNCHANGED secretsKey

\* ConfigSchema.parse, where NODE_ENV is looked at, and initializeSecrets.
ParseConfig ==
    /\ Section("whole", setting.mode \in {"development", "test", "production"}, "running", sections)
    /\ secretsKey' = IF start' = "running" /\ ~ (Production /\ IsDefaultValue(setting.key))
                     THEN setting.key ELSE secretsKey

-----------------------------------------------------------------------------
(* The running server                                                       *)

\* encryptData: base64 without padding decodes to 33 bytes, which the cipher
\* does not take.
KeyFits(c) == c # [how |-> "base64", of |-> "unpadded"]

EncryptData ==
    /\ start = "running"
    /\ KeyFits(cipher)
    /\ encrypted' = encrypted \cup {[setting |-> setting, cipher |-> cipher]}
    /\ UNCHANGED <<setting, start, validated, dbClient, cipher, secretsKey, sections,
                   processStarts>>

\* The process ends, and is started again with another mode or key.
Restart ==
    /\ start \in {"running", "exited", "threw"}
    /\ processStarts < MaxStarts
    /\ processStarts' = processStarts + 1
    /\ \E m \in {"development", "production"}, k \in EncryptionKeys :
         setting' = [setting EXCEPT !.mode = m, !.key = k]
    /\ start' = "db" /\ validated' = "uncalled"
    /\ dbClient' = "none" /\ cipher' = NoCipher /\ secretsKey' = "none"
    /\ sections' = NoSections
    /\ UNCHANGED encrypted

ConfigurationNext ==
    \/ StartProcess \/ ValidateEnvOrExit \/ LoadDatabaseModule \/ InitializeEncryption
    \/ LoadDatabaseConfig \/ LoadEmailConfig \/ LoadOtpEmailConfig \/ LoadSecurityConfig
    \/ LoadServerConfig \/ LoadRedisConfig \/ ParseConfig
    \/ EncryptData \/ Restart

-----------------------------------------------------------------------------
ConfigurationTypeOK ==
    /\ setting \in Settings
    /\ start \in {"environment", "db", "encryption", "database", "email", "otpEmail",
                  "security", "server", "redis", "whole", "running", "exited", "threw"}
    /\ validated \in {"uncalled", "valid", "invalid"}
    /\ dbClient \in {"none", "url", "parts"}
    /\ cipher.of \in EncryptionKeys /\ secretsKey \in EncryptionKeys
    /\ processStarts \in 1 .. MaxStarts

(* A server that runs encrypts under one key: the cipher of encryption.ts and *)
(* the one of secrets.ts are of the same key, the one that is set if one is, *)
(* and that has 32 characters; and its database client and its configuration *)
(* find the database at the same place.  In production the key is none of    *)
(* the defaults that the code lists, with or without validateEnvOrExit, and  *)
(* isEncryptionConfigured says so.  Production exits where other modes throw, *)
(* unless db.ts or encryption.ts has already thrown.  What was encrypted in  *)
(* production was under none of those defaults, and a server that runs with   *)
(* the key of then has the cipher of then.                                  *)
ConfigurationHonest ==
    /\ start = "running" =>
         /\ cipher.of = secretsKey
         /\ setting.key # "none" => cipher.of = setting.key /\ KeyLength[setting.key] >= 32
         /\ sections.database = dbClient
         /\ Production => setting.key \notin InsecureDefaults /\ IsEncryptionConfigured
         /\ sections.redisTls => sections.redis # "none"
    /\ start = "exited" => Production
    /\ start = "threw" /\ Production => "none" \in {dbClient, cipher.of}
    /\ \A e \in encrypted :
         /\ e.setting.mode = "production" => e.cipher.of \notin InsecureDefaults
         /\ start = "running" /\ setting.key = e.setting.key => cipher = e.cipher

=============================================================================
