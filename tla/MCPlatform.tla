------------------------------ MODULE MCPlatform ------------------------------
(***************************************************************************)
(* Ten more components that share no state, checked in one run: each        *)
(* behavior is one of a single component, chosen in its first step, while   *)
(* the others stay as they begin.                                           *)
(***************************************************************************)
EXTENDS RedisConnection, HealthChecks, Migrations, UserCredentials, Tables, Parsers,
        Monitoring, Configuration, SecurityMonitoring

VARIABLE platform  \* the component that runs, "none" until it is chosen

vars == <<platform, redisVars, healthVars, migVars, credVars, tableVars, parserVars,
          monitoringVars, configVars, secVars>>

Parts == {"redis", "health", "migrations", "credentials", "tables", "parsers", "requests",
          "samples", "configuration", "security"}

Init ==
    /\ platform = "none"
    /\ RedisInit /\ HealthInit /\ MigInit /\ CredInit /\ TablesInit /\ ParserInit
    /\ MonitoringInit /\ ConfigurationInit /\ SecurityInit

Choose ==
    /\ platform = "none"
    /\ platform' \in Parts
    /\ UNCHANGED <<redisVars, healthVars, migVars, credVars, tableVars, parserVars,
                   monitoringVars, configVars, secVars>>

Runs(part) == platform = part /\ UNCHANGED platform

Next ==
    \/ Choose
    \/ /\ Runs("redis") /\ RedisNext
       /\ UNCHANGED <<healthVars, migVars, credVars, tableVars, parserVars, monitoringVars,
                      configVars, secVars>>
    \/ /\ Runs("health") /\ HealthNext
       /\ UNCHANGED <<redisVars, migVars, credVars, tableVars, parserVars, monitoringVars,
                      configVars, secVars>>
    \/ /\ Runs("migrations") /\ MigNext
       /\ UNCHANGED <<redisVars, healthVars, credVars, tableVars, parserVars,
                      monitoringVars, configVars, secVars>>
    \/ /\ Runs("credentials") /\ CredNext
       /\ UNCHANGED <<redisVars, healthVars, migVars, tableVars, parserVars,
                      monitoringVars, configVars, secVars>>
    \/ /\ Runs("tables") /\ TablesNext
       /\ UNCHANGED <<redisVars, healthVars, migVars, credVars, parserVars, monitoringVars,
                      configVars, secVars>>
    \/ /\ Runs("parsers") /\ ParserNext
       /\ UNCHANGED <<redisVars, healthVars, migVars, credVars, tableVars, monitoringVars,
                      configVars, secVars>>
    \/ /\ Runs("requests") /\ RequestsNext
       /\ UNCHANGED <<redisVars, healthVars, migVars, credVars, tableVars, parserVars,
                      configVars, secVars>>
    \/ /\ Runs("samples") /\ SamplesNext
       /\ UNCHANGED <<redisVars, healthVars, migVars, credVars, tableVars, parserVars,
                      configVars, secVars>>
    \/ /\ Runs("configuration") /\ ConfigurationNext
       /\ UNCHANGED <<redisVars, healthVars, migVars, credVars, tableVars, parserVars,
                      monitoringVars, secVars>>
    \/ /\ Runs("security") /\ SecurityNext
       /\ UNCHANGED <<redisVars, healthVars, migVars, credVars, tableVars, parserVars,
                      monitoringVars, configVars>>

Spec == Init /\ [][Next]_vars

(* Every component keeps to its types.                                      *)
PlatformTypeOK ==
    /\ RedisTypeOK /\ HealthTypeOK /\ MigTypeOK
    /\ CredTypeOK /\ TablesTypeOK /\ ParserTypeOK
    /\ MonitoringTypeOK /\ ConfigurationTypeOK /\ SecurityTypeOK

(* What documents are turned into is theirs: the rows of every table, and the *)
(* records of every file that is parsed, a second time only if a race, a      *)
(* failed statement or a new parser let it through.                         *)
DocumentsHonest == TablesKept /\ ParsesHonest

(* The server that has started is configured as it has to be, counts what     *)
(* happens, and watches its audit log with one task after one initialization. *)
StartupHonest == ConfigurationHonest /\ MonitoringHonest /\ SecurityHonest

=============================================================================
