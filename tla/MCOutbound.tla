------------------------------ MODULE MCOutbound ------------------------------
(***************************************************************************)
(* Ten components that share no state, checked in one run: each           *)
(* behavior is one of a single component, chosen in its first step, while   *)
(* the others stay as they begin.                                           *)
(***************************************************************************)
EXTENDS EmailQueue, CircuitBreaker, RateLimiter, TypedQueue, Ingestion,
        PromptTemplates, ErrorHandling, Forms, TaskParser, ResponseCache

VARIABLE outbound  \* the component that runs, "none" until it is chosen

vars == <<outbound, emailVars, breakerVars, limiterVars, typedVars, ingestVars, promptVars,
          errorVars, formVars, taskParserVars, cacheVars>>

Parts == {"email", "breaker", "limiter", "queue", "ingest", "prompts", "errors", "forms",
          "tasks", "cache"}

Init ==
    /\ outbound = "none"
    /\ EmailInit /\ BreakerInit /\ LimiterInit /\ TypedInit /\ IngestInit
    /\ PromptsInit /\ ErrorsInit /\ FormsInit /\ TaskParserInit /\ CacheInit

Choose ==
    /\ outbound = "none"
    /\ outbound' \in Parts
    /\ UNCHANGED <<emailVars, breakerVars, limiterVars, typedVars, ingestVars, promptVars,
                   errorVars, formVars, taskParserVars, cacheVars>>

Runs(part) == outbound = part /\ UNCHANGED outbound

Next ==
    \/ Choose
    \/ /\ Runs("email") /\ EmailNext
       /\ UNCHANGED <<breakerVars, limiterVars, typedVars, ingestVars, promptVars,
                      errorVars, formVars, taskParserVars, cacheVars>>
    \/ /\ Runs("breaker") /\ BreakerNext
       /\ UNCHANGED <<emailVars, limiterVars, typedVars, ingestVars, promptVars, errorVars,
                      formVars, taskParserVars, cacheVars>>
    \/ /\ Runs("limiter") /\ LimiterNext
       /\ UNCHANGED <<emailVars, breakerVars, typedVars, ingestVars, promptVars, errorVars,
                      formVars, taskParserVars, cacheVars>>
    \/ /\ Runs("queue") /\ TypedNext
       /\ UNCHANGED <<emailVars, breakerVars, limiterVars, ingestVars, promptVars,
                      errorVars, formVars, taskParserVars, cacheVars>>
    \/ /\ Runs("ingest") /\ IngestNext
       /\ UNCHANGED <<emailVars, breakerVars, limiterVars, typedVars, promptVars, errorVars,
                      formVars, taskParserVars, cacheVars>>
    \/ /\ Runs("prompts") /\ PromptsNext
       /\ UNCHANGED <<emailVars, breakerVars, limiterVars, typedVars, ingestVars, errorVars,
                      formVars, taskParserVars, cacheVars>>
    \/ /\ Runs("errors") /\ ErrorsNext
       /\ UNCHANGED <<emailVars, breakerVars, limiterVars, typedVars, ingestVars,
                      promptVars, formVars, taskParserVars, cacheVars>>
    \/ /\ Runs("forms") /\ FormsNext
       /\ UNCHANGED <<emailVars, breakerVars, limiterVars, typedVars, ingestVars,
                      promptVars, errorVars, taskParserVars, cacheVars>>
    \/ /\ Runs("tasks") /\ TaskParserNext
       /\ UNCHANGED <<emailVars, breakerVars, limiterVars, typedVars, ingestVars,
                      promptVars, errorVars, formVars, cacheVars>>
    \/ /\ Runs("cache") /\ CacheNext
       /\ UNCHANGED <<emailVars, breakerVars, limiterVars, typedVars, ingestVars,
                      promptVars, errorVars, formVars, taskParserVars>>

\* One step of the email queue, of those its fairness is about.
Email(A) ==
    /\ Runs("email") /\ A
    /\ UNCHANGED <<breakerVars, limiterVars, typedVars, ingestVars, promptVars, errorVars,
                   formVars, taskParserVars, cacheVars>>

\* Fairness as in EmailFairSpec.
FairSpec ==
    /\ Init /\ [][Next]_vars
    /\ WF_vars(Email(LoopStep)) /\ WF_vars(Email(EmailCallStep))

(* Every component keeps to its types.                                      *)
OutboundTypeOK ==
    /\ EmailTypeOK /\ BreakerTypeOK /\ LimiterTypeOK /\ TypedTypeOK /\ IngestTypeOK
    /\ PromptsTypeOK /\ ErrorsTypeOK /\ FormsTypeOK /\ TaskParserTypeOK /\ CacheTypeOK

(* What callers are told is so: a template is the one last loaded, an error  *)
(* the one thrown, after no more calls than allowed, what a form submits was  *)
(* validated, one submission at a time, a parsed task is what the model       *)
(* answered, and the cache's answers are no older than the last removal.     *)
ClientsHonest ==
    /\ TemplatesHonest /\ RetriesHonest /\ ErrorsHonest
    /\ FormsHonest /\ TasksHonest /\ CacheHonest

=============================================================================
