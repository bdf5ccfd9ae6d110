----------------------------- MODULE ClientProofs -----------------------------
(***************************************************************************)
(* Theorems about the other five components of MCOutbound, for every       *)
(* value of their constants: the response cache, the task parser, the      *)
(* forms, the retried calls with the errors they end in, and the prompt    *)
(* templates.  The last section puts them together with those of           *)
(* OutboundProofs: what holds of every behavior of MCOutbound.             *)
(***************************************************************************)
EXTENDS OutboundProofs

-----------------------------------------------------------------------------
(* The response cache.                                                      *)

CacheSpec == CacheInit /\ [][CacheNext]_cacheVars

Asked == [at : {"idle", "handling", "sending", "answered"}, stores : BOOLEAN,
          read : 0 .. MaxVersions, clears : 0 .. MaxClears]

\* What a handler has read is data; and no older than the last removal if the
\* request began after it.
ReadsData(q) ==
    /\ asked[q].clears <= clears
    /\ asked[q].at = "sending" =>
         /\ asked[q].read \in 1 .. version
         /\ asked[q].clears = clears => asked[q].read >= cleared.version

CacheInv ==
    /\ asked \in [CachedRequests -> Asked]
    /\ version \in 1 .. MaxVersions /\ clears \in 0 .. MaxClears
    /\ entry \in 0 .. version
    /\ hits \subseteq 1 .. version
    /\ cleared \in [version : 1 .. version, raced : BOOLEAN]
    /\ entry # NotCached /\ ~ cleared.raced => entry >= cleared.version
    /\ \A q \in CachedRequests : ReadsData(q)

LEMMA CacheInvInit == CacheInit => CacheInv
<1> SUFFICES ASSUME CacheInit
             PROVE  CacheInv
  OBVIOUS
<1>1. [at |-> "idle", stores |-> FALSE, read |-> NotCached, clears |-> 0] \in Asked
  BY CacheAssumption DEF Asked, NotCached
<1>2. asked \in [CachedRequests -> Asked]
  BY <1>1 DEF CacheInit
<1>3. QED
  BY <1>2, CacheAssumption DEF CacheInit, CacheInv, ReadsData, NotCached

(* What a request becomes, and that the others stay.                        *)
LEMMA AskedBecomes ==
    ASSUME CacheInv, NEW q \in CachedRequests, NEW r \in Asked,
           asked' = [asked EXCEPT ![q] = r]
    PROVE  /\ asked' \in [CachedRequests -> Asked] /\ asked'[q] = r
           /\ \A p \in CachedRequests \ {q} : asked'[p] = asked[p]
  BY DEF CacheInv

LEMMA CacheInvStep ==
    ASSUME CacheInv, [CacheNext]_cacheVars
    PROVE  CacheInv'
<1>1. ASSUME NEW q \in CachedRequests, CacheMiddleware(q)
      PROVE  CacheInv'
  <2>1. /\ asked[q] \in Asked /\ asked[q].at = "idle"
        /\ UNCHANGED <<entry, version, clears, cleared>>
    BY <1>1 DEF CacheInv, CacheMiddleware
  <2>2. PICK should \in BOOLEAN :
          \/ /\ entry # NotCached
             /\ asked' = [asked EXCEPT ![q].at = "answered"] /\ hits' = hits \cup {entry}
          \/ /\ asked' = [asked EXCEPT ![q] = [at |-> "handling", stores |-> should,
                                               read |-> NotCached, clears |-> clears]]
             /\ hits' = hits
    BY <1>1, Zenon DEF CacheMiddleware
  <2>3. CASE /\ entry # NotCached
             /\ asked' = [asked EXCEPT ![q].at = "answered"] /\ hits' = hits \cup {entry}
    <3> DEFINE r == [asked[q] EXCEPT !.at = "answered"]
    <3>1. r \in Asked /\ r.at = "answered" /\ r.clears = asked[q].clears
      BY <2>1 DEF Asked
    <3>2. asked' = [asked EXCEPT ![q] = r]
      BY <2>3
    <3> HIDE DEF r
    <3>3. /\ asked' \in [CachedRequests -> Asked] /\ asked'[q] = r
          /\ \A p \in CachedRequests \ {q} : asked'[p] = asked[p]
      BY <3>1, <3>2, AskedBecomes
    <3>4. \A p \in CachedRequests : ReadsData(p)'
      BY <2>1, <3>1, <3>3 DEF CacheInv, ReadsData
    <3>5. hits' \subseteq 1 .. version
      BY <2>3 DEF CacheInv, NotCached
    <3>6. QED
      BY <2>1, <3>3, <3>4, <3>5 DEF CacheInv
  <2>4. CASE /\ asked' = [asked EXCEPT ![q] = [at |-> "handling", stores |-> should,
                                               read |-> NotCached, clears |-> clears]]
             /\ hits' = hits
    <3> DEFINE r == [at |-> "handling", stores |-> should, read |-> NotCached,
                     clears |-> clears]
    <3>1. r \in Asked /\ r.at = "handling" /\ r.clears = clears
      BY CacheAssumption DEF Asked, NotCached, CacheInv
    <3> HIDE DEF r
    <3>2. /\ asked' \in [CachedRequests -> Asked] /\ asked'[q] = r
          /\ \A p \in CachedRequests \ {q} : asked'[p] = asked[p]
      BY <2>4, <3>1, AskedBecomes DEF r
    <3>3. \A p \in CachedRequests : ReadsData(p)'
      BY <2>1, <3>1, <3>2 DEF CacheInv, ReadsData
    <3>4. QED
      BY <2>1, <2>4, <3>2, <3>3 DEF CacheInv
  <2>5. QED
    BY <2>2, <2>3, <2>4
<1>2. ASSUME NEW q \in CachedRequests, HandlerReads(q)
      PROVE  CacheInv'
  <2> DEFINE r == [asked[q] EXCEPT !.at = "sending", !.read = version]
  <2>1. asked[q] \in Asked /\ UNCHANGED <<entry, version, clears, hits, cleared>>
    BY <1>2 DEF CacheInv, HandlerReads
  <2>2. version \in 0 .. MaxVersions
    BY CacheAssumption DEF CacheInv
  <2>9. r \in Asked /\ r.at = "sending" /\ r.read = version /\ r.clears = asked[q].clears
    BY <2>1, <2>2 DEF Asked
  <2>3. asked' = [asked EXCEPT ![q] = r]
    BY <1>2, <2>1 DEF HandlerReads, CacheInv, Asked
  <2> HIDE DEF r
  <2>4. /\ asked' \in [CachedRequests -> Asked] /\ asked'[q] = r
        /\ \A p \in CachedRequests \ {q} : asked'[p] = asked[p]
    BY <2>9, <2>3, AskedBecomes
  <2>5. \A p \in CachedRequests : ReadsData(p)'
    BY <2>1, <2>9, <2>4, CacheAssumption DEF CacheInv, ReadsData
  <2>6. QED
    BY <2>1, <2>4, <2>5 DEF CacheInv
<1>3. ASSUME NEW q \in CachedRequests, NEW ok \in BOOLEAN, CacheSend(q, ok)
      PROVE  CacheInv'
  <2> DEFINE r == [asked[q] EXCEPT !.at = "answered"]
  <2>1. asked[q] \in Asked /\ UNCHANGED <<version, clears, hits>>
    BY <1>3 DEF CacheInv, CacheSend
  <2>2. r \in Asked /\ r.at = "answered" /\ r.clears = asked[q].clears
    BY <2>1 DEF Asked
  <2>3. asked' = [asked EXCEPT ![q] = r]
    BY <1>3 DEF CacheSend
  <2> HIDE DEF r
  <2>4. /\ asked' \in [CachedRequests -> Asked] /\ asked'[q] = r
        /\ \A p \in CachedRequests \ {q} : asked'[p] = asked[p]
    BY <2>2, <2>3, AskedBecomes
  <2>5. \/ /\ asked[q].at = "sending" /\ entry' = asked[q].read
           /\ cleared' = [cleared EXCEPT !.raced = asked[q].clears < clears]
        \/ entry' = entry /\ cleared' = cleared
    BY <1>3 DEF CacheSend, Stores
  <2>6. /\ entry' \in 0 .. version
        /\ cleared' \in [version : 1 .. version, raced : BOOLEAN]
        /\ cleared'.version = cleared.version
        /\ entry' # NotCached /\ ~ cleared'.raced => entry' >= cleared'.version
    <3>1. CASE /\ asked[q].at = "sending" /\ entry' = asked[q].read
               /\ cleared' = [cleared EXCEPT !.raced = asked[q].clears < clears]
      <4>1. /\ entry' \in 1 .. version /\ asked[q].clears <= clears
            /\ asked[q].clears = clears => entry' >= cleared.version
        BY <3>1 DEF CacheInv, ReadsData
      <4>9. cleared \in [version : 1 .. version, raced : BOOLEAN]
        BY DEF CacheInv
      <4>2. /\ cleared' \in [version : 1 .. version, raced : BOOLEAN]
            /\ cleared'.version = cleared.version
        <5> DEFINE late == asked[q].clears < clears
        <5>1. late \in BOOLEAN /\ cleared' = [cleared EXCEPT !.raced = late]
          BY <3>1
        <5> HIDE DEF late
        <5>2. QED
          BY <4>9, <5>1
      <4>3. cleared'.raced <=> asked[q].clears < clears
        BY <3>1, <4>9
      <4>4. asked[q].clears \in Nat /\ clears \in Nat
        BY <2>1, CacheAssumption DEF Asked, CacheInv
      <4>5. ~ cleared'.raced => asked[q].clears = clears
        BY <4>1, <4>3, <4>4
      <4>6. version \in Nat
        BY CacheAssumption DEF CacheInv
      <4>7. entry' \in 0 .. version
        BY <4>1, <4>6
      <4>8. QED
        BY <4>1, <4>2, <4>5, <4>7
    <3>2. CASE entry' = entry /\ cleared' = cleared
      BY <3>2 DEF CacheInv
    <3>3. QED
      BY <2>5, <3>1, <3>2
  <2>7. \A p \in CachedRequests : ReadsData(p)'
    BY <2>1, <2>2, <2>4, <2>6 DEF CacheInv, ReadsData
  <2>8. QED
    BY <2>1, <2>4, <2>6, <2>7 DEF CacheInv
<1>4. CASE DataChange
  <2>1. version' = version + 1 /\ version' \in 1 .. MaxVersions
    BY <1>4, CacheAssumption DEF DataChange, CacheInv
  <2>2. \A p \in CachedRequests : ReadsData(p)'
    BY <1>4, <2>1 DEF DataChange, CacheInv, ReadsData
  <2>3. QED
    BY <1>4, <2>1, <2>2 DEF DataChange, CacheInv
<1>5. CASE ClearCacheKey
  <2>1. clears' = clears + 1 /\ clears' \in 0 .. MaxClears
    BY <1>5, CacheAssumption DEF ClearCacheKey, CacheInv
  <2>4. clears \in Nat /\ \A p \in CachedRequests : asked[p].clears \in Nat
    BY CacheAssumption DEF CacheInv, Asked
  <2>5. UNCHANGED <<asked, version>>
    BY <1>5 DEF ClearCacheKey
  <2>2. \A p \in CachedRequests : ReadsData(p)'
    BY <2>1, <2>4, <2>5 DEF CacheInv, ReadsData
  <2>3. QED
    BY <1>5, <2>1, <2>2 DEF ClearCacheKey, CacheInv, NotCached
<1>6. CASE CacheExpires \/ UNCHANGED cacheVars
  <2>1. /\ UNCHANGED <<asked, version, clears, hits, cleared>>
        /\ entry' = entry \/ entry' = NotCached
    BY <1>6 DEF CacheExpires, cacheVars
  <2>2. \A p \in CachedRequests : ReadsData(p)'
    BY <2>1 DEF CacheInv, ReadsData
  <2>3. entry' \in 0 .. version
    BY <2>1, CacheAssumption DEF CacheInv, NotCached
  <2>4. QED
    BY <2>1, <2>2, <2>3 DEF CacheInv
<1>7. QED
  BY <1>1, <1>2, <1>3, <1>4, <1>5, <1>6 DEF CacheNext

LEMMA CacheInvAlways == CacheSpec => []CacheInv
  BY CacheInvInit, CacheInvStep, PTL DEF CacheSpec

(* The cache keeps to its types: it never holds the body of an error.        *)
THEOREM CacheTypeCorrect == CacheSpec => []CacheTypeOK
<1>1. ASSUME CacheInv
      PROVE  CacheTypeOK
  BY <1>1, CacheAssumption DEF CacheInv, CacheTypeOK, Asked, ErrorBody
<1>2. QED
  BY <1>1, CacheInvAlways, PTL

(* However many requests overlap with changes of the data and removals of     *)
(* the entry, the cache answers with data that a handler has sent, and after  *)
(* a removal with none older, unless a request from before it stored since.  *)
THEOREM CacheFresh == CacheSpec => []CacheHonest
<1>1. CacheInv => CacheHonest
  BY DEF CacheInv, CacheHonest
<1>2. QED
  BY <1>1, CacheInvAlways, PTL

-----------------------------------------------------------------------------
(* The task parser.                                                         *)

TaskParserSpec == TaskParserInit /\ [][TaskParserNext]_taskParserVars

Answers == Info \cup {Useless}

\* What BuildTask makes of an answer.
TaskOf(info) ==
    IF info.type = "none"
    THEN [status |-> "failed", type |-> "unknown", planned |-> FALSE, error |-> TRUE]
    ELSE [status |-> "pending", type |-> info.type, planned |-> NeedsPlan(info), error |-> FALSE]

\* The answers so far: none, a useless one, a complete one, or two of which the
\* second counts.
NoAnswer == answers = <<>>
FirstUseless == \E a \in Answers : answers = <<a>> /\ ~ UsableInfo(a)
FirstComplete == \E a \in Answers : answers = <<a>> /\ UsableInfo(a) /\ taskInfo = a
SecondTaken ==
    \E a, b \in Answers : /\ answers = <<a, b>> /\ ~ UsableInfo(a)
                          /\ taskInfo = IF b.object THEN b ELSE Minimal

TaskParserInv ==
    /\ parsing \in {"idle", "extracting", "fallback", "extracted", "done"}
    /\ taskInfo \in Answers
    /\ parsing \in {"idle", "extracting"} => NoAnswer
    /\ parsing = "fallback" => FirstUseless
    /\ parsing \in {"extracted", "done"} => FirstComplete \/ SecondTaken
    /\ parsed = IF parsing = "done" THEN TaskOf(taskInfo) ELSE NoTask

LEMMA AnswersTyped ==
    ASSUME NEW a \in Answers
    PROVE  /\ a.object \in BOOLEAN /\ a.title \in BOOLEAN /\ a.steps \in BOOLEAN
           /\ a.type \in Types
<1>1. CASE a \in Info
  <2>1. a.object \in {TRUE} /\ a.title \in BOOLEAN /\ a.steps \in BOOLEAN /\ a.type \in Types
    BY <1>1, Zenon DEF Info
  <2>2. QED
    BY <2>1
<1>2. CASE a = Useless
  BY <1>2 DEF Useless, Types
<1>3. QED
  BY <1>1, <1>2 DEF Answers

LEMMA OneOrTwo ==
    ASSUME NEW S, NEW a \in S, NEW b \in S
    PROVE  /\ <<a>> \in Seq(S) /\ Len(<<a>>) = 1
           /\ <<a, b>> \in Seq(S) /\ Len(<<a, b>>) = 2
           /\ Append(<<a>>, b) = <<a, b>>
<1>1. <<a>> \in Seq(S)
  OBVIOUS
<1>2. Len(<<a>>) = 1
  OBVIOUS
<1>3. <<a, b>> \in Seq(S)
  OBVIOUS
<1>4. Len(<<a, b>>) = 2
  OBVIOUS
<1>5. Append(<<a>>, b) = <<a, b>>
  <2> DEFINE s == <<a>>
             t == Append(s, b)
             u == <<a, b>>
  <2>1. u \in Seq(S) /\ Len(u) = 2 /\ u[1] = a /\ u[2] = b
    BY <1>3, <1>4
  <2>2. s \in Seq(S) /\ Len(s) = 1 /\ s[1] = a
    BY <1>1, <1>2
  <2> HIDE DEF s, u
  <2>3. t \in Seq(S) /\ Len(t) = 2 /\ t[1] = a /\ t[2] = b
    <3>1. /\ t \in Seq(S) /\ Len(t) = Len(s) + 1
          /\ \A i \in 1 .. Len(s) : t[i] = s[i]
          /\ t[Len(s) + 1] = b
      BY <2>2, AppendProperties, Zenon
    <3> HIDE DEF t
    <3>2. QED
      BY <2>2, <3>1
  <2> HIDE DEF t
  <2>4. t = u
    BY <2>1, <2>3, SeqEqual
  <2>5. QED
    BY <2>4 DEF s, t, u
<1>6. QED
  BY <1>1, <1>2, <1>3, <1>4, <1>5

LEMMA TaskParserInvInit == TaskParserInit => TaskParserInv
  BY DEF TaskParserInit, TaskParserInv, Answers, NoAnswer

LEMMA TaskParserInvStep ==
    ASSUME TaskParserInv, [TaskParserNext]_taskParserVars
    PROVE  TaskParserInv'
<1>1. CASE ParseUserRequest
  BY <1>1 DEF ParseUserRequest, TaskParserInv, NoAnswer
<1>2. CASE ExtractTaskInfo
  <2>1. PICK info \in Answers :
          /\ answers' = Append(answers, info)
          /\ IF UsableInfo(info)
             THEN parsing' = "extracted" /\ taskInfo' = info
             ELSE parsing' = "fallback" /\ UNCHANGED taskInfo
    BY <1>2 DEF ExtractTaskInfo, Answers
  <2>2. parsing = "extracting" /\ UNCHANGED parsed
    BY <1>2 DEF ExtractTaskInfo
  <2>3. answers' = <<info>>
    BY <2>1, <2>2 DEF TaskParserInv, NoAnswer
  <2>4. CASE UsableInfo(info)
    <3>1. FirstComplete'
      BY <2>1, <2>3, <2>4 DEF FirstComplete
    <3>2. QED
      BY <2>1, <2>2, <2>4, <3>1 DEF TaskParserInv
  <2>5. CASE ~ UsableInfo(info)
    <3>1. FirstUseless'
      BY <2>3, <2>5 DEF FirstUseless
    <3>2. QED
      BY <2>1, <2>2, <2>5, <3>1 DEF TaskParserInv
  <2>6. QED
    BY <2>4, <2>5
<1>3. CASE FallbackExtraction
  <2>1. PICK info \in Answers :
          /\ answers' = Append(answers, info)
          /\ taskInfo' = IF info.object THEN info ELSE Minimal
    BY <1>3 DEF FallbackExtraction, Answers
  <2>2. parsing = "fallback" /\ parsing' = "extracted" /\ UNCHANGED parsed
    BY <1>3 DEF FallbackExtraction
  <2>3. PICK a \in Answers : answers = <<a>> /\ ~ UsableInfo(a)
    BY <2>2 DEF TaskParserInv, FirstUseless
  <2>4. answers' = <<a, info>>
    BY <2>1, <2>3, OneOrTwo
  <2>5. SecondTaken'
    BY <2>1, <2>3, <2>4 DEF SecondTaken
  <2>6. Minimal \in Answers
    BY DEF Minimal, Answers, Info, Types
  <2>7. taskInfo' \in Answers
    BY <2>1, <2>6
  <2>8. QED
    BY <2>2, <2>5, <2>7 DEF TaskParserInv
<1>4. CASE BuildTask
  <2>1. /\ parsing = "extracted" /\ parsing' = "done" /\ UNCHANGED <<answers, taskInfo>>
        /\ parsed' = TaskOf(taskInfo)
    BY <1>4 DEF BuildTask, TaskOf
  <2>2. (FirstComplete \/ SecondTaken)'
    BY <2>1 DEF TaskParserInv, FirstComplete, SecondTaken
  <2>3. QED
    BY <2>1, <2>2 DEF TaskParserInv
<1>5. CASE UNCHANGED taskParserVars
  BY <1>5 DEF taskParserVars, TaskParserInv, NoAnswer, FirstUseless, FirstComplete,
              SecondTaken
<1>6. QED
  BY <1>1, <1>2, <1>3, <1>4, <1>5 DEF TaskParserNext

LEMMA TaskParserInvAlways == TaskParserSpec => []TaskParserInv
  BY TaskParserInvInit, TaskParserInvStep, PTL DEF TaskParserSpec

(* The task parser keeps to its types: it asks two models at most.           *)
THEOREM TaskParserTypeCorrect == TaskParserSpec => []TaskParserTypeOK
<1>1. ASSUME TaskParserInv
      PROVE  TaskParserTypeOK
  <2>1. answers \in Seq(Answers) /\ Len(answers) <= 2
    <3>1. \/ answers = <<>> \/ \E a \in Answers : answers = <<a>>
          \/ \E a \in Answers, b \in Answers : answers = <<a, b>>
      BY <1>1 DEF TaskParserInv, NoAnswer, FirstUseless, FirstComplete, SecondTaken
    <3>2. CASE answers = <<>>
      BY <3>2
    <3>3. CASE \E a \in Answers : answers = <<a>>
      BY <3>3, OneOrTwo
    <3>4. CASE \E a \in Answers, b \in Answers : answers = <<a, b>>
      BY <3>4, OneOrTwo
    <3>5. QED
      BY <3>1, <3>2, <3>3, <3>4
  <2>2. parsed.type \in Types \cup {"unknown"}
    <3>1. taskInfo.type \in Types
      BY <1>1, AnswersTyped DEF TaskParserInv
    <3>2. QED
      BY <1>1, <3>1 DEF TaskParserInv, TaskOf, NoTask, Types
  <2>3. QED
    BY <1>1, <2>1, <2>2 DEF TaskParserInv, TaskParserTypeOK, Answers
<1>2. QED
  BY <1>1, TaskParserInvAlways, PTL

(* Whatever the models answer, the task is that of the first complete answer *)
(* or of the second model's, it fails only for an object without a type, and  *)
(* it has a plan when it has steps.                                         *)
THEOREM TaskHonest == TaskParserSpec => []TasksHonest
<1>1. ASSUME TaskParserInv, parsing = "done"
      PROVE  TasksHonest
  <2>1. parsed = TaskOf(taskInfo) /\ (FirstComplete \/ SecondTaken)
    BY <1>1 DEF TaskParserInv
  <2>2. \A a \in Answers : a.object \in BOOLEAN /\ a.steps \in BOOLEAN /\ a.title \in BOOLEAN
    BY AnswersTyped
  <2>3. CASE FirstComplete
    <3>1. PICK a \in Answers : answers = <<a>> /\ UsableInfo(a) /\ taskInfo = a
      BY <2>3 DEF FirstComplete
    <3>2. /\ Len(answers) = 1 /\ answers[1] = a
          /\ parsed = [status |-> "pending", type |-> a.type, planned |-> NeedsPlan(a),
                       error |-> FALSE]
      BY <2>1, <3>1 DEF UsableInfo, TaskOf
    <3>3. QED
      BY <1>1, <2>2, <3>1, <3>2 DEF TasksHonest, UsableInfo, NeedsPlan
  <2>4. CASE SecondTaken
    <3>1. PICK a \in Answers, b \in Answers :
            /\ answers = <<a, b>> /\ ~ UsableInfo(a)
            /\ taskInfo = IF b.object THEN b ELSE Minimal
      BY <2>4 DEF SecondTaken
    <3>2. Len(answers) = 2 /\ answers[1] = a /\ answers[2] = b
      BY <3>1
    <3>3. CASE b.object
      BY <1>1, <2>1, <2>2, <3>1, <3>2, <3>3 DEF TasksHonest, UsableInfo, NeedsPlan, TaskOf
    <3>4. CASE ~ b.object
      <4>1. b = Useless /\ taskInfo = Minimal
        BY <3>1, <3>4 DEF Answers, Info
      <4>2. QED
        BY <1>1, <2>1, <2>2, <3>1, <3>2, <4>1
        DEF TasksHonest, UsableInfo, NeedsPlan, TaskOf, Minimal, Useless
    <3>5. QED
      BY <3>3, <3>4
  <2>5. QED
    BY <2>1, <2>3, <2>4
<1>2. ASSUME TaskParserInv
      PROVE  TasksHonest
  BY <1>1, <1>2 DEF TasksHonest
<1>3. QED
  BY <1>2, TaskParserInvAlways, PTL

-----------------------------------------------------------------------------
(* The forms.                                                               *)

FormsSpec == FormsInit /\ [][FormsNext]_formVars

Contents == [what : {"empty", "bad", "good"}, by : 0 .. MaxTyped]

FormsTypeInv ==
    /\ form \in DOMAIN Fields \cup {"none"}
    /\ values \in [AllFields -> Contents]
    /\ errors \subseteq AllFields
    /\ formError \in BOOLEAN /\ isSubmitting \in BOOLEAN
    /\ typed \in 0 .. MaxTyped /\ submitted \in 0 .. MaxSubmitted
    /\ sendStatus \in {"idle", "sending", "sent"}
    /\ timers \in Nat

\* Nothing is left of a form before one is open, and only the email form has a
\* status.
FormOpened ==
    /\ form = "none" => errors = {} /\ inFlight = {} /\ accepted = {} /\ ~ formError
    /\ sendStatus # "idle" => form = "email"

\* The flag says what is under way.
FlagTrue ==
    /\ isSubmitting <=> inFlight # {}
    /\ \A s, t \in inFlight : s = t
    /\ formError => inFlight = {}
    /\ sendStatus = "sending" => inFlight # {}

\* What was taken had passed, and what shows an error has not.
Validated ==
    /\ \A s \in inFlight \cup accepted : \A f \in Fields[form] : Passes(f, s.values[f])
    /\ \A f \in errors : ~ Passes(f, values[f])

\* Every timer is of a submission that is over.
TimersCounted == timers + (IF isSubmitting THEN 1 ELSE 0) <= submitted

FormsInv == FormsTypeInv /\ FormOpened /\ FlagTrue /\ Validated /\ TimersCounted

(* The fields of a form are fields, which only matter while it is open.      *)
LEMMA FieldsOfForm == \A f \in DOMAIN Fields : Fields[f] \subseteq AllFields
  BY DEF AllFields

LEMMA InitialContents ==
    /\ FormReset \in [AllFields -> Contents]
    /\ \A credentials \in BOOLEAN : InitialValues(credentials) \in [AllFields -> Contents]
<1>1. Content("empty", 0) \in Contents /\ Content("good", 0) \in Contents
  BY FormsAssumption DEF Content, Contents
<1>2. QED
  BY <1>1 DEF FormReset, InitialValues

LEMMA FormsInvInit == FormsInit => FormsInv
<1> SUFFICES ASSUME FormsInit
             PROVE  FormsInv
  OBVIOUS
<1>1. Content("empty", 0) \in Contents
  BY FormsAssumption DEF Content, Contents
<1>2. ~ isSubmitting /\ ~ formError /\ isSubmitting \in BOOLEAN /\ formError \in BOOLEAN
  BY DEF FormsInit
<1>3. FormsTypeInv
  BY <1>1, <1>2, FormsAssumption DEF FormsInit, FormsTypeInv
<1>4. QED
  BY <1>2, <1>3 DEF FormsInit, FormsInv, FormOpened, FlagTrue, Validated, TimersCounted

LEMMA FormsInvStep ==
    ASSUME FormsInv, [FormsNext]_formVars
    PROVE  FormsInv'
<1> USE DEF FormsInv
<1>1. CASE OpenForm
  <2>1. /\ form = "none" /\ form' \in DOMAIN Fields
        /\ UNCHANGED <<errors, formError, isSubmitting, inFlight, accepted, typed, submitted,
                       sendStatus, timers>>
    BY <1>1 DEF OpenForm
  <2>2. values' \in [AllFields -> Contents]
    BY <1>1, InitialContents DEF OpenForm
  <2>3. FormsTypeInv'
    BY <2>1, <2>2 DEF FormsTypeInv
  <2>4. FormOpened' /\ FlagTrue' /\ TimersCounted'
    BY <2>1 DEF FormOpened, FlagTrue, TimersCounted, Fields
  <2>5. Validated'
    BY <2>1 DEF FormOpened, Validated
  <2>6. QED
    BY <2>3, <2>4, <2>5
<1>2. ASSUME NEW f \in AllFields, HandleChange(f)
      PROVE  FormsInv'
  <2>1. /\ form # "none" /\ typed < MaxTyped /\ typed' = typed + 1
        /\ errors' = errors \ {f} /\ formError' = FALSE
        /\ UNCHANGED <<form, isSubmitting, inFlight, accepted, submitted, sendStatus, timers>>
    BY <1>2 DEF HandleChange
  <2>2. PICK what \in {"empty", "bad", "good"} :
          values' = [values EXCEPT ![f] = Content(what, typed + 1)]
    BY <1>2 DEF HandleChange
  <2>3. typed + 1 \in 0 .. MaxTyped
    BY <2>1, FormsAssumption DEF FormsTypeInv
  <2>4. Content(what, typed + 1) \in Contents
    BY <2>3 DEF Content, Contents
  <2>5. /\ values' \in [AllFields -> Contents]
        /\ \A g \in AllFields \ {f} : values'[g] = values[g]
    BY <2>2, <2>4 DEF FormsTypeInv
  <2>6. FormsTypeInv'
    BY <2>1, <2>3, <2>5 DEF FormsTypeInv
  <2>7. FormOpened' /\ FlagTrue' /\ TimersCounted'
    BY <2>1 DEF FormOpened, FlagTrue, TimersCounted
  <2>8. Validated'
    BY <2>1, <2>5 DEF FormsTypeInv, Validated
  <2>9. QED
    BY <2>6, <2>7, <2>8
<1>3. CASE HandleSubmit
  <2>1. /\ form # "none" /\ ~ isSubmitting /\ sendStatus # "sending"
        /\ submitted < MaxSubmitted /\ errors' = Invalid
        /\ UNCHANGED <<form, values, accepted, typed, timers>>
    BY <1>3 DEF HandleSubmit, ButtonEnabled
  <2>2. Invalid \subseteq AllFields /\ \A f \in Invalid : ~ Passes(f, values[f])
    BY <2>1, FieldsOfForm DEF Invalid, FormsTypeInv
  <2>3. inFlight = {}
    BY <2>1 DEF FlagTrue
  <2>4. CASE /\ Invalid # {}
             /\ UNCHANGED <<formError, isSubmitting, inFlight, submitted, sendStatus>>
    <3>1. FormsTypeInv'
      BY <2>1, <2>2, <2>4 DEF FormsTypeInv
    <3>2. FormOpened' /\ FlagTrue' /\ TimersCounted'
      BY <2>1, <2>4 DEF FormOpened, FlagTrue, TimersCounted
    <3>3. Validated'
      BY <2>1, <2>2, <2>4 DEF Validated
    <3>4. QED
      BY <3>1, <3>2, <3>3
  <2>5. CASE /\ Invalid = {}
             /\ isSubmitting' = TRUE /\ formError' = FALSE
             /\ submitted' = submitted + 1
             /\ inFlight' = inFlight \cup {[id |-> submitted + 1, values |-> values]}
             /\ sendStatus' = IF form = "email" THEN "sending" ELSE sendStatus
    <3> DEFINE s == [id |-> submitted + 1, values |-> values]
    <3>1. s.values = values /\ inFlight' = {s}
      BY <2>3, <2>5
    <3> HIDE DEF s
    <3>2. submitted' \in 0 .. MaxSubmitted
      BY <2>1, <2>5, FormsAssumption DEF FormsTypeInv
    <3>3. FormsTypeInv'
      BY <2>1, <2>2, <2>5, <3>2 DEF FormsTypeInv
    <3>4. FormOpened' /\ FlagTrue'
      BY <2>1, <2>5, <3>1 DEF FormOpened, FlagTrue
    <3>5. TimersCounted'
      BY <2>1, <2>5 DEF TimersCounted, FormsTypeInv
    <3>6. \A f \in Fields[form] : Passes(f, s.values[f])
      BY <2>5, <3>1 DEF Invalid
    <3>7. Validated'
      BY <2>1, <2>2, <3>1, <3>6 DEF Validated
    <3>8. QED
      BY <3>3, <3>4, <3>5, <3>7
  <2>6. QED
    BY <1>3, <2>4, <2>5 DEF HandleSubmit
<1>4. ASSUME NEW s \in inFlight, SubmissionSucceeds(s)
      PROVE  FormsInv'
  <2>1. /\ inFlight' = inFlight \ {s} /\ accepted' = accepted \cup {s}
        /\ isSubmitting' = FALSE
        /\ sendStatus' = IF form = "email" THEN "sent" ELSE sendStatus
        /\ timers' = IF form = "email" THEN timers + 1 ELSE timers
        /\ UNCHANGED <<form, typed, submitted>>
    BY <1>4 DEF SubmissionSucceeds
  <2>2. \/ values' = FormReset /\ errors' = {} /\ formError' = FALSE
        \/ UNCHANGED <<values, errors, formError>>
    BY <1>4 DEF SubmissionSucceeds
  <2>3. isSubmitting /\ inFlight' = {} /\ ~ formError
    BY <2>1 DEF FlagTrue
  <2>4. formError' \in BOOLEAN /\ ~ formError'
    <3>1. formError' = FALSE \/ formError' = formError
      BY <2>2
    <3>2. formError = FALSE
      BY <2>3, Zenon DEF FormsTypeInv
    <3>3. QED
      BY <3>1, <3>2
  <2>5. FormsTypeInv'
    <3>1. values' \in [AllFields -> Contents] /\ errors' \subseteq AllFields
      BY <2>2, InitialContents DEF FormsTypeInv
    <3>2. isSubmitting' \in BOOLEAN
      BY <2>1
    <3>3. timers' \in Nat
      BY <2>1 DEF FormsTypeInv
    <3>4. QED
      BY <2>1, <2>4, <3>1, <3>2, <3>3 DEF FormsTypeInv
  <2>6. FormOpened' /\ FlagTrue'
    BY <2>1, <2>2, <2>3, <2>4 DEF FormOpened, FlagTrue
  <2>7. TimersCounted'
    BY <2>1, <2>3 DEF TimersCounted, FormsTypeInv
  <2>8. Validated'
    BY <2>1, <2>2 DEF Validated
  <2>9. QED
    BY <2>5, <2>6, <2>7, <2>8
<1>5. ASSUME NEW s \in inFlight, SubmissionFails(s)
      PROVE  FormsInv'
  <2>1. /\ form # "email" /\ inFlight' = inFlight \ {s} /\ isSubmitting' = FALSE
        /\ formError' = TRUE
        /\ UNCHANGED <<form, values, errors, accepted, typed, submitted, sendStatus, timers>>
    BY <1>5 DEF SubmissionFails
  <2>2. isSubmitting /\ inFlight' = {} /\ form # "none"
    BY <2>1 DEF FlagTrue, FormOpened
  <2>3. FormsTypeInv'
    BY <2>1 DEF FormsTypeInv
  <2>4. FormOpened' /\ FlagTrue'
    BY <2>1, <2>2 DEF FormOpened, FlagTrue
  <2>5. TimersCounted'
    BY <2>1, <2>2 DEF TimersCounted, FormsTypeInv
  <2>6. Validated'
    BY <2>1 DEF Validated
  <2>7. QED
    BY <2>3, <2>4, <2>5, <2>6
<1>6. CASE StatusTimerFires
  <2>1. /\ timers > 0 /\ timers' = timers - 1 /\ sendStatus' = "idle"
        /\ UNCHANGED <<form, values, errors, formError, isSubmitting, inFlight, accepted,
                       typed, submitted>>
    BY <1>6 DEF StatusTimerFires
  <2>2. FormsTypeInv'
    BY <2>1 DEF FormsTypeInv
  <2>3. FormOpened' /\ FlagTrue'
    BY <2>1 DEF FormOpened, FlagTrue
  <2>4. TimersCounted'
    BY <2>1 DEF TimersCounted, FormsTypeInv
  <2>5. Validated'
    BY <2>1 DEF Validated
  <2>6. QED
    BY <2>2, <2>3, <2>4, <2>5
<1>7. CASE UNCHANGED formVars
  BY <1>7 DEF formVars, FormsTypeInv, FormOpened, FlagTrue, Validated, TimersCounted
<1>8. QED
  BY <1>1, <1>2, <1>3, <1>4, <1>5, <1>6, <1>7 DEF FormsNext

LEMMA FormsInvAlways == FormsSpec => []FormsInv
  BY FormsInvInit, FormsInvStep, PTL DEF FormsSpec

(* The forms keep to their types: no more timers than submissions.           *)
THEOREM FormsTypeCorrect == FormsSpec => []FormsTypeOK
<1>1. ASSUME FormsInv
      PROVE  FormsTypeOK
  <2>1. timers \in 0 .. MaxSubmitted
    BY <1>1, FormsAssumption DEF FormsInv, FormsTypeInv, TimersCounted
  <2>2. QED
    BY <1>1, <2>1 DEF FormsInv, FormsTypeInv, FormsTypeOK
<1>2. QED
  BY <1>1, FormsInvAlways, PTL

(* Whatever is typed while a submission is under way and whenever a timer    *)
(* fires, a form has one submission at a time, of values that had passed, and *)
(* its flag, its errors and its status say so.                              *)
THEOREM FormsTruthful == FormsSpec => []FormsHonest
<1>1. ASSUME FormsInv
      PROVE  FormsHonest
  <2>1. Cardinality(inFlight) <= 1
    <3>1. CASE inFlight = {}
      BY <3>1, FS_EmptySet
    <3>2. CASE inFlight # {}
      <4>1. PICK s \in inFlight : inFlight = {s}
        BY <1>1, <3>2 DEF FormsInv, FlagTrue
      <4>2. QED
        BY <4>1, FS_Singleton
    <3>3. QED
      BY <3>1, <3>2
  <2>2. QED
    BY <1>1, <2>1 DEF FormsInv, FlagTrue, Validated, FormsHonest
<1>2. QED
  BY <1>1, FormsInvAlways, PTL

-----------------------------------------------------------------------------
(* Retried calls and the errors they end in.                                *)

ErrorsSpec == ErrorsInit /\ [][ErrorsNext]_errorVars

RetryCalls == [helper : Helpers \cup {"none"}, limit : 0 .. MaxRetries, attempt : Nat,
               delay : Nat \ {0}, wait : Nat, noted : Nat, broken : BOOLEAN,
               at : {"idle", "calling", "noting", "waiting", "returned", "threw"}]
Codes == {"VALIDATION_ERROR", "AUTHENTICATION_FAILED", "AUTHORIZATION_FAILED", "NOT_FOUND",
          "DATABASE_ERROR", "EXTERNAL_SERVICE_ERROR", "RATE_LIMIT_EXCEEDED",
          "WORKFLOW_ERROR", "EMAIL_ERROR", "TASK_PARSING_ERROR", "SCHEDULER_ERROR",
          "CONFIGURATION_ERROR", "INTERNAL_ERROR", "UNEXPECTED_ERROR", "none"}
Errors == [status : Nat, operational : BOOLEAN, code : Codes]

\* The calls that a caller of helper h allows with limit n.
Allowed(h, n) ==
    IF h = "retryWithBackoff" THEN IF n = 0 THEN 1 ELSE n ELSE n + 1

\* The calls, and the attempts that were counted and noted, at every place.
RetriesCounted ==
    LET c == retryCall
        allowed == Allowed(c.helper, c.limit)
    IN
    /\ c.at = "idle" => c.helper = "none" /\ c.attempt = 0 /\ c.noted = 0 /\ Calls = 0
    /\ c.at \in {"calling", "waiting"} =>
         Calls = c.attempt /\ c.noted = c.attempt /\ c.attempt < allowed
    /\ c.at = "noting" => Calls = c.attempt /\ c.noted + 1 = c.attempt /\ c.attempt < allowed
    /\ c.at = "returned" =>
         /\ Calls = c.attempt + 1 /\ c.noted = c.attempt /\ Calls <= allowed
         /\ outcomes[Calls] = "returned"
    /\ c.at = "threw" =>
         /\ Calls = c.attempt /\ Calls <= allowed
         /\ IF c.broken THEN c.noted = c.attempt
                        ELSE /\ c.noted + 1 = c.attempt
                             /\ Calls = allowed \/ outcomes[Calls] = "refused"
    /\ c.broken => c.at = "threw"
    /\ c.helper = "direct" => c.limit = 0

OthersFailed ==
    \A i \in 1 .. Calls :
      outcomes[i] # "failed" => i = Calls /\ retryCall.at \in {"returned", "threw"}

DelayBounded ==
    retryCall.helper # "executeWithRetry" =>
        retryCall.delay <= MaxDelay /\ 2 * retryCall.wait < 3 * MaxDelay

\* An error e still says what the client is to hear of an error of the class.
Tells(e, class) ==
    /\ e.code # "none"
    /\ e.status = class.status /\ e.operational = class.operational
    /\ class.operational /\ class.code # "UNEXPECTED_ERROR" => e.code = class.code

ErrorKept ==
    /\ error \in Errors /\ answer \in Errors
    /\ thrown \in ErrorKinds \cup {"none"}
    /\ retryCall.at \in {"noting", "threw"} => thrown \in ErrorKinds
    /\ thrown \in ErrorKinds => Tells(ToAppError(error), ToAppError(Thrown(thrown)))
    /\ answer # NoError =>
         retryCall.at = "threw" /\ Tells(answer, ToAppError(Thrown(thrown)))

ErrorsInv ==
    /\ retryCall \in RetryCalls
    /\ outcomes \in Seq({"returned", "failed", "refused"})
    /\ wraps \in 0 .. MaxWraps
    /\ RetriesCounted /\ OthersFailed /\ DelayBounded
    /\ ErrorKept

(* Every class of error, and any other, has a status and a code; what the    *)
(* server makes of it has a code too.                                       *)
LEMMA KindsAreErrors ==
    \A kind \in ErrorKinds : Thrown(kind) \in Errors
<1>1. \A kind \in DOMAIN Classes : Classes[kind] \in Errors
  <2>1. DOMAIN Classes = {"validation", "authentication", "authorization", "notFound",
                          "database", "external", "rateLimit", "workflow", "email",
                          "taskParsing", "scheduler", "configuration", "internal", "coded"}
    BY DEF Classes
  <2>2. /\ Classes["validation"] \in Errors /\ Classes["authentication"] \in Errors
        /\ Classes["authorization"] \in Errors /\ Classes["notFound"] \in Errors
        /\ Classes["database"] \in Errors /\ Classes["external"] \in Errors
        /\ Classes["rateLimit"] \in Errors
    BY DEF Classes, Class, Errors, Codes
  <2>3. /\ Classes["workflow"] \in Errors /\ Classes["email"] \in Errors
        /\ Classes["taskParsing"] \in Errors /\ Classes["scheduler"] \in Errors
        /\ Classes["configuration"] \in Errors /\ Classes["internal"] \in Errors
        /\ Classes["coded"] \in Errors
    BY DEF Classes, Class, Errors, Codes
  <2>4. QED
    BY <2>1, <2>2, <2>3
<1>2. \A kind \in DOMAIN OtherErrors : OtherErrors[kind] \in Errors
  <2>1. DOMAIN OtherErrors = {"plain", "parse"}
    BY DEF OtherErrors
  <2>2. OtherErrors["plain"] \in Errors /\ OtherErrors["parse"] \in Errors
    BY DEF OtherErrors, Class, Errors, Codes
  <2>3. QED
    BY <2>1, <2>2
<1>3. QED
  BY <1>1, <1>2 DEF ErrorKinds, Thrown

LEMMA AppErrors ==
    ASSUME NEW e \in Errors
    PROVE  ToAppError(e) \in Errors /\ ToAppError(e).code # "none"
<1>1. Classes.internal = Class(500, FALSE, "INTERNAL_ERROR")
  BY DEF Classes
<1>2. Classes.internal \in Errors /\ Classes.internal.code # "none"
  BY <1>1 DEF Class, Errors, Codes
<1>3. QED
  BY <1>2 DEF ToAppError, IsAppError

\* Of an error that is one of the program, nothing is made.
LEMMA AppErrorStays ==
    ASSUME NEW e, e.code # "none"
    PROVE  ToAppError(e) = e
  BY DEF ToAppError, IsAppError

LEMMA ErrorsInvInit == ErrorsInit => ErrorsInv
<1> SUFFICES ASSUME ErrorsInit
             PROVE  ErrorsInv
  OBVIOUS
<1>1. retryCall \in RetryCalls
  BY ErrorHandlingAssumption DEF ErrorsInit, RetryCalls, Helpers
<1>2. outcomes \in Seq({"returned", "failed", "refused"}) /\ Calls = 0
  BY DEF ErrorsInit, Calls
<1>3. NoError \in Errors
  BY DEF NoError, Class, Errors, Codes
<1>4. ErrorKept
  BY <1>3 DEF ErrorsInit, ErrorKept, ErrorKinds, Classes, OtherErrors
<1>5. RetriesCounted /\ OthersFailed /\ DelayBounded
  BY <1>2, ErrorHandlingAssumption DEF ErrorsInit, RetriesCounted, OthersFailed, DelayBounded
<1>6. QED
  BY <1>1, <1>2, <1>4, <1>5, ErrorHandlingAssumption DEF ErrorsInit, ErrorsInv

(* A step of a helper leaves the errors alone.                              *)
LEMMA ErrorsLeft ==
    ASSUME ErrorKept, UNCHANGED <<thrown, error, answer>>,
           retryCall.at # "threw",
           retryCall'.at \in {"noting", "threw"} => retryCall.at = "noting"
    PROVE  ErrorKept'
  BY DEF ErrorKept

(* What one more call adds to the history.                                  *)
LEMMA OutcomesGrow ==
    ASSUME NEW S, outcomes \in Seq(S), NEW o \in S, outcomes' = Append(outcomes, o)
    PROVE  /\ outcomes' \in Seq(S) /\ Calls \in Nat /\ Calls' = Calls + 1
           /\ outcomes'[Calls'] = o
           /\ \A i \in 1 .. Calls : outcomes'[i] = outcomes[i]
<1>1. /\ outcomes' \in Seq(S) /\ Len(outcomes') = Len(outcomes) + 1
      /\ \A i \in 1 .. Len(outcomes) : outcomes'[i] = outcomes[i]
      /\ outcomes'[Len(outcomes) + 1] = o
  BY AppendProperties, Zenon
<1>2. Len(outcomes) \in Nat
  OBVIOUS
<1>3. QED
  BY <1>1, <1>2 DEF Calls

LEMMA BeginRetryingKeeps ==
    ASSUME ErrorsInv, BeginRetrying
    PROVE  ErrorsInv'
<1>1. retryCall.at = "idle" /\ UNCHANGED <<outcomes, thrown, error, wraps, answer>>
  BY DEF BeginRetrying
<1>2. PICK h \in Helpers, n \in 0 .. MaxRetries :
        /\ h = "direct" => n = 0
        /\ retryCall' = [retryCall EXCEPT !.helper = h, !.limit = n, !.at = "calling"]
  BY DEF BeginRetrying
<1>3. retryCall \in RetryCalls
  BY DEF ErrorsInv
<1>4. /\ retryCall' \in RetryCalls /\ retryCall'.helper = h /\ retryCall'.limit = n
      /\ retryCall'.at = "calling" /\ retryCall'.attempt = retryCall.attempt
      /\ retryCall'.noted = retryCall.noted
      /\ retryCall'.delay = retryCall.delay /\ retryCall'.wait = retryCall.wait
  BY <1>2, <1>3 DEF RetryCalls
<1>5. retryCall'.broken = retryCall.broken /\ ~ retryCall.broken
  BY <1>1, <1>2, <1>3 DEF RetryCalls, ErrorsInv, RetriesCounted
<1>6. Calls' = Calls
  BY <1>1 DEF Calls
<1>7. 0 < Allowed(h, n)
  BY ErrorHandlingAssumption DEF Allowed
<1>8. RetriesCounted'
  BY <1>1, <1>2, <1>4, <1>5, <1>6, <1>7 DEF ErrorsInv, RetriesCounted
<1>9. OthersFailed' /\ DelayBounded'
  BY <1>1, <1>4, <1>6 DEF ErrorsInv, RetriesCounted, OthersFailed, DelayBounded
<1>10. ErrorKept'
  BY <1>1, <1>4, ErrorsLeft DEF ErrorsInv
<1>11. QED
  BY <1>1, <1>4, <1>8, <1>9, <1>10 DEF ErrorsInv

LEMMA CallReturnsKeeps ==
    ASSUME ErrorsInv, CallReturns
    PROVE  ErrorsInv'
<1>1. /\ retryCall.at = "calling" /\ UNCHANGED <<thrown, error, wraps, answer>>
      /\ outcomes' = Append(outcomes, "returned")
      /\ retryCall' = [retryCall EXCEPT !.at = "returned"]
  BY DEF CallReturns
<1>2. retryCall \in RetryCalls
  BY DEF ErrorsInv
<1>3. /\ retryCall' \in RetryCalls /\ retryCall'.at = "returned"
      /\ retryCall'.helper = retryCall.helper /\ retryCall'.limit = retryCall.limit
      /\ retryCall'.attempt = retryCall.attempt /\ retryCall'.noted = retryCall.noted
      /\ retryCall'.delay = retryCall.delay /\ retryCall'.wait = retryCall.wait
  BY <1>1, <1>2 DEF RetryCalls
<1>4. retryCall'.broken = retryCall.broken /\ ~ retryCall.broken
  BY <1>1, <1>2 DEF RetryCalls, ErrorsInv, RetriesCounted
<1>5. /\ outcomes' \in Seq({"returned", "failed", "refused"})
      /\ Calls \in Nat /\ Calls' = Calls + 1 /\ outcomes'[Calls'] = "returned"
      /\ \A i \in 1 .. Calls : outcomes'[i] = outcomes[i]
  BY <1>1, OutcomesGrow DEF ErrorsInv
<1>6. /\ Calls = retryCall.attempt /\ retryCall.noted = retryCall.attempt
      /\ retryCall.attempt < Allowed(retryCall.helper, retryCall.limit)
      /\ retryCall.helper = "direct" => retryCall.limit = 0
  BY <1>1 DEF ErrorsInv, RetriesCounted
<1>7. Allowed(retryCall.helper, retryCall.limit) \in Nat
  BY <1>2, ErrorHandlingAssumption DEF Allowed, RetryCalls
<1>8. RetriesCounted'
  BY <1>3, <1>4, <1>5, <1>6, <1>7 DEF RetriesCounted
<1>9. OthersFailed'
  BY <1>1, <1>3, <1>5 DEF ErrorsInv, OthersFailed
<1>10. DelayBounded'
  BY <1>3 DEF ErrorsInv, DelayBounded
<1>11. ErrorKept'
  BY <1>1, <1>3, ErrorsLeft DEF ErrorsInv
<1>12. QED
  BY <1>1, <1>3, <1>5, <1>8, <1>9, <1>10, <1>11 DEF ErrorsInv

LEMMA CallThrowsKeeps ==
    ASSUME ErrorsInv, CallThrows
    PROVE  ErrorsInv'
<1> DEFINE h == retryCall.helper
           failed == retryCall.attempt + 1
           allowed == Allowed(h, retryCall.limit)
<1>1. PICK kind \in ErrorKinds, again \in BOOLEAN :
        /\ outcomes' = Append(outcomes, IF again THEN "failed" ELSE "refused")
        /\ thrown' = kind
        /\ error' = IF h = "retryWithBackoff" THEN ToAppError(Thrown(kind)) ELSE Thrown(kind)
        /\ retryCall' = [retryCall EXCEPT
                           !.attempt = failed,
                           !.at = IF h = "direct" \/ RetriesUsedUp(h, failed) \/ ~ again
                                  THEN "threw" ELSE "noting"]
  BY Zenon DEF CallThrows
<1>2. retryCall.at = "calling" /\ UNCHANGED <<wraps, answer>> /\ retryCall \in RetryCalls
  BY DEF CallThrows, ErrorsInv
<1>3. PICK ends \in BOOLEAN : ends <=> h = "direct" \/ RetriesUsedUp(h, failed) \/ ~ again
  OBVIOUS
<1>4. retryCall' = [retryCall EXCEPT !.attempt = failed,
                                     !.at = IF ends THEN "threw" ELSE "noting"]
  BY <1>1, <1>3
<1>5. /\ retryCall' \in RetryCalls /\ retryCall'.at = IF ends THEN "threw" ELSE "noting"
      /\ retryCall'.helper = h /\ retryCall'.limit = retryCall.limit
      /\ retryCall'.attempt = failed /\ retryCall'.noted = retryCall.noted
      /\ retryCall'.delay = retryCall.delay /\ retryCall'.wait = retryCall.wait
  <2>1. PICK place \in {"threw", "noting"} : place = IF ends THEN "threw" ELSE "noting"
    OBVIOUS
  <2>2. retryCall' = [retryCall EXCEPT !.attempt = failed, !.at = place]
    BY <1>4, <2>1
  <2>3. failed \in Nat
    BY <1>2 DEF RetryCalls
  <2> HIDE DEF failed
  <2>4. QED
    BY <1>2, <2>1, <2>2, <2>3 DEF RetryCalls
<1>6. retryCall'.broken = retryCall.broken /\ ~ retryCall.broken
  BY <1>2, <1>4 DEF RetryCalls, ErrorsInv, RetriesCounted
<1>7. PICK o \in {"failed", "refused"} :
        (o = "refused" <=> ~ again) /\ outcomes' = Append(outcomes, o)
  BY <1>1
<1>8. /\ outcomes' \in Seq({"returned", "failed", "refused"})
      /\ Calls \in Nat /\ Calls' = Calls + 1 /\ outcomes'[Calls'] = o
      /\ \A i \in 1 .. Calls : outcomes'[i] = outcomes[i]
  BY <1>7, OutcomesGrow DEF ErrorsInv
<1>9. /\ Calls = retryCall.attempt /\ retryCall.noted = retryCall.attempt
      /\ retryCall.attempt < allowed
      /\ h = "direct" => retryCall.limit = 0
  BY <1>2 DEF ErrorsInv, RetriesCounted
<1>10. allowed \in Nat /\ failed \in Nat /\ failed <= allowed
  BY <1>2, <1>9, ErrorHandlingAssumption DEF Allowed, RetryCalls
<1>11. ends => failed = allowed \/ o = "refused"
  BY <1>2, <1>3, <1>7, <1>9, <1>10, ErrorHandlingAssumption
  DEF RetriesUsedUp, Allowed, RetryCalls
<1>12. ~ ends => failed < allowed /\ o = "failed"
  BY <1>2, <1>3, <1>7, <1>9, <1>10, ErrorHandlingAssumption
  DEF RetriesUsedUp, Allowed, RetryCalls
<1> HIDE DEF h, failed, allowed
<1>13. allowed = Allowed(retryCall'.helper, retryCall'.limit)
  BY <1>5 DEF allowed
<1>14. failed = retryCall.attempt + 1 /\ h = retryCall'.helper
  BY <1>5 DEF failed, h
<1>15. RetriesCounted'
  <2>1. CASE ends
    BY <2>1, <1>5, <1>6, <1>8, <1>9, <1>10, <1>11, <1>13, <1>14 DEF RetriesCounted
  <2>2. CASE ~ ends
    BY <2>2, <1>5, <1>6, <1>8, <1>9, <1>10, <1>12, <1>13, <1>14 DEF RetriesCounted
  <2>3. QED
    BY <2>1, <2>2
<1>16. OthersFailed'
  BY <1>2, <1>5, <1>8, <1>12 DEF ErrorsInv, OthersFailed
<1>17. DelayBounded'
  BY <1>5 DEF h, ErrorsInv, DelayBounded
<1>18. ErrorKept'
  <2>1. Thrown(kind) \in Errors
    BY KindsAreErrors
  <2>2. ToAppError(Thrown(kind)) \in Errors /\ ToAppError(Thrown(kind)).code # "none"
    BY <2>1, AppErrors
  <2>3. error' \in Errors /\ ToAppError(error') = ToAppError(Thrown(kind))
    BY <1>1, <2>1, <2>2, AppErrorStays
  <2>4. Tells(ToAppError(Thrown(kind)), ToAppError(Thrown(kind)))
    BY <2>2 DEF Tells
  <2>5. answer = NoError /\ answer' = NoError /\ answer \in Errors
    BY <1>2 DEF ErrorsInv, ErrorKept
  <2>6. thrown' = kind
    BY <1>1
  <2>7. QED
    BY <2>3, <2>4, <2>5, <2>6 DEF ErrorKept
<1>19. QED
  BY <1>2, <1>5, <1>8, <1>15, <1>16, <1>17, <1>18 DEF ErrorsInv

LEMMA NoteRetryKeeps ==
    ASSUME ErrorsInv, NoteRetry
    PROVE  ErrorsInv'
<1>1. PICK breaks \in BOOLEAN, w \in TimeToWait(retryCall.helper) \cup {retryCall.wait} :
        retryCall' = [retryCall EXCEPT !.noted = retryCall.attempt,
                                       !.at = IF breaks THEN "threw" ELSE "waiting",
                                       !.wait = w, !.broken = breaks]
  <2> DEFINE noted == [retryCall EXCEPT !.noted = retryCall.attempt]
  <2>1. retryCall.at = "noting" /\ retryCall.broken = FALSE /\ retryCall \in RetryCalls
    <3>1. retryCall.at = "noting" /\ retryCall \in RetryCalls
      BY DEF NoteRetry, ErrorsInv
    <3>2. retryCall.broken \in BOOLEAN /\ ~ retryCall.broken
      BY <3>1 DEF RetryCalls, ErrorsInv, RetriesCounted
    <3>3. QED
      BY <3>1, <3>2
  <2>2. ASSUME NEW w \in TimeToWait(retryCall.helper),
               retryCall' = [noted EXCEPT !.at = "waiting", !.wait = w]
        PROVE  \E breaks \in BOOLEAN, v \in TimeToWait(retryCall.helper) \cup {retryCall.wait} :
                 retryCall' = [retryCall EXCEPT !.noted = retryCall.attempt,
                                       !.at = IF breaks THEN "threw" ELSE "waiting",
                                       !.wait = v, !.broken = breaks]
    <3>1. retryCall' = [retryCall EXCEPT !.noted = retryCall.attempt, !.at = "waiting",
                                         !.wait = w, !.broken = FALSE]
      BY <2>1, <2>2 DEF RetryCalls
    <3>2. QED
      BY <3>1
  <2>3. CASE retryCall' = [noted EXCEPT !.at = "threw", !.broken = TRUE]
    <3>1. retryCall' = [retryCall EXCEPT !.noted = retryCall.attempt, !.at = "threw",
                                         !.wait = retryCall.wait, !.broken = TRUE]
      BY <2>1, <2>3 DEF RetryCalls
    <3>2. QED
      BY <3>1
  <2>4. QED
    BY <2>2, <2>3 DEF NoteRetry
<1>2. /\ retryCall.at = "noting" /\ retryCall \in RetryCalls
      /\ UNCHANGED <<outcomes, thrown, error, wraps, answer>>
  BY DEF NoteRetry, ErrorsInv
<1> DEFINE bounded == retryCall.helper # "executeWithRetry" => 2 * w < 3 * MaxDelay
<1>3. w \in Nat /\ bounded
  <2>1. retryCall.delay \in Nat \ {0} /\ retryCall.wait \in Nat
    BY <1>2 DEF RetryCalls
  <2>2. /\ DelayBounded /\ MaxDelay \in Nat \ {0}
    BY ErrorHandlingAssumption DEF ErrorsInv
  <2>3. CASE w = retryCall.wait
    BY <2>1, <2>2, <2>3 DEF DelayBounded
  <2>4. CASE w \in TimeToWait(retryCall.helper)
    BY <2>1, <2>2, <2>4 DEF DelayBounded, TimeToWait
  <2>5. QED
    BY <2>3, <2>4
<1>4. /\ retryCall' \in RetryCalls /\ retryCall'.at = IF breaks THEN "threw" ELSE "waiting"
      /\ retryCall'.helper = retryCall.helper /\ retryCall'.limit = retryCall.limit
      /\ retryCall'.attempt = retryCall.attempt /\ retryCall'.noted = retryCall.attempt
      /\ retryCall'.delay = retryCall.delay /\ retryCall'.wait = w
  BY <1>1, <1>2, <1>3 DEF RetryCalls
<1>5. retryCall'.broken = breaks
  BY <1>1, <1>2 DEF RetryCalls
<1>6. Calls' = Calls /\ outcomes' = outcomes
  BY <1>2 DEF Calls
<1>7. /\ Calls = retryCall.attempt
      /\ retryCall.attempt < Allowed(retryCall.helper, retryCall.limit)
      /\ retryCall.helper = "direct" => retryCall.limit = 0
      /\ Allowed(retryCall.helper, retryCall.limit) \in Nat /\ retryCall.attempt \in Nat
  BY <1>2, ErrorHandlingAssumption DEF ErrorsInv, RetriesCounted, Allowed, RetryCalls
<1>8. RetriesCounted'
  BY <1>4, <1>5, <1>6, <1>7 DEF RetriesCounted
<1>9. OthersFailed' /\ DelayBounded'
  BY <1>2, <1>3, <1>4, <1>6 DEF ErrorsInv, OthersFailed, DelayBounded
<1>10. ErrorKept'
  BY <1>2, ErrorsLeft DEF ErrorsInv
<1>11. QED
  BY <1>2, <1>4, <1>8, <1>9, <1>10 DEF ErrorsInv

LEMMA DelayEndsKeeps ==
    ASSUME ErrorsInv, DelayEnds
    PROVE  ErrorsInv'
<1> DEFINE next == NextDelay(retryCall.helper)
<1>1. /\ retryCall.at = "waiting" /\ retryCall \in RetryCalls
      /\ retryCall' = [retryCall EXCEPT !.at = "calling", !.wait = 0, !.delay = next]
      /\ UNCHANGED <<outcomes, thrown, error, wraps, answer>>
  BY DEF DelayEnds, ErrorsInv
<1>2. retryCall.delay * 2 \in Nat \ {0}
  BY <1>1 DEF RetryCalls
<1>3. /\ next \in Nat \ {0}
      /\ retryCall.helper # "executeWithRetry" => next <= MaxDelay
  BY <1>2, ErrorHandlingAssumption DEF NextDelay, Capped
<1> HIDE DEF next
<1>4. /\ retryCall' \in RetryCalls /\ retryCall'.at = "calling"
      /\ retryCall'.helper = retryCall.helper /\ retryCall'.limit = retryCall.limit
      /\ retryCall'.attempt = retryCall.attempt /\ retryCall'.noted = retryCall.noted
      /\ retryCall'.delay = next /\ retryCall'.wait = 0
  BY <1>1, <1>3 DEF RetryCalls
<1>5. retryCall'.broken = retryCall.broken /\ ~ retryCall.broken
  BY <1>1 DEF RetryCalls, ErrorsInv, RetriesCounted
<1>6. Calls' = Calls /\ outcomes' = outcomes
  BY <1>1 DEF Calls
<1>7. RetriesCounted'
  BY <1>1, <1>4, <1>5, <1>6 DEF ErrorsInv, RetriesCounted
<1>8. OthersFailed' /\ DelayBounded'
  <2>1. OthersFailed'
    BY <1>1, <1>4, <1>6 DEF ErrorsInv, OthersFailed
  <2>2. 2 * 0 < 3 * MaxDelay
    BY ErrorHandlingAssumption
  <2>3. DelayBounded'
    BY <1>3, <1>4, <2>2 DEF DelayBounded
  <2>4. QED
    BY <2>1, <2>3
<1>9. ErrorKept'
  BY <1>1, <1>4, ErrorsLeft DEF ErrorsInv
<1>10. QED
  BY <1>1, <1>4, <1>7, <1>8, <1>9 DEF ErrorsInv

(* A wrapper may change an error as long as it still tells the client what it *)
(* is to hear.                                                              *)
LEMMA WrapKeeps ==
    ASSUME ErrorsInv, NEW e \in Errors, Wrap(e),
           \A class \in Errors : Tells(ToAppError(error), class) => Tells(ToAppError(e), class)
    PROVE  ErrorsInv'
<1>1. /\ wraps < MaxWraps /\ error' = e /\ wraps' = wraps + 1
      /\ UNCHANGED <<retryCall, outcomes, thrown, answer>>
  BY DEF Wrap
<1>2. wraps' \in 0 .. MaxWraps
  BY <1>1, ErrorHandlingAssumption DEF ErrorsInv
<1>3. RetriesCounted' /\ OthersFailed' /\ DelayBounded'
  BY <1>1 DEF ErrorsInv, RetriesCounted, OthersFailed, DelayBounded, Calls
<1>4. thrown \in ErrorKinds => ToAppError(Thrown(thrown)) \in Errors
  BY KindsAreErrors, AppErrors
<1>5. thrown \in ErrorKinds => Tells(ToAppError(e), ToAppError(Thrown(thrown)))
  BY <1>4 DEF ErrorsInv, ErrorKept
<1>6. ErrorKept'
  BY <1>1, <1>5 DEF ErrorsInv, ErrorKept
<1>7. QED
  BY <1>1, <1>2, <1>3, <1>6 DEF ErrorsInv

LEMMA WrappersKeep ==
    ASSUME ErrorsInv, TryCatch \/ HandleApiError \/ AsyncHandler \/ TryCatchWithContext
    PROVE  ErrorsInv'
<1> DEFINE a == ToAppError(error)
<1>1. error \in Errors /\ a \in Errors /\ a.code # "none"
  BY AppErrors DEF ErrorsInv, ErrorKept
<1>2. ToAppError(a) = a
  BY <1>1, AppErrorStays
<1>3. CASE TryCatch
  <2> DEFINE e == IF a.operational THEN a ELSE [a EXCEPT !.code = "UNEXPECTED_ERROR"]
  <2>1. Wrap(e)
    BY <1>3 DEF TryCatch
  <2> HIDE DEF a
  <2>2. e \in Errors /\ e.code # "none"
    BY <1>1 DEF Errors, Codes
  <2>3. e.status = a.status /\ (a.operational => e = a)
    BY <1>1 DEF Errors
  <2>4. e.operational = a.operational
    BY <1>1 DEF Errors
  <2> HIDE DEF e
  <2>5. ToAppError(e) = e
    BY <2>2, AppErrorStays
  <2>6. \A class \in Errors : Tells(a, class) => Tells(e, class)
    BY <2>2, <2>3, <2>4 DEF Tells
  <2>7. \A class \in Errors : Tells(ToAppError(error), class) => Tells(ToAppError(e), class)
    BY <2>5, <2>6 DEF a
  <2>8. QED
    BY <2>1, <2>2, <2>7, WrapKeeps
<1>4. CASE HandleApiError
  <2> DEFINE e == IF a.code = "UNEXPECTED_ERROR" THEN [a EXCEPT !.code = "INTERNAL_ERROR"] ELSE a
  <2>1. Wrap(e)
    BY <1>4 DEF HandleApiError
  <2> HIDE DEF a
  <2>2. e \in Errors /\ e.code # "none"
    BY <1>1 DEF Errors, Codes
  <2>3. e.status = a.status /\ (a.code # "UNEXPECTED_ERROR" => e = a)
    BY <1>1 DEF Errors
  <2>4. e.operational = a.operational
    BY <1>1 DEF Errors
  <2> HIDE DEF e
  <2>5. ToAppError(e) = e
    BY <2>2, AppErrorStays
  <2>6. \A class \in Errors : Tells(a, class) => Tells(e, class)
    BY <2>2, <2>3, <2>4 DEF Tells
  <2>7. \A class \in Errors : Tells(ToAppError(error), class) => Tells(ToAppError(e), class)
    BY <2>5, <2>6 DEF a
  <2>8. QED
    BY <2>1, <2>2, <2>7, WrapKeeps
<1>5. CASE AsyncHandler
  BY <1>1, <1>2, <1>5, WrapKeeps DEF AsyncHandler
<1>6. CASE TryCatchWithContext
  BY <1>1, <1>6, WrapKeeps DEF TryCatchWithContext
<1>7. QED
  BY <1>3, <1>4, <1>5, <1>6

LEMMA ErrorsInvStep ==
    ASSUME ErrorsInv, [ErrorsNext]_errorVars
    PROVE  ErrorsInv'
<1>1. CASE ErrorHandlerMiddleware
  <2>1. /\ retryCall.at = "threw" /\ answer' = ToAppError(error)
        /\ UNCHANGED <<retryCall, outcomes, thrown, error, wraps>>
    BY <1>1 DEF ErrorHandlerMiddleware
  <2>2. RetriesCounted' /\ OthersFailed' /\ DelayBounded'
    BY <2>1 DEF ErrorsInv, RetriesCounted, OthersFailed, DelayBounded, Calls
  <2>3. answer' \in Errors
    BY <2>1, AppErrors DEF ErrorsInv, ErrorKept
  <2>4. ErrorKept'
    BY <2>1, <2>3 DEF ErrorsInv, ErrorKept
  <2>5. QED
    BY <2>1, <2>2, <2>4 DEF ErrorsInv
<1>2. CASE UNCHANGED errorVars
  BY <1>2 DEF errorVars, ErrorsInv, RetriesCounted, OthersFailed, DelayBounded, ErrorKept,
              Calls
<1>3. QED
  BY <1>1, <1>2, BeginRetryingKeeps, CallReturnsKeeps, CallThrowsKeeps, NoteRetryKeeps,
     DelayEndsKeeps, WrappersKeep
  DEF ErrorsNext

LEMMA ErrorsInvAlways == ErrorsSpec => []ErrorsInv
  BY ErrorsInvInit, ErrorsInvStep, PTL DEF ErrorsSpec

(* Retried calls and errors keep to their types.                            *)
THEOREM ErrorsTypeCorrect == ErrorsSpec => []ErrorsTypeOK
<1>1. ErrorsInv => ErrorsTypeOK
  BY DEF ErrorsInv, RetryCalls, ErrorKept, ErrorsTypeOK
<1>2. QED
  BY <1>1, ErrorsInvAlways, PTL

(* Whatever the calls do and whatever the callback and the condition of the   *)
(* caller say, a helper calls no more often than it is allowed, ends with a   *)
(* reason, and reports the calls that there were.                           *)
THEOREM RetriesBounded == ErrorsSpec => []RetriesHonest
<1>1. ASSUME ErrorsInv
      PROVE  RetriesHonest
  <2> DEFINE h == retryCall.helper
             n == retryCall.limit
             allowed == IF h = "retryWithBackoff" THEN IF n = 0 THEN 1 ELSE n ELSE n + 1
  <2>1. retryCall \in RetryCalls /\ RetriesCounted /\ OthersFailed /\ DelayBounded
    BY <1>1 DEF ErrorsInv
  <2>2. Allowed(h, n) = allowed /\ allowed \in Nat /\ 0 < allowed
    BY <2>1, ErrorHandlingAssumption DEF Allowed, RetryCalls
  <2>3. retryCall.at # "idle" => Calls <= allowed
    BY <2>1, <2>2 DEF RetriesCounted, RetryCalls
  <2>4. \A i \in 1 .. Calls :
          outcomes[i] # "failed" => i = Calls /\ retryCall.at \in {"returned", "threw"}
    BY <2>1 DEF OthersFailed
  <2>5. retryCall.at = "returned" => outcomes[Calls] = "returned"
    BY <2>1 DEF RetriesCounted
  <2>6. retryCall.at = "threw" =>
          Calls = allowed \/ outcomes[Calls] = "refused" \/ retryCall.broken
    BY <2>1, <2>2 DEF RetriesCounted
  <2>7. retryCall.at \in {"returned", "threw"} =>
          Reported = Calls + (IF retryCall.broken THEN 1 ELSE 0)
    BY <2>1 DEF RetriesCounted, Reported, RetryCalls
  <2>8. h # "executeWithRetry" => 2 * retryCall.wait < 3 * MaxDelay
    BY <2>1 DEF DelayBounded
  <2>9. QED
    BY <2>3, <2>4, <2>5, <2>6, <2>7, <2>8 DEF RetriesHonest
<1>2. QED
  BY <1>1, ErrorsInvAlways, PTL

(* Through any wrappers, in any order, the client gets the status of the     *)
(* error's class, and its code unless the error was not operational.        *)
THEOREM ErrorsTold == ErrorsSpec => []ErrorsHonest
<1>1. ASSUME ErrorsInv
      PROVE  ErrorsHonest
  <2> DEFINE class == ToAppError(Thrown(thrown))
  <2>1. SUFFICES ASSUME answer # NoError
                 PROVE  /\ answer.status = class.status
                        /\ answer.operational = class.operational
                        /\ class.operational /\ class.code # "UNEXPECTED_ERROR" =>
                             answer.code = class.code
                        /\ thrown \in DOMAIN OtherErrors => answer.status = 500
    BY DEF ErrorsHonest
  <2>2. Tells(answer, class)
    BY <1>1, <2>1 DEF ErrorsInv, ErrorKept
  <2>3. thrown \in DOMAIN OtherErrors => class.status = 500
    <3>1. thrown \in DOMAIN OtherErrors => thrown \in {"plain", "parse"}
      BY DEF OtherErrors
    <3>2. thrown \in {"plain", "parse"} => Thrown(thrown).code = "none"
      BY DEF Thrown, Classes, OtherErrors, Class
    <3>3. Classes.internal.status = 500
      BY DEF Classes, Class
    <3>4. QED
      BY <3>1, <3>2, <3>3 DEF ToAppError, IsAppError
  <2> HIDE DEF class
  <2>4. QED
    BY <2>2, <2>3 DEF Tells
<1>2. QED
  BY <1>1, ErrorsInvAlways, PTL

-----------------------------------------------------------------------------
(* The prompt templates.                                                    *)

PromptsSpec == PromptsInit /\ [][PromptsNext]_promptVars

Disk == [content : 0 .. MaxEdits, time : 0 .. MaxEdits, valid : BOOLEAN]
PromptCalls == [kind : {"none", "load", "update", "get"}, files : Seq(PromptFiles),
                content : 0 .. MaxEdits, valid : BOOLEAN, read : BOOLEAN, left : Int]

PromptsTypeInv ==
    /\ disk \in [PromptFiles -> Disk]
    /\ edits \in 0 .. MaxEdits
    /\ promptCache \in [PromptNames -> 0 .. MaxEdits]
    /\ promptModified \in [PromptFiles -> 0 .. MaxEdits]
    /\ loadedFrom \in [PromptFiles -> 0 .. MaxEdits]
    /\ ownerOf \in [PromptNames -> PromptFiles \cup {<<>>}]
    /\ raced \subseteq PromptFiles /\ saving \in PromptFiles \cup {<<>>}
    /\ promptCall \in PromptCalls

\* Times are those of edits that have been.
TimesPassed ==
    \A f \in PromptFiles : disk[f].time <= edits /\ promptModified[f] <= edits

\* A name's template is that of its owner, which lies under that name.
OwnersTrue ==
    \A n \in PromptNames :
      IF ownerOf[n] = <<>> THEN promptCache[n] = NoTemplate
                           ELSE /\ ownerOf[n][1] = n
                                /\ promptCache[n] = loadedFrom[ownerOf[n]]

\* The time of a load is that of the content loaded, unless an edit came between.
LoadsTrue ==
    \A f \in PromptFiles : Exists(f) =>
      /\ promptModified[f] <= disk[f].time
      /\ promptModified[f] = disk[f].time /\ f \notin raced => loadedFrom[f] = disk[f].content

\* What a call has read is still there, unless an edit came since.
ReadTrue ==
    /\ promptCall.kind = "none" => ~ promptCall.read /\ promptCall.files = <<>>
    /\ promptCall.read =>
         /\ promptCall.files # <<>>
         /\ Exists(CallFile) /\ CallFile \notin raced =>
              promptCall.content = disk[CallFile].content

\* So is what a save has written, and no call is in the middle of a file then.
SavingTrue ==
    saving # <<>> =>
      /\ ~ promptCall.read
      /\ Exists(saving) /\ saving \notin raced => loadedFrom[saving] = disk[saving].content

PromptsInv == PromptsTypeInv /\ TimesPassed /\ OwnersTrue /\ LoadsTrue /\ ReadTrue /\ SavingTrue

(* A path lies under a name, and is not the sequence that stands for none.   *)
LEMMA PathsNamed ==
    ASSUME NEW f \in PromptFiles
    PROVE  f[1] \in PromptNames /\ f # <<>>
  BY DEF PromptFiles

LEMMA TopFiles ==
    ASSUME NEW n \in PromptNames
    PROVE  /\ <<n, "json">> \in PromptFiles /\ <<n, "yaml">> \in PromptFiles
           /\ <<n, "json">>[1] = n
  BY DEF PromptFiles

(* The files found are a sequence of files, since there are finitely many.   *)
LEMMA FilesFoundTyped == FilesFound \in Seq(PromptFiles)
<1> DEFINE S == {f \in PromptFiles : Exists(f)}
           n == Cardinality(S)
<1>1. IsFiniteSet(PromptFiles)
  <2>1. IsFiniteSet({"sub", "json", "yaml"})
    <3>1. IsFiniteSet({"sub"}) /\ IsFiniteSet({"json"}) /\ IsFiniteSet({"yaml"})
      BY FS_Singleton, Zenon
    <3>2. IsFiniteSet(({"sub"} \cup {"json"}) \cup {"yaml"})
      BY <3>1, FS_Union, Zenon
    <3>3. ({"sub"} \cup {"json"}) \cup {"yaml"} = {"sub", "json", "yaml"}
      OBVIOUS
    <3>4. QED
      BY <3>2, <3>3, Zenon
  <2>2. QED
    BY <2>1, PromptAssumption, FS_Product DEF PromptFiles
<1>2. IsFiniteSet(S) /\ S \subseteq PromptFiles
  BY <1>1, FS_Subset
<1> HIDE DEF S
<1>3. PICK m \in Nat : ExistsBijection(1 .. m, S)
  BY <1>2, FS_NatBijection
<1>4. n = m
  BY <1>3, FS_CountingElements
<1>5. \E f \in [1 .. n -> S] : IsInjective(f)
  BY <1>3, <1>4 DEF ExistsBijection, Bijection, Injection, IsInjective
<1>6. SetToSeq(S) \in [1 .. n -> S] /\ n \in Nat
  BY <1>3, <1>4, <1>5, Zenon DEF SetToSeq
<1> HIDE DEF n
<1>7. SetToSeq(S) \in Seq(S)
  BY <1>6
<1>8. SetToSeq(S) \in Seq(PromptFiles)
  BY <1>2, <1>7, SeqMonotonic
<1>9. QED
  BY <1>8 DEF FilesFound, S

LEMMA MissingTyped == Missing \in Disk /\ Missing.time = 0
  BY PromptAssumption DEF Missing, Disk

LEMMA CallsTyped ==
    ASSUME promptCall \in PromptCalls
    PROVE  /\ CallOver \in PromptCalls /\ CallOver.read = FALSE /\ CallOver.files = <<>>
           /\ promptCall.files # <<>> => /\ CallFile \in PromptFiles
                                         /\ NextFile \in PromptCalls /\ NextFile.read = FALSE
                                         /\ NextFile.kind = promptCall.kind
<1>0. 0 \in 0 .. MaxEdits
  BY PromptAssumption
<1>1. CallOver \in PromptCalls /\ CallOver.read = FALSE /\ CallOver.files = <<>>
  <2>1. <<>> \in Seq(PromptFiles)
    OBVIOUS
  <2>2. CallOver \in PromptCalls
    BY <1>0, <2>1 DEF CallOver, PromptCalls
  <2>3. CallOver.read = FALSE /\ CallOver.files = <<>>
    BY DEF CallOver, PromptCalls
  <2>4. QED
    BY <2>2, <2>3
<1>2. ASSUME promptCall.files # <<>>
      PROVE  /\ CallFile \in PromptFiles
             /\ NextFile \in PromptCalls /\ NextFile.read = FALSE
             /\ NextFile.kind = promptCall.kind
  <2>1. promptCall.files \in Seq(PromptFiles)
    BY DEF PromptCalls
  <2>2. CallFile \in PromptFiles /\ Tail(promptCall.files) \in Seq(PromptFiles)
    BY <1>2, <2>1 DEF CallFile
  <2>3. NextFile \in PromptCalls
    BY <1>0, <2>2 DEF NextFile, PromptCalls
  <2>4. NextFile.read = FALSE /\ NextFile.kind = promptCall.kind
    BY DEF NextFile, PromptCalls
  <2>5. QED
    BY <2>2, <2>3, <2>4
<1>3. QED
  BY <1>1, <1>2

(* What changes with a file, and that the others stay.                      *)
LEMMA DiskBecomes ==
    ASSUME PromptsTypeInv, NEW f \in PromptFiles, NEW d \in Disk,
           disk' = [disk EXCEPT ![f] = d]
    PROVE  /\ disk' \in [PromptFiles -> Disk] /\ disk'[f] = d
           /\ \A g \in PromptFiles \ {f} : disk'[g] = disk[g]
  BY DEF PromptsTypeInv

(* A step that only moves the call on, and leaves it without a content.      *)
LEMMA CallMovesOn ==
    ASSUME PromptsInv, promptCall' \in PromptCalls, promptCall'.read = FALSE,
           promptCall'.kind = "none" => promptCall'.files = <<>>,
           UNCHANGED <<disk, edits, promptCache, promptModified, loadedFrom, ownerOf, raced, saving>>
    PROVE  PromptsInv'
  BY DEF PromptsInv, PromptsTypeInv, TimesPassed, OwnersTrue, LoadsTrue, ReadTrue, SavingTrue,
         Exists

LEMMA PromptsInvInit == PromptsInit => PromptsInv
<1> SUFFICES ASSUME PromptsInit
             PROVE  PromptsInv
  OBVIOUS
<1>1. /\ promptCall \in PromptCalls /\ promptCall.read = FALSE
      /\ promptCall.kind = "none" /\ promptCall.files = <<>>
  BY PromptAssumption DEF PromptsInit, NoPromptCall, PromptCalls
<1>2. PromptsTypeInv
  BY <1>1, MissingTyped, PromptAssumption DEF PromptsInit, PromptsTypeInv, NoTemplate
<1>3. TimesPassed /\ OwnersTrue /\ LoadsTrue /\ ReadTrue /\ SavingTrue
  BY <1>1, MissingTyped
  DEF PromptsInit, TimesPassed, OwnersTrue, LoadsTrue, ReadTrue, SavingTrue, Exists, NoTemplate
<1>4. QED
  BY <1>2, <1>3 DEF PromptsInv

LEMMA EditFileKeeps ==
    ASSUME PromptsInv, NEW f \in PromptFiles, EditFile(f)
    PROVE  PromptsInv'
<1>1. PICK valid \in BOOLEAN :
        disk' = [disk EXCEPT ![f] = [content |-> edits + 1, time |-> edits + 1, valid |-> valid]]
  BY Zenon DEF EditFile
<1>2. /\ edits < MaxEdits /\ edits' = edits + 1
      /\ raced' = IF f = saving \/ (promptCall.read /\ f = CallFile) THEN raced \cup {f}
                                                                   ELSE raced \ {f}
      /\ UNCHANGED <<promptCache, promptModified, loadedFrom, ownerOf, saving, promptCall>>
  BY DEF EditFile
<1>3. edits \in Nat /\ edits' \in 0 .. MaxEdits
  BY <1>2, PromptAssumption DEF PromptsInv, PromptsTypeInv
<1> DEFINE d == [content |-> edits + 1, time |-> edits + 1, valid |-> valid]
<1>4. d \in Disk /\ d.time = edits + 1
  BY <1>2, <1>3 DEF Disk
<1> HIDE DEF d
<1>5. /\ disk' \in [PromptFiles -> Disk] /\ disk'[f] = d
      /\ \A g \in PromptFiles \ {f} : disk'[g] = disk[g]
  BY <1>1, <1>4, DiskBecomes DEF PromptsInv, d
<1>6. /\ \A g \in PromptFiles \ {f} : g \in raced' <=> g \in raced
      /\ raced' \subseteq raced \cup {f}
  BY <1>2
<1>7. PromptsTypeInv'
  BY <1>2, <1>3, <1>5, <1>6 DEF PromptsInv, PromptsTypeInv
<1>8. \A g \in PromptFiles : disk[g].time \in Nat /\ promptModified[g] \in Nat
  BY DEF PromptsInv, PromptsTypeInv, Disk
<1>9. TimesPassed'
  BY <1>2, <1>3, <1>4, <1>5, <1>8 DEF PromptsInv, TimesPassed
<1>10. OwnersTrue'
  BY <1>2 DEF PromptsInv, OwnersTrue
<1>11. LoadsTrue'
  <2>1. ASSUME NEW g \in PromptFiles, Exists(g)'
        PROVE  /\ promptModified'[g] <= disk'[g].time
               /\ promptModified'[g] = disk'[g].time /\ g \notin raced' =>
                    loadedFrom'[g] = disk'[g].content
    <3>1. CASE g = f
      BY <1>2, <1>3, <1>4, <1>5, <1>8, <3>1 DEF PromptsInv, TimesPassed
    <3>2. CASE g # f
      BY <1>2, <1>5, <1>6, <2>1, <3>2 DEF PromptsInv, LoadsTrue, Exists
    <3>3. QED
      BY <3>1, <3>2
  <2>2. QED
    BY <2>1 DEF LoadsTrue
<1>12. ReadTrue'
  <2>1. promptCall'.read => CallFile \in PromptFiles
    BY <1>2, CallsTyped DEF PromptsInv, PromptsTypeInv, ReadTrue
  <2>2. CallFile' = CallFile
    BY <1>2 DEF CallFile
  <2>3. CASE promptCall.read /\ f = CallFile
    BY <1>2, <2>2, <2>3 DEF PromptsInv, ReadTrue
  <2>4. CASE ~ promptCall.read \/ f # CallFile
    BY <1>2, <1>5, <1>6, <2>1, <2>2, <2>4 DEF PromptsInv, ReadTrue, Exists
  <2>5. QED
    BY <2>3, <2>4
<1>13. SavingTrue'
  <2>1. saving # <<>> => saving \in PromptFiles
    BY DEF PromptsInv, PromptsTypeInv
  <2>2. CASE saving = f
    BY <1>2, <2>2 DEF PromptsInv, SavingTrue
  <2>3. CASE saving # f
    BY <1>2, <1>5, <1>6, <2>1, <2>3 DEF PromptsInv, SavingTrue, Exists
  <2>4. QED
    BY <2>2, <2>3
<1>14. QED
  BY <1>7, <1>9, <1>10, <1>11, <1>12, <1>13 DEF PromptsInv

LEMMA DeleteFileKeeps ==
    ASSUME PromptsInv, NEW f \in PromptFiles, DeleteFile(f)
    PROVE  PromptsInv'
<1>1. /\ edits < MaxEdits /\ edits' = edits + 1 /\ disk' = [disk EXCEPT ![f] = Missing]
      /\ UNCHANGED <<promptCache, promptModified, loadedFrom, ownerOf, raced, saving, promptCall>>
  BY DEF DeleteFile
<1>2. edits \in Nat /\ edits' \in 0 .. MaxEdits
  BY <1>1, PromptAssumption DEF PromptsInv, PromptsTypeInv
<1>3. /\ disk' \in [PromptFiles -> Disk] /\ disk'[f] = Missing
      /\ \A g \in PromptFiles \ {f} : disk'[g] = disk[g]
  BY <1>1, MissingTyped, DiskBecomes DEF PromptsInv
<1>4. PromptsTypeInv'
  BY <1>1, <1>2, <1>3 DEF PromptsInv, PromptsTypeInv
<1>5. \A g \in PromptFiles : disk[g].time \in Nat /\ promptModified[g] \in Nat
  BY DEF PromptsInv, PromptsTypeInv, Disk
<1>6. TimesPassed'
  BY <1>1, <1>2, <1>3, <1>5, MissingTyped DEF PromptsInv, TimesPassed
<1>7. OwnersTrue'
  BY <1>1 DEF PromptsInv, OwnersTrue
<1>8. LoadsTrue'
  BY <1>1, <1>3 DEF PromptsInv, LoadsTrue, Exists
<1>9. ReadTrue'
  <2>1. promptCall.read => CallFile \in PromptFiles
    BY CallsTyped DEF PromptsInv, PromptsTypeInv, ReadTrue
  <2>2. CallFile' = CallFile
    BY <1>1 DEF CallFile
  <2>3. QED
    BY <1>1, <1>3, <2>1, <2>2 DEF PromptsInv, ReadTrue, Exists
<1>10. SavingTrue'
  <2>1. saving # <<>> => saving \in PromptFiles
    BY DEF PromptsInv, PromptsTypeInv
  <2>2. QED
    BY <1>1, <1>3, <2>1 DEF PromptsInv, SavingTrue, Exists
<1>11. QED
  BY <1>4, <1>6, <1>7, <1>8, <1>9, <1>10 DEF PromptsInv

LEMMA BeginPromptCallKeeps ==
    ASSUME PromptsInv, NEW kind \in {"load", "update", "get"}, NEW files \in Seq(PromptFiles),
           BeginPromptCall(kind, files)
    PROVE  PromptsInv'
<1>1. /\ promptCall.kind = "none"
      /\ promptCall' = [promptCall EXCEPT !.kind = kind, !.files = files, !.left = @ - 1]
      /\ UNCHANGED <<disk, edits, promptCache, promptModified, loadedFrom, ownerOf, raced, saving>>
  BY DEF BeginPromptCall
<1>2. promptCall \in PromptCalls /\ promptCall.read = FALSE
  <2>1. promptCall \in PromptCalls /\ ~ promptCall.read
    BY <1>1 DEF PromptsInv, PromptsTypeInv, ReadTrue
  <2>2. QED
    BY <2>1 DEF PromptCalls
<1>3. promptCall' \in PromptCalls
  <2> DEFINE left == promptCall.left - 1
  <2>1. left \in Int
    BY <1>2 DEF PromptCalls
  <2>2. promptCall' = [promptCall EXCEPT !.kind = kind, !.files = files, !.left = left]
    BY <1>1
  <2> HIDE DEF left
  <2>3. kind \in {"none", "load", "update", "get"}
    OBVIOUS
  <2>4. QED
    BY <1>2, <2>1, <2>2, <2>3 DEF PromptCalls
<1>4. promptCall'.read = FALSE /\ promptCall'.kind = kind
  BY <1>1, <1>2 DEF PromptCalls
<1>5. QED
  BY <1>1, <1>3, <1>4, CallMovesOn

LEMMA ReadFileKeeps ==
    ASSUME PromptsInv, ReadFile
    PROVE  PromptsInv'
<1>1. /\ promptCall.files # <<>> /\ promptCall \in PromptCalls /\ CallFile \in PromptFiles
      /\ UNCHANGED <<disk, edits, promptCache, promptModified, loadedFrom, ownerOf, raced, saving>>
      /\ saving = <<>>
  BY CallsTyped DEF ReadFile, PromptsInv, PromptsTypeInv
<1>0. promptCall.kind # "none"
  BY <1>1 DEF PromptsInv, ReadTrue
<1>2. CASE promptCall' = CallOver \/ promptCall' = NextFile
  BY <1>0, <1>1, <1>2, CallsTyped, CallMovesOn
<1>3. CASE promptCall' = [promptCall EXCEPT !.read = TRUE, !.content = disk[CallFile].content,
                                            !.valid = disk[CallFile].valid]
           /\ Exists(CallFile)
  <2> DEFINE c == disk[CallFile].content
             v == disk[CallFile].valid
  <2>1. c \in 0 .. MaxEdits /\ v \in BOOLEAN
    BY <1>1 DEF PromptsInv, PromptsTypeInv, Disk
  <2>2. promptCall' = [promptCall EXCEPT !.read = TRUE, !.content = c, !.valid = v]
    BY <1>3
  <2>3. c = disk[CallFile].content
    OBVIOUS
  <2> HIDE DEF c, v
  <2>4. promptCall' \in PromptCalls
    BY <1>1, <2>1, <2>2 DEF PromptCalls
  <2>5. /\ promptCall'.kind = promptCall.kind /\ promptCall'.files = promptCall.files
        /\ promptCall'.content = c
    BY <1>1, <2>2 DEF PromptCalls
  <2>7. CallFile' = CallFile
    BY <2>5 DEF CallFile
  <2>8. ReadTrue'
    BY <1>0, <1>1, <2>3, <2>5, <2>7 DEF ReadTrue
  <2>9. QED
    BY <1>1, <2>4, <2>8
    DEF PromptsInv, PromptsTypeInv, TimesPassed, OwnersTrue, LoadsTrue, SavingTrue, Exists
<1>4. QED
  BY <1>2, <1>3 DEF ReadFile

(* A template is kept: of content c for file f.                             *)
LEMMA KeptTrue ==
    ASSUME PromptsInv, NEW f \in PromptFiles, NEW c \in 0 .. MaxEdits,
           promptCache' = [promptCache EXCEPT ![f[1]] = c],
           loadedFrom' = [loadedFrom EXCEPT ![f] = c],
           ownerOf' = [ownerOf EXCEPT ![f[1]] = f]
    PROVE  /\ promptCache' \in [PromptNames -> 0 .. MaxEdits]
           /\ loadedFrom' \in [PromptFiles -> 0 .. MaxEdits] /\ loadedFrom'[f] = c
           /\ ownerOf' \in [PromptNames -> PromptFiles \cup {<<>>}]
           /\ \A g \in PromptFiles \ {f} : loadedFrom'[g] = loadedFrom[g]
           /\ OwnersTrue'
<1> DEFINE n == f[1]
<1>1. n \in PromptNames /\ f # <<>>
  BY PathsNamed
<1>2. f[1] = n
  OBVIOUS
<1>3. /\ promptCache' = [promptCache EXCEPT ![n] = c] /\ ownerOf' = [ownerOf EXCEPT ![n] = f]
  OBVIOUS
<1> HIDE DEF n
<1>4. /\ promptCache' \in [PromptNames -> 0 .. MaxEdits] /\ promptCache'[n] = c
      /\ \A m \in PromptNames \ {n} : promptCache'[m] = promptCache[m]
  BY <1>1, <1>3 DEF PromptsInv, PromptsTypeInv
<1>5. /\ ownerOf' \in [PromptNames -> PromptFiles \cup {<<>>}] /\ ownerOf'[n] = f
      /\ \A m \in PromptNames \ {n} : ownerOf'[m] = ownerOf[m]
  BY <1>1, <1>3 DEF PromptsInv, PromptsTypeInv
<1>6. /\ loadedFrom' \in [PromptFiles -> 0 .. MaxEdits] /\ loadedFrom'[f] = c
      /\ \A g \in PromptFiles \ {f} : loadedFrom'[g] = loadedFrom[g]
  BY DEF PromptsInv, PromptsTypeInv
<1>7. ASSUME NEW m \in PromptNames
      PROVE  IF ownerOf'[m] = <<>> THEN promptCache'[m] = NoTemplate
                                   ELSE /\ ownerOf'[m][1] = m
                                        /\ promptCache'[m] = loadedFrom'[ownerOf'[m]]
  <2>1. CASE m = n
    BY <1>1, <1>2, <1>4, <1>5, <1>6, <2>1
  <2>2. CASE m # n
    <3>1. ownerOf'[m] = ownerOf[m] /\ promptCache'[m] = promptCache[m]
      BY <1>4, <1>5, <2>2
    <3>2. CASE ownerOf[m] = <<>>
      BY <3>1, <3>2 DEF PromptsInv, OwnersTrue
    <3>3. CASE ownerOf[m] # <<>>
      <4>1. ownerOf[m] \in PromptFiles /\ ownerOf[m][1] = m
            /\ promptCache[m] = loadedFrom[ownerOf[m]]
        BY <3>3 DEF PromptsInv, PromptsTypeInv, OwnersTrue
      <4>2. ownerOf[m] # f
        BY <1>2, <2>2, <4>1
      <4>3. loadedFrom'[ownerOf[m]] = loadedFrom[ownerOf[m]]
        BY <1>6, <4>1, <4>2
      <4>4. QED
        BY <3>1, <3>3, <4>1, <4>3
    <3>4. QED
      BY <3>2, <3>3
  <2>3. QED
    BY <2>1, <2>2
<1>8. OwnersTrue'
  BY <1>7 DEF OwnersTrue, NoTemplate
<1>9. QED
  BY <1>4, <1>5, <1>6, <1>8

LEMMA KeepTemplateKeeps ==
    ASSUME PromptsInv, KeepTemplate
    PROVE  PromptsInv'
<1> DEFINE f == CallFile
           c == promptCall.content
           t == TimeOfFile(f)
<1>1. /\ promptCall.read /\ promptCall' = NextFile /\ UNCHANGED <<disk, edits, raced, saving>>
      /\ promptCall \in PromptCalls /\ promptCall.files # <<>> /\ saving = <<>>
  BY DEF KeepTemplate, PromptsInv, PromptsTypeInv, ReadTrue, SavingTrue
<1>2. /\ f \in PromptFiles /\ promptCall' \in PromptCalls /\ promptCall'.read = FALSE
      /\ promptCall'.kind # "none"
  BY <1>1, CallsTyped DEF PromptsInv, ReadTrue
<1>3. CASE UNCHANGED <<promptCache, promptModified, loadedFrom, ownerOf>>
  BY <1>1, <1>2, <1>3, CallMovesOn
<1>4. CASE /\ Exists(f)
           /\ promptCache' = [promptCache EXCEPT ![f[1]] = c]
           /\ promptModified' = [promptModified EXCEPT ![f] = t]
           /\ loadedFrom' = [loadedFrom EXCEPT ![f] = c]
           /\ ownerOf' = [ownerOf EXCEPT ![f[1]] = f]
  <2>1. c \in 0 .. MaxEdits /\ t \in 0 .. MaxEdits /\ t = disk[f].time
    BY <1>1, <1>2 DEF PromptsInv, PromptsTypeInv, PromptCalls, Disk, TimeOfFile
  <2>2. f \notin raced => c = disk[f].content
    BY <1>1, <1>4 DEF PromptsInv, ReadTrue
  <2> HIDE DEF f, c, t
  <2>0. /\ promptModified' \in [PromptFiles -> 0 .. MaxEdits] /\ promptModified'[f] = t
        /\ \A g \in PromptFiles \ {f} : promptModified'[g] = promptModified[g]
    BY <1>2, <1>4, <2>1 DEF PromptsInv, PromptsTypeInv
  <2>3. /\ promptCache' \in [PromptNames -> 0 .. MaxEdits]
        /\ promptModified' \in [PromptFiles -> 0 .. MaxEdits] /\ promptModified'[f] = t
        /\ loadedFrom' \in [PromptFiles -> 0 .. MaxEdits] /\ loadedFrom'[f] = c
        /\ ownerOf' \in [PromptNames -> PromptFiles \cup {<<>>}]
        /\ \A g \in PromptFiles \ {f} : /\ promptModified'[g] = promptModified[g]
                                        /\ loadedFrom'[g] = loadedFrom[g]
        /\ OwnersTrue'
    BY <1>2, <1>4, <2>0, <2>1, KeptTrue
  <2>4. PromptsTypeInv'
    BY <1>1, <1>2, <2>3 DEF PromptsInv, PromptsTypeInv
  <2>5. TimesPassed'
    BY <1>1, <2>1, <2>3 DEF PromptsInv, TimesPassed
  <2>6. LoadsTrue'
    <3>1. ASSUME NEW g \in PromptFiles, Exists(g)'
          PROVE  /\ promptModified'[g] <= disk'[g].time
                 /\ promptModified'[g] = disk'[g].time /\ g \notin raced' =>
                      loadedFrom'[g] = disk'[g].content
      <4>1. CASE g = f
        BY <1>1, <2>1, <2>2, <2>3, <4>1
      <4>2. CASE g # f
        BY <1>1, <2>3, <3>1, <4>2 DEF PromptsInv, LoadsTrue, Exists
      <4>3. QED
        BY <4>1, <4>2
    <3>2. QED
      BY <3>1 DEF LoadsTrue
  <2>7. ReadTrue' /\ SavingTrue'
    BY <1>1, <1>2 DEF ReadTrue, SavingTrue
  <2>8. QED
    BY <2>3, <2>4, <2>5, <2>6, <2>7 DEF PromptsInv
<1>5. QED
  BY <1>3, <1>4 DEF KeepTemplate

LEMMA SaveKeeps ==
    ASSUME PromptsInv, NEW n \in PromptNames, SavePromptTemplate(n)
    PROVE  PromptsInv'
<1> DEFINE f == <<n, "json">>
           t == edits + 1
           d == [content |-> t, time |-> t, valid |-> TRUE]
<1>1. /\ ~ promptCall.read /\ edits < MaxEdits /\ edits' = t /\ raced' = raced \ {f}
      /\ saving' = f /\ promptModified' = promptModified
      /\ promptCall' = [promptCall EXCEPT !.left = @ - 1]
      /\ disk' = [disk EXCEPT ![f] = d]
      /\ promptCache' = [promptCache EXCEPT ![n] = t]
      /\ loadedFrom' = [loadedFrom EXCEPT ![f] = t]
      /\ ownerOf' = [ownerOf EXCEPT ![n] = f]
  BY DEF SavePromptTemplate
<1>2. f \in PromptFiles /\ f[1] = n
  BY TopFiles
<1>3. edits \in Nat /\ t \in 0 .. MaxEdits /\ t = edits + 1
  BY <1>1, PromptAssumption DEF PromptsInv, PromptsTypeInv
<1> HIDE DEF f, t
<1>4. d \in Disk /\ d.time = t /\ d.content = t
  BY <1>3 DEF Disk
<1> HIDE DEF d
<1>5. /\ disk' \in [PromptFiles -> Disk] /\ disk'[f] = d
      /\ \A g \in PromptFiles \ {f} : disk'[g] = disk[g]
  BY <1>1, <1>2, <1>4, DiskBecomes DEF PromptsInv
<1>6. /\ promptCache' = [promptCache EXCEPT ![f[1]] = t]
      /\ ownerOf' = [ownerOf EXCEPT ![f[1]] = f]
  BY <1>1, <1>2
<1>7. /\ promptCache' \in [PromptNames -> 0 .. MaxEdits]
      /\ loadedFrom' \in [PromptFiles -> 0 .. MaxEdits] /\ loadedFrom'[f] = t
      /\ ownerOf' \in [PromptNames -> PromptFiles \cup {<<>>}]
      /\ \A g \in PromptFiles \ {f} : loadedFrom'[g] = loadedFrom[g]
      /\ OwnersTrue'
  BY <1>1, <1>2, <1>3, <1>6, KeptTrue
<1>8. promptCall \in PromptCalls
  BY DEF PromptsInv, PromptsTypeInv
<1>9. /\ promptCall' \in PromptCalls /\ promptCall'.read = promptCall.read
      /\ promptCall'.kind = promptCall.kind /\ promptCall'.files = promptCall.files
  BY <1>1, <1>8 DEF PromptCalls
<1>10. PromptsTypeInv'
  BY <1>1, <1>2, <1>3, <1>5, <1>7, <1>9 DEF PromptsInv, PromptsTypeInv
<1>11. \A g \in PromptFiles : disk[g].time \in Nat /\ promptModified[g] \in Nat
  BY DEF PromptsInv, PromptsTypeInv, Disk
<1>12. TimesPassed'
  BY <1>1, <1>3, <1>4, <1>5, <1>7, <1>11 DEF PromptsInv, TimesPassed
<1>13. LoadsTrue'
  <2>1. ASSUME NEW g \in PromptFiles, Exists(g)'
        PROVE  /\ promptModified'[g] <= disk'[g].time
               /\ promptModified'[g] = disk'[g].time /\ g \notin raced' =>
                    loadedFrom'[g] = disk'[g].content
    <3>1. CASE g = f
      BY <1>1, <1>2, <1>3, <1>4, <1>5, <1>7, <1>11, <3>1 DEF PromptsInv, TimesPassed
    <3>2. CASE g # f
      BY <1>1, <1>5, <1>7, <2>1, <3>2 DEF PromptsInv, LoadsTrue, Exists
    <3>3. QED
      BY <3>1, <3>2
  <2>2. QED
    BY <2>1 DEF LoadsTrue
<1>14. ReadTrue' /\ SavingTrue'
  BY <1>1, <1>4, <1>5, <1>7, <1>9 DEF PromptsInv, ReadTrue, SavingTrue
<1>15. QED
  BY <1>7, <1>10, <1>12, <1>13, <1>14 DEF PromptsInv

LEMMA StatSavedKeeps ==
    ASSUME PromptsInv, StatSavedTemplate
    PROVE  PromptsInv'
<1>1. /\ saving # <<>> /\ saving' = <<>>
      /\ UNCHANGED <<disk, edits, promptCache, loadedFrom, ownerOf, raced, promptCall>>
      /\ promptModified' = IF Exists(saving)
                           THEN [promptModified EXCEPT ![saving] = disk[saving].time]
                           ELSE promptModified
  BY DEF StatSavedTemplate, TimeOfFile
<1>2. saving \in PromptFiles /\ disk[saving].time \in 0 .. MaxEdits /\ disk[saving].time <= edits
  BY <1>1 DEF PromptsInv, PromptsTypeInv, TimesPassed, Disk
<1>3. /\ promptModified' \in [PromptFiles -> 0 .. MaxEdits]
      /\ Exists(saving) => promptModified'[saving] = disk[saving].time
      /\ \A g \in PromptFiles : g # saving \/ ~ Exists(saving) =>
                                   promptModified'[g] = promptModified[g]
  BY <1>1, <1>2 DEF PromptsInv, PromptsTypeInv
<1>4. PromptsTypeInv'
  BY <1>1, <1>3 DEF PromptsInv, PromptsTypeInv
<1>5. TimesPassed'
  BY <1>1, <1>2, <1>3 DEF PromptsInv, TimesPassed
<1>6. OwnersTrue' /\ ReadTrue' /\ SavingTrue'
  BY <1>1 DEF PromptsInv, OwnersTrue, ReadTrue, SavingTrue, Exists, CallFile
<1>7. ASSUME NEW g \in PromptFiles, Exists(g)
      PROVE  /\ promptModified'[g] <= disk[g].time
             /\ promptModified'[g] = disk[g].time /\ g \notin raced =>
                  loadedFrom[g] = disk[g].content
  <2>1. CASE g = saving
    BY <1>1, <1>2, <1>3, <1>7, <2>1 DEF PromptsInv, SavingTrue
  <2>2. CASE g # saving
    BY <1>3, <1>7, <2>2 DEF PromptsInv, LoadsTrue
  <2>3. QED
    BY <2>1, <2>2
<1>8. LoadsTrue'
  BY <1>1, <1>7 DEF LoadsTrue, Exists
<1>9. QED
  BY <1>4, <1>5, <1>6, <1>8 DEF PromptsInv

LEMMA PromptsInvStep ==
    ASSUME PromptsInv, [PromptsNext]_promptVars
    PROVE  PromptsInv'
<1>1. ASSUME NEW f \in PromptFiles, EditFile(f) \/ DeleteFile(f)
      PROVE  PromptsInv'
  BY <1>1, EditFileKeeps, DeleteFileKeeps
<1>2. CASE LoadAllPrompts \/ CheckForPromptUpdates
  BY <1>2, FilesFoundTyped, BeginPromptCallKeeps DEF LoadAllPrompts, CheckForPromptUpdates
<1>3. ASSUME NEW n \in PromptNames, GetPromptTemplate(n)
      PROVE  PromptsInv'
  <2> DEFINE files == IF Exists(<<n, "json">>) THEN <<<<n, "json">>>>
                      ELSE IF Exists(<<n, "yaml">>) THEN <<<<n, "yaml">>>> ELSE <<>>
  <2>1. BeginPromptCall("get", files)
    BY <1>3 DEF GetPromptTemplate
  <2>2. files \in Seq(PromptFiles)
    BY TopFiles, OneOrTwo
  <2> HIDE DEF files
  <2>3. QED
    BY <2>1, <2>2, BeginPromptCallKeeps
<1>4. ASSUME NEW n \in PromptNames, SavePromptTemplate(n)
      PROVE  PromptsInv'
  BY <1>4, SaveKeeps
<1>5. CASE PromptCallEnds
  BY <1>5, CallsTyped, CallMovesOn DEF PromptCallEnds, PromptsInv, PromptsTypeInv
<1>6. CASE SkipFile
  BY <1>6, CallsTyped, CallMovesOn DEF SkipFile, PromptsInv, PromptsTypeInv, ReadTrue
<1>7. CASE ReadFile \/ KeepTemplate \/ StatSavedTemplate
  BY <1>7, ReadFileKeeps, KeepTemplateKeeps, StatSavedKeeps
<1>8. CASE UNCHANGED promptVars
  BY <1>8 DEF promptVars, PromptsInv, PromptsTypeInv, TimesPassed, OwnersTrue, LoadsTrue,
              ReadTrue, SavingTrue, Exists, CallFile
<1>9. QED
  BY <1>1, <1>2, <1>3, <1>4, <1>5, <1>6, <1>7, <1>8 DEF PromptsNext

LEMMA PromptsInvAlways == PromptsSpec => []PromptsInv
  BY PromptsInvInit, PromptsInvStep, PTL DEF PromptsSpec

(* The prompt templates keep to their types.                                *)
THEOREM PromptsTypeCorrect == PromptsSpec => []PromptsTypeOK
<1>1. PromptsInv => PromptsTypeOK
  BY DEF PromptsInv, PromptsTypeInv, PromptCalls, Disk, PromptsTypeOK
<1>2. QED
  BY <1>1, PromptsInvAlways, PTL

(* Whenever files are edited, deleted and saved while a call looks at them, a *)
(* template is the one last loaded or saved under its name, and an edit is    *)
(* passed over only when it came between the read and the stat of a load, or  *)
(* between the write and the stat of a save.                                 *)
THEOREM TemplatesKept == PromptsSpec => []TemplatesHonest
<1>1. PromptsInv => TemplatesHonest
  BY DEF PromptsInv, OwnersTrue, LoadsTrue, TemplatesHonest
<1>2. QED
  BY <1>1, PromptsInvAlways, PTL

-----------------------------------------------------------------------------
(* The components together.                                                 *)

LEMMA ClientPartsBegin ==
    Init => CacheInit /\ TaskParserInit /\ FormsInit /\ ErrorsInit /\ PromptsInit
  BY DEF Init

LEMMA ClientPartsStep ==
    ASSUME [Next]_vars
    PROVE  /\ [CacheNext]_cacheVars /\ [TaskParserNext]_taskParserVars /\ [FormsNext]_formVars
           /\ [ErrorsNext]_errorVars /\ [PromptsNext]_promptVars
<1>1. CASE UNCHANGED vars
  BY <1>1 DEF vars
<1>2. CASE Next
  BY <1>2 DEF Next, Choose
<1>3. QED
  BY <1>1, <1>2

LEMMA ClientPartsImplemented ==
    Init /\ [][Next]_vars =>
      CacheSpec /\ TaskParserSpec /\ FormsSpec /\ ErrorsSpec /\ PromptsSpec
  BY ClientPartsBegin, ClientPartsStep, PTL
  DEF CacheSpec, TaskParserSpec, FormsSpec, ErrorsSpec, PromptsSpec

(* In every behavior of MCOutbound, with whatever constants, callers are     *)
(* told what is so: a template is the one last loaded, an error the one       *)
(* thrown after no more calls than allowed, a form submits what was           *)
(* validated, one submission at a time, a task is what the models answered,   *)
(* and the cache answers with nothing older than the last removal but for a   *)
(* request that overlapped it.                                              *)
THEOREM ClientsCorrect == FairSpec => []ClientsHonest
<1>1. FairSpec => Init /\ [][Next]_vars
  BY PTL DEF FairSpec
<1>2. ASSUME TemplatesHonest, RetriesHonest, ErrorsHonest, FormsHonest, TasksHonest,
             CacheHonest
      PROVE  ClientsHonest
  BY <1>2 DEF ClientsHonest
<1>3. QED
  BY <1>1, <1>2, ClientPartsImplemented, TemplatesKept, RetriesBounded, ErrorsTold,
     FormsTruthful, TaskHonest, CacheFresh, PTL

(* In every behavior of MCOutbound all ten components keep to their types.   *)
THEOREM OutboundTypeCorrect == FairSpec => []OutboundTypeOK
<1>1. FairSpec => Init /\ [][Next]_vars
  BY PTL DEF FairSpec
<1>2. ASSUME EmailTypeOK, BreakerTypeOK, LimiterTypeOK, TypedTypeOK, IngestTypeOK,
             PromptsTypeOK, ErrorsTypeOK, FormsTypeOK, TaskParserTypeOK, CacheTypeOK
      PROVE  OutboundTypeOK
  BY <1>2 DEF OutboundTypeOK
<1>3. QED
  BY <1>1, <1>2, PartsImplemented, ClientPartsImplemented,
     EmailTypeCorrect, BreakerTypeCorrect, LimiterTypeCorrect, TypedTypeCorrect,
     IngestTypeCorrect, PromptsTypeCorrect, ErrorsTypeCorrect, FormsTypeCorrect,
     TaskParserTypeCorrect, CacheTypeCorrect, PTL

=============================================================================
