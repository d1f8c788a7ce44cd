------------------------------ MODULE Delivery ------------------------------
(* What a collector run sends when its evidence is written: notifications,    *)
(* Paramify, the tracker's items and telemetry, a ticket per failing finding, *)
(* SIEM and webhook, one job after the other, over a network that loses calls *)
(* and answers.  A step is one HTTP call; withRetry calls again.  People      *)
(* close tickets meanwhile, the collector may die, and the next run sends     *)
(* again.                                                                     *)
EXTENDS Naturals, Sequences, FiniteSets

CONSTANTS
  Keys,       \* external keys of the failing findings, the same in every run
  Inside,     \* the pairs <<k, l>> of keys with k a part of l
  MaxRuns,    \* bound: runs of the collector
  MaxFaults,  \* bound: calls that are not simply answered, and crashes
  MaxTickets  \* bound: tickets people can still close

ASSUME DeliveryAssumption ==
  /\ Inside \subseteq Keys \X Keys /\ IsFiniteSet(Keys)
  /\ MaxRuns \in Nat /\ MaxFaults \in Nat /\ MaxTickets \in Nat

VARIABLES
  driver,     \* TICKET_PROVIDER
  known,      \* whether the tracker's catalogue has the KSI
  runs,       \* runs begun
  queue,      \* jobs of this run that are not finished, the first one under way
  try,        \* withRetry's attempt
  calls,      \* the calls a ticket's job has still to make
  found,      \* the ticket its search returned, 0 if none
  was,        \* and whether that was closed
  took,       \* whether the service has acted on a call of this job
  last,       \* how the job before ended
  tickets,    \* the tickets of the service, in order
  telemetry,  \* the run ids in collector_runs
  blind,      \* keys whose search failed and was taken for an absent ticket
  faults      \* faults so far
deliveryVars == <<driver, known, runs, queue, try, calls, found, was, took, last,
                  tickets, telemetry, blind, faults>>

Drivers == {"github", "jira", "servicenow"}

(* How each sender calls withRetry, and which replies make it throw, so that  *)
(* withRetry sees them: Paramify's and the tracker's throw on 429 and 5xx,    *)
(* SIEM's and the webhook's return such an answer.  A sender to the tracker's *)
(* items knows 404.                                                           *)
Notify == [sink |-> "notify", attempts |-> 1, resends |-> {}]
Paramify == [sink |-> "paramify", attempts |-> 3, resends |-> {"transient", "busy"}]
IndicatorPush == [sink |-> "items", attempts |-> 3, resends |-> {"transient", "busy"}]
RunTelemetry == [sink |-> "telemetry", attempts |-> 3, resends |-> {"transient", "busy"}]
Siem == [sink |-> "siem", attempts |-> 3, resends |-> {"transient"}]
Webhook == [sink |-> "webhook", attempts |-> 3, resends |-> {"transient"}]
TicketJob(k) == [sink |-> "ticket", key |-> k]
TicketJobs == {TicketJob(k) : k \in Keys}

(* Slack and PagerDuty hear of a regression only. *)
Before(regressed) ==
  (IF regressed THEN <<Notify>> ELSE <<>>) \o <<Paramify, IndicatorPush, RunTelemetry>>
After == <<Siem, Webhook>>

(* The jobs of a run: findings are visited in some order. *)
Orders == {s \in [1..Cardinality(Keys) -> TicketJobs] :
             \A i, j \in DOMAIN s : s[i] = s[j] => i = j}

(* Outcomes of a call.  "lost": acted on, and the connection breaks before    *)
(* the answer; "down": not acted on, with an error isTransientError() knows;  *)
(* "refused": not acted on, and "late": acted on or not, with one it does not *)
(* know; "busy": 429 or 5xx; "denied": another status; "garbled": acted on,   *)
(* and a body that is not JSON.                                               *)
Faults == {"lost", "down", "refused", "late", "busy", "denied", "garbled"}
Outcomes == Faults \cup {"answered"}
ActedOn == {"answered", "lost", "garbled"}
NotYet == [sink |-> "none", verdict |-> "none"]

DeliveryInit ==
  /\ driver \in Drivers /\ known \in BOOLEAN
  /\ runs = 0 /\ queue = <<>> /\ try = 1
  /\ calls = <<"search">> /\ found = 0 /\ was = "absent" /\ took = FALSE
  /\ last = NotYet
  /\ tickets = <<>> /\ telemetry = {} /\ blind = {} /\ faults = 0

Sending == queue # <<>>
Current == Head(queue)

StartRun ==
  /\ ~Sending /\ runs < MaxRuns
  /\ runs' = runs + 1
  /\ \E s \in Orders, regressed \in BOOLEAN : queue' = Before(regressed) \o s \o After
  /\ last' = NotYet
  /\ UNCHANGED <<driver, known, try, calls, found, was, took, tickets, telemetry, blind, faults>>

(* The job is over: the next one starts afresh. *)
Finish(verdict, held, hit) ==
  /\ queue' = Tail(queue)
  /\ last' = [job |-> Current, verdict |-> verdict, held |-> held, hit |-> hit]
  /\ try' = 1 /\ calls' = <<"search">> /\ found' = 0 /\ was' = "absent" /\ took' = FALSE
-----------------------------------------------------------------------------
(* The answer of a service that acts on a call.  The tracker knows the KSI or *)
(* answers 404.  It takes the bearer of an API token for user 0, who is no    *)
(* row of users, so the transaction breaks a foreign key: 500.  Telemetry     *)
(* names the token instead, and a run it has already is updated.              *)
ItemAnswer == IF known THEN "busy" ELSE "missing"
TelemetryAnswer_PlainInsert == IF runs \in telemetry THEN "busy" ELSE "ok"
TelemetryAnswer == "ok"

Answer(sink) ==
  CASE sink = "items" -> ItemAnswer
    [] sink = "telemetry" -> TelemetryAnswer
    [] OTHER -> "ok"

(* What the sender sees. *)
Reply(o, answer) ==
  CASE o \in {"answered", "garbled"} -> answer
    [] o \in {"lost", "down"} -> "transient"
    [] o \in {"refused", "late"} -> "broken"
    [] OTHER -> o

Retried(job, reply) == reply \in job.resends /\ try < job.attempts

Verdict_AnyAnswer(sink, reply) == IF reply \in {"transient", "broken"} THEN "error" ELSE "sent"
Verdict(sink, reply) ==
  CASE reply = "ok" -> "sent"
    [] reply = "missing" /\ sink = "items" -> "unsupported_ksi"
    [] OTHER -> "error"

NextTry_Stuck == try
NextTry == try + 1

Hit(o) ==
  /\ o \in Faults => faults < MaxFaults
  /\ faults' = IF o \in Faults THEN faults + 1 ELSE faults

(* One call of a job other than a ticket's. *)
Send(o) ==
  LET sink == Current.sink
      reply == Reply(o, Answer(sink)) IN
  /\ Sending /\ sink # "ticket" /\ o # "garbled"
  /\ Hit(o)
  /\ \E acted \in BOOLEAN :
       /\ o # "late" => acted = (o \in ActedOn)
       /\ LET holds == took \/ (acted /\ Answer(sink) = "ok") IN
          /\ telemetry' = IF sink = "telemetry" /\ acted THEN telemetry \cup {runs} ELSE telemetry
          /\ IF Retried(Current, reply)
               THEN /\ try' = NextTry /\ took' = holds
                    /\ UNCHANGED <<queue, calls, found, was, last>>
               ELSE Finish(Verdict(sink, reply), holds, o \in Faults)
  /\ UNCHANGED <<driver, known, runs, tickets, blind>>
-----------------------------------------------------------------------------
(* The key is looked for as a text, and the first match is taken. *)
Contains(k, t) == t.key = k \/ <<k, t.key>> \in Inside
Matches_OpenOnly(k) == {n \in DOMAIN tickets : Contains(k, tickets[n]) /\ tickets[n].open}
Matches(k) == {n \in DOMAIN tickets : Contains(k, tickets[n])}

Thrown(o) == o \in {"lost", "down", "refused", "late"}

(* The calls that follow a search: GitHub's reopening and its comment are     *)
(* two, ServiceNow's are one, Jira's workflow is left alone.                  *)
GitHub(n) ==
  IF n = 0 THEN <<"create">> ELSE IF tickets[n].open THEN <<"comment">> ELSE <<"reopen", "comment">>
Jira(n) == IF n = 0 THEN <<"create">> ELSE <<"comment">>
ServiceNow(n) ==
  IF n = 0 THEN <<"create">> ELSE IF tickets[n].open THEN <<"comment">> ELSE <<"reopen">>
Following(n) ==
  CASE driver = "github" -> GitHub(n) [] driver = "jira" -> Jira(n) [] OTHER -> ServiceNow(n)

Pushing(call) == Sending /\ Current.sink = "ticket" /\ Head(calls) = call

Search(o) ==
  LET k == Current.key IN
  /\ Pushing("search") /\ Hit(o)
  /\ \/ /\ Thrown(o)
        /\ Finish("thrown", FALSE, TRUE) /\ UNCHANGED blind
     \/ /\ o = "answered"
        /\ \E n \in IF Matches(k) = {} THEN {0} ELSE Matches(k) :
             /\ found' = n /\ calls' = Following(n)
             /\ was' = IF n = 0 THEN "absent" ELSE IF tickets[n].open THEN "open" ELSE "closed"
        /\ UNCHANGED <<queue, last, try, took, blind>>
     \/ /\ o \in {"busy", "denied", "garbled"}      \* as if there were none
        /\ found' = 0 /\ calls' = Following(0) /\ was' = "absent"
        /\ blind' = blind \cup {k}
        /\ UNCHANGED <<queue, last, try, took>>
  /\ UNCHANGED <<driver, known, runs, tickets, telemetry>>

Create(o) ==
  /\ Pushing("create") /\ Hit(o)
  /\ \E acted \in BOOLEAN :
       /\ o # "late" => acted = (o \in ActedOn)
       /\ tickets' = IF acted THEN Append(tickets, [key |-> Current.key, open |-> TRUE]) ELSE tickets
       /\ Finish(IF Thrown(o) THEN "thrown" ELSE IF o = "answered" THEN "opened" ELSE "failed",
                 acted, o \in Faults)
  /\ UNCHANGED <<driver, known, runs, telemetry, blind>>

(* Whatever the service answers to a comment or a reopening is taken as done. *)
Touch(o) ==
  /\ Pushing("reopen") \/ Pushing("comment")
  /\ Hit(o)
  /\ \E acted \in BOOLEAN :
       /\ o # "late" => acted = (o \in ActedOn)
       /\ tickets' = IF Head(calls) = "reopen" /\ acted
                      THEN [tickets EXCEPT ![found].open = TRUE] ELSE tickets
  /\ IF Thrown(o) THEN Finish("thrown", FALSE, TRUE)
     ELSE IF Len(calls) > 1
       THEN calls' = Tail(calls) /\ UNCHANGED <<queue, last, try, found, was, took>>
       ELSE Finish(IF was = "open" THEN "updated" ELSE "reopened",
                   Contains(Current.key, tickets[found]), o \in Faults)
  /\ UNCHANGED <<driver, known, runs, telemetry, blind>>

(* People close tickets; nothing else does. *)
Close(n) ==
  /\ n \in DOMAIN tickets /\ n <= MaxTickets /\ tickets[n].open
  /\ tickets' = [tickets EXCEPT ![n].open = FALSE]
  /\ UNCHANGED <<driver, known, runs, queue, try, calls, found, was, took, last, telemetry, blind, faults>>

(* The collector dies; nothing it had left to send is remembered. *)
Die ==
  /\ Sending /\ faults < MaxFaults /\ faults' = faults + 1
  /\ queue' = <<>> /\ last' = NotYet
  /\ try' = 1 /\ calls' = <<"search">> /\ found' = 0 /\ was' = "absent" /\ took' = FALSE
  /\ UNCHANGED <<driver, known, runs, tickets, telemetry, blind>>
-----------------------------------------------------------------------------
Deliver == \E o \in Outcomes : Send(o) \/ Search(o) \/ Create(o) \/ Touch(o)

DeliveryNext == StartRun \/ Deliver \/ (\E n \in DOMAIN tickets : Close(n)) \/ Die

(* The collector goes on with what it has begun; every call of it ends, at    *)
(* the latest in a timeout.                                                   *)
DeliverySpec == DeliveryInit /\ [][DeliveryNext]_deliveryVars /\ WF_deliveryVars(Deliver)
-----------------------------------------------------------------------------
Over == last # NotYet

(* What a run reports as sent, opened, updated or reopened the service has:   *)
(* it acted on a call of this job, or the ticket's text names the key.        *)
SentMeansHeld ==
  Over => (last.verdict \in {"sent", "opened", "updated", "reopened"} => last.held)

(* A retry settles what a lost answer left open: with a fault at most before  *)
(* its last attempt, a job is not reported as an error.  The push of items is *)
(* excepted, see PushReachesTracker.                                          *)
ErrorsAreFaults ==
  Over => (last.verdict \in {"error", "failed", "thrown"} /\ last.job.sink # "items" => last.hit)

(* A finding gets a second ticket only after a search for its key failed and  *)
(* was taken for an absent ticket; not because an answer was lost, a person   *)
(* closed the first, or the collector died between two calls.                 *)
OneTicketUnlessBlind ==
  \A m, n \in DOMAIN tickets :
    m # n /\ tickets[m].key = tickets[n].key => tickets[m].key \in blind

(* A run sends all it has and ends, whatever fails on the way. *)
PushesEnd == Sending ~> ~Sending

(* tracker-push.ts: each KSI's evidence PATCHes the tracker's indicator row.  *)
(* So a push that met no fault, of a KSI the tracker knows, arrives.          *)
PushReachesTracker ==
  Over /\ last.job.sink = "items" /\ known /\ ~last.hit => last.verdict = "sent"
=============================================================================
