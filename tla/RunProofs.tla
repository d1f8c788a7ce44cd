------------------------------ MODULE RunProofs -----------------------------
(***************************************************************************)
(* The process of a run among others.  First its lock: what it guarantees  *)
(* for any number of runs and hosts, as long as acquisitions do not        *)
(* overlap and no run outlives the TTL (Calm).  Then its pushes: what a    *)
(* run reports of them, and how many tickets a finding gets, for any       *)
(* findings and keys, however many runs, faults and deaths of the          *)
(* collector.                                                              *)
(***************************************************************************)
EXTENDS RunLock, Delivery, FiniteSetTheorems, SequenceTheorems, TLAPS

Ended == {"done", "dead"}

(* One run at a time looks at the file or writes it. *)
OneAcquires == \A p, q \in Procs : pc[p] \in Acquiring /\ pc[q] \in Acquiring => p = q

(* Probing and ageing find out only runs that are over. *)
LiveRunsAnswer == \A p \in Procs : pc[p] \notin Ended => p \in alive /\ p \notin old

(* A run that judges an owner judges the one that works, if any does. *)
JudgesTheWorker == \A p, q \in Procs : pc[p] = "judge" /\ Working(q) => seen[p] = q

(* A run that claims the file does so while nobody works. *)
ClaimsFreely == \A p \in Procs : pc[p] \in {"claim", "write", "orphan"} => \A q \in Procs : ~Working(q)

(* The file under a run that writes is the one it truncated. *)
WritesItsOwn == \A p \in Procs : pc[p] # "orphan" /\ (pc[p] = "write" => lock = Torn)

LockIInv == /\ LockTypeOK
            /\ OwnerIsNamed
            /\ OneAcquires
            /\ LiveRunsAnswer
            /\ JudgesTheWorker
            /\ ClaimsFreely
            /\ WritesItsOwn

LEMMA LockInit == Init => LockIInv
BY FileAssumption DEF Init, LockIInv, LockTypeOK, OwnerIsNamed, OneAcquires, LiveRunsAnswer, JudgesTheWorker,
   ClaimsFreely, WritesItsOwn, Working, Places, Acquiring, Releasing, Ended

(* Each step preserves the invariant. *)
LEMMA LockStep ==
  ASSUME Calm, LockIInv, [Next]_vars
  PROVE  LockIInv'
<1> USE FileAssumption DEF Working, Acquiring, Releasing, Ended
<1>1. CASE UNCHANGED vars
  BY <1>1 DEF vars, LockIInv, LockTypeOK, OwnerIsNamed, OneAcquires, LiveRunsAnswer, JudgesTheWorker, ClaimsFreely,
              WritesItsOwn
<1>2. ASSUME NEW p \in Procs, Look(p) PROVE LockIInv'
  <2> USE <1>2 DEF LockIInv, Look, Goto
  <2>1. LockTypeOK'
    BY DEF LockTypeOK, Places
  <2>2. OwnerIsNamed'
    BY DEF LockTypeOK, OwnerIsNamed
  <2>3. OneAcquires'
    BY DEF LockTypeOK, OneAcquires
  <2>4. LiveRunsAnswer'
    BY DEF LockTypeOK, LiveRunsAnswer
  <2>5. JudgesTheWorker'
    BY DEF LockTypeOK, JudgesTheWorker
  <2>6. ClaimsFreely'
    BY DEF LockTypeOK, ClaimsFreely, OwnerIsNamed
  <2>7. WritesItsOwn'
    BY DEF LockTypeOK, WritesItsOwn
  <2>8. QED
    BY <2>1, <2>2, <2>3, <2>4, <2>5, <2>6, <2>7
<1>3. ASSUME NEW p \in Procs, Read(p) PROVE LockIInv'
  <2> USE <1>3 DEF LockIInv, Read, Goto
  <2>1. LockTypeOK'
    BY DEF LockTypeOK, Places
  <2>2. OwnerIsNamed'
    BY DEF LockTypeOK, OwnerIsNamed
  <2>3. OneAcquires'
    BY DEF LockTypeOK, OneAcquires
  <2>4. LiveRunsAnswer'
    BY DEF LockTypeOK, LiveRunsAnswer
  <2>5. JudgesTheWorker'
    BY DEF LockTypeOK, JudgesTheWorker, OwnerIsNamed
  <2>6. ClaimsFreely'
    BY DEF LockTypeOK, ClaimsFreely, OwnerIsNamed
  <2>7. WritesItsOwn'
    BY DEF LockTypeOK, WritesItsOwn
  <2>8. QED
    BY <2>1, <2>2, <2>3, <2>4, <2>5, <2>6, <2>7
<1>4. ASSUME NEW p \in Procs, Judge(p) PROVE LockIInv'
  <2> USE <1>4 DEF LockIInv, Judge, Goto
  <2>1. LockTypeOK'
    BY DEF LockTypeOK, Places
  <2>2. OwnerIsNamed'
    BY DEF LockTypeOK, OwnerIsNamed
  <2>3. OneAcquires'
    BY DEF LockTypeOK, OneAcquires
  <2>4. LiveRunsAnswer'
    BY DEF LockTypeOK, LiveRunsAnswer
  <2>5. JudgesTheWorker'
    BY DEF LockTypeOK, JudgesTheWorker
  <2>6. ClaimsFreely'
    BY DEF LockTypeOK, ClaimsFreely, JudgesTheWorker, LiveRunsAnswer, Stale, PidAlive
  <2>7. WritesItsOwn'
    BY DEF LockTypeOK, WritesItsOwn
  <2>8. QED
    BY <2>1, <2>2, <2>3, <2>4, <2>5, <2>6, <2>7
<1>5. ASSUME NEW p \in Procs, Truncate(p) PROVE LockIInv'
  <2> USE <1>5 DEF LockIInv, Truncate, Goto
  <2>1. LockTypeOK'
    BY DEF LockTypeOK, Places
  <2>2. OwnerIsNamed'
    BY DEF LockTypeOK, OwnerIsNamed, ClaimsFreely
  <2>3. OneAcquires'
    BY DEF LockTypeOK, OneAcquires
  <2>4. LiveRunsAnswer'
    BY DEF LockTypeOK, LiveRunsAnswer
  <2>5. JudgesTheWorker'
    BY DEF LockTypeOK, JudgesTheWorker
  <2>6. ClaimsFreely'
    BY DEF LockTypeOK, ClaimsFreely
  <2>7. WritesItsOwn'
    BY DEF LockTypeOK, WritesItsOwn
  <2>8. QED
    BY <2>1, <2>2, <2>3, <2>4, <2>5, <2>6, <2>7
<1>6. ASSUME NEW p \in Procs, Write(p) PROVE LockIInv'
  <2>1. pc[p] = "write" /\ lock' = p /\ pc' = [pc EXCEPT ![p] = "run"] /\ UNCHANGED <<pace, seen, alive, old>>
    BY <1>6 DEF LockIInv, WritesItsOwn, Write, Goto
  <2> USE <2>1 DEF LockIInv
  <2>2. LockTypeOK'
    BY DEF LockTypeOK, Places
  <2>3. OwnerIsNamed'
    BY DEF LockTypeOK, OwnerIsNamed, ClaimsFreely
  <2>4. OneAcquires'
    BY DEF LockTypeOK, OneAcquires
  <2>5. LiveRunsAnswer'
    BY DEF LockTypeOK, LiveRunsAnswer
  <2>6. JudgesTheWorker'
    BY DEF LockTypeOK, JudgesTheWorker, OneAcquires
  <2>7. ClaimsFreely'
    BY DEF LockTypeOK, ClaimsFreely, OneAcquires
  <2>8. WritesItsOwn'
    BY DEF LockTypeOK, WritesItsOwn, OneAcquires
  <2>9. QED
    BY <2>2, <2>3, <2>4, <2>5, <2>6, <2>7, <2>8
<1>7. ASSUME NEW p \in Procs, Retry(p) PROVE LockIInv'
  BY <1>7 DEF Retry, Goto, LockIInv, LockTypeOK, Places, OwnerIsNamed, OneAcquires, LiveRunsAnswer, JudgesTheWorker,
              ClaimsFreely, WritesItsOwn
<1>8. ASSUME NEW p \in Procs, Exit(p) \/ Own(p) \/ Unlink(p) PROVE LockIInv'
  <2>1. \A q \in Procs : pc[q] # "write" /\ pc[q] # "claim"
    BY <1>8 DEF LockIInv, ClaimsFreely, Exit, Own, Unlink
  <2>2. \E place \in {"own", "unlink", "done"} :
          /\ pc' = [pc EXCEPT ![p] = place]
          /\ alive' = IF place = "done" THEN alive \ {p} ELSE alive
          /\ lock' = lock \/ place = "done"
    BY <1>8, <2>1 DEF Exit, Own, Unlink, Goto, LockIInv, LockTypeOK
  <2>3. PICK place \in {"own", "unlink", "done"} :
          /\ pc' = [pc EXCEPT ![p] = place]
          /\ alive' = IF place = "done" THEN alive \ {p} ELSE alive
          /\ lock' = lock \/ place = "done"
    BY <2>2
  <2>4. Working(p) /\ UNCHANGED <<pace, seen, old>> /\ lock' \in {lock, Absent}
    BY <1>8 DEF Exit, Own, Unlink
  <2> USE <2>1, <2>3, <2>4 DEF LockIInv
  <2>5. LockTypeOK'
    BY DEF LockTypeOK, Places
  <2>6. OwnerIsNamed'
    BY DEF LockTypeOK, OwnerIsNamed
  <2>7. OneAcquires'
    BY DEF LockTypeOK, OneAcquires
  <2>8. LiveRunsAnswer'
    BY DEF LockTypeOK, LiveRunsAnswer
  <2>9. JudgesTheWorker'
    BY DEF LockTypeOK, JudgesTheWorker
  <2>10. ClaimsFreely'
    BY DEF LockTypeOK, ClaimsFreely
  <2>11. WritesItsOwn'
    BY DEF LockTypeOK, WritesItsOwn
  <2>12. QED
    BY <2>5, <2>6, <2>7, <2>8, <2>9, <2>10, <2>11
<1>9. ASSUME NEW p \in Procs, Kill(p) PROVE LockIInv'
  <2> USE <1>9 DEF Kill, Goto, LockIInv
  <2>1. LockTypeOK'
    BY DEF LockTypeOK, Places
  <2>2. OwnerIsNamed' /\ OneAcquires' /\ WritesItsOwn'
    BY DEF LockTypeOK, OwnerIsNamed, OneAcquires, WritesItsOwn
  <2>3. LiveRunsAnswer'
    BY DEF LockTypeOK, LiveRunsAnswer
  <2>4. JudgesTheWorker' /\ ClaimsFreely'
    BY DEF LockTypeOK, JudgesTheWorker, ClaimsFreely
  <2>5. QED
    BY <2>1, <2>2, <2>3, <2>4
<1>10. ASSUME NEW p \in Procs, ReusePid(p) \/ Age(p) PROVE LockIInv'
  BY <1>10 DEF ReusePid, Age, LockIInv, LockTypeOK, OwnerIsNamed, OneAcquires, LiveRunsAnswer, JudgesTheWorker,
               ClaimsFreely, WritesItsOwn
<1>11. QED
  BY <1>1, <1>2, <1>3, <1>4, <1>5, <1>6, <1>7, <1>8, <1>9, <1>10 DEF Next, Acquire, Release

-----------------------------------------------------------------------------
(* What holds of runs that are not scheduled so needs no more than the types. *)
LockAlways == LockTypeOK /\ (Calm => LockIInv)

LEMMA LockTyped ==
  ASSUME LockTypeOK, [Next]_vars
  PROVE  LockTypeOK' /\ pace' = pace
<1> USE FileAssumption DEF LockTypeOK, Places, Acquiring, Releasing, Goto
<1>1. CASE UNCHANGED vars
  BY <1>1 DEF vars
<1>2. ASSUME NEW p \in Procs, Look(p) \/ Read(p) \/ Judge(p) \/ Truncate(p) \/ Write(p)
      PROVE  LockTypeOK' /\ pace' = pace
  BY <1>2 DEF Look, Read, Judge, Truncate, Write
<1>3. ASSUME NEW p \in Procs, Exit(p) \/ Own(p)
      PROVE  LockTypeOK' /\ pace' = pace
  BY <1>3 DEF Exit, Own
<1>4. ASSUME NEW p \in Procs, Unlink(p)
      PROVE  LockTypeOK' /\ pace' = pace
  <2>1. pc' \in [Procs -> Places]
    BY <1>4 DEF Unlink
  <2>2. QED
    BY <1>4, <2>1 DEF Unlink
<1>5. ASSUME NEW p \in Procs, Retry(p) \/ Kill(p) \/ ReusePid(p) \/ Age(p)
      PROVE  LockTypeOK' /\ pace' = pace
  BY <1>5 DEF Retry, Kill, ReusePid, Age
<1>6. QED
  BY <1>1, <1>2, <1>3, <1>4, <1>5 DEF Next, Acquire, Release

(* As long as no two runs acquire at the same time and none outlives the    *)
(* TTL, the invariant holds whatever is killed, on whatever host, and       *)
(* whichever pids are reused. *)
THEOREM LockInductive == Spec => []LockAlways
<1>1. Init => LockAlways
  BY LockInit DEF LockAlways, LockIInv
<1>2. LockAlways /\ [Next]_vars => LockAlways'
  <2> SUFFICES ASSUME LockAlways, [Next]_vars PROVE LockAlways'
    OBVIOUS
  <2>1. LockTypeOK' /\ pace' = pace
    BY LockTyped DEF LockAlways
  <2>2. Calm' => Calm
    BY <2>1 DEF Calm
  <2>3. Calm => LockIInv'
    BY LockStep DEF LockAlways
  <2>4. QED
    BY <2>1, <2>2, <2>3 DEF LockAlways
<1>3. QED
  BY <1>1, <1>2, PTL DEF Spec

(* The lock file names the one run that works in the directory. *)
THEOREM LockNamesOwner == Spec => []OwnerIsNamed
<1>1. LockAlways => OwnerIsNamed
  BY DEF LockAlways, LockIInv, OwnerIsNamed
<1>2. QED
  BY <1>1, LockInductive, PTL

(* Two runs never write the same output directory at the same time. *)
THEOREM RunsExclude == Spec => []MutualExclusion
<1>1. OwnerIsNamed => MutualExclusion
  BY DEF OwnerIsNamed, MutualExclusion
<1>2. QED
  BY <1>1, LockNamesOwner, PTL
-----------------------------------------------------------------------------
PlainJobs == {Notify, Paramify, IndicatorPush, RunTelemetry, Siem, Webhook}
Jobs == PlainJobs \cup TicketJobs
Ticket == [key : Keys, open : BOOLEAN]
Verdicts == {"sent", "unsupported_ksi", "error", "opened", "failed", "thrown", "updated", "reopened"}
Ending == [job : Jobs, verdict : Verdicts, held : BOOLEAN, hit : BOOLEAN]
Pursuits == {<<"comment">>, <<"reopen", "comment">>, <<"reopen">>}

DeliveryTypeOK ==
  /\ driver \in Drivers /\ known \in BOOLEAN /\ runs \in Nat
  /\ queue \in Seq(Jobs) /\ try \in Nat
  /\ calls \in {<<"search">>, <<"create">>} \cup Pursuits
  /\ found \in 0..Len(tickets) /\ was \in {"absent", "open", "closed"} /\ took \in BOOLEAN
  /\ last \in {NotYet} \cup Ending
  /\ tickets \in Seq(Ticket) /\ telemetry \subseteq Nat /\ blind \subseteq Keys
  /\ faults \in 0..MaxFaults

PushingTicket == Sending /\ Current \in TicketJobs

(* A run begins with nothing left of the one before. *)
BeginsWithSearch == ~Sending => calls = <<"search">>

(* What is commented on or reopened is a ticket whose text names the key;   *)
(* tickets never change their keys. *)
PursuesAMatch == PushingTicket /\ calls \in Pursuits => found \in Matches(Current.key)

(* A ticket is about to be created only for a key that has none, or whose   *)
(* search failed: nobody else creates one meanwhile. *)
CreatesOnlyNew ==
  PushingTicket /\ calls = <<"create">> =>
    Current.key \in blind \/ \A n \in DOMAIN tickets : tickets[n].key # Current.key

DeliveryIInv == /\ DeliveryTypeOK
                /\ BeginsWithSearch /\ PursuesAMatch /\ CreatesOnlyNew
                /\ SentMeansHeld /\ ErrorsAreFaults /\ OneTicketUnlessBlind

-----------------------------------------------------------------------------
(* The jobs of a run are jobs, whatever the order of the findings.          *)
LEMMA JobsOfARun ==
  ASSUME NEW s \in Orders, NEW regressed \in BOOLEAN
  PROVE  Before(regressed) \o s \o After \in Seq(Jobs)
<1>1. Cardinality(Keys) \in Nat
  BY DeliveryAssumption, FS_CardinalityType
<1>2. s \in Seq(Jobs)
  BY <1>1 DEF Orders, Jobs
<1>3. Before(regressed) \in Seq(Jobs) /\ After \in Seq(Jobs)
  <2>1. {Notify, Paramify, IndicatorPush, RunTelemetry, Siem, Webhook} \subseteq Jobs
    BY DEF Jobs, PlainJobs
  <2> HIDE DEF Jobs
  <2>2. QED
    BY <2>1 DEF Before, After
<1>4. QED
  BY <1>2, <1>3

(* The job under way is a ticket's or another one. *)
LEMMA CurrentJob ==
  ASSUME queue \in Seq(Jobs), Sending
  PROVE  /\ Current \in Jobs /\ Tail(queue) \in Seq(Jobs)
         /\ Current.sink = "ticket" => Current \in TicketJobs /\ Current.key \in Keys
         /\ Current \in TicketJobs => Current.sink = "ticket"
<1>1. Current \in Jobs /\ Tail(queue) \in Seq(Jobs)
  BY HeadTailProperties DEF Sending, Current
<1>2. QED
  BY <1>1 DEF Jobs, PlainJobs, TicketJobs, TicketJob, Notify, Paramify, IndicatorPush, RunTelemetry, Siem, Webhook

(* What a search can lead to: only a failed match leads to a new ticket.    *)
LEMMA FollowingSearch ==
  ASSUME driver \in Drivers, NEW n \in Nat
  PROVE  IF n = 0 THEN Following(n) = <<"create">> ELSE Following(n) \in Pursuits
BY DEF Drivers, Following, GitHub, Jira, ServiceNow, Pursuits

(* A step that ends the job, or the run, leaves nothing under way: what it  *)
(* has still to show is about the tickets and about what it reports. *)
LEMMA JobEnds ==
  ASSUME DeliveryIInv, UNCHANGED <<driver, known, runs>>,
         queue' \in Seq(Jobs), try' = 1, calls' = <<"search">>, found' = 0, was' = "absent", took' = FALSE,
         tickets' \in Seq(Ticket), telemetry' \subseteq Nat, blind' \subseteq Keys, faults' \in 0..MaxFaults,
         last' \in {NotYet} \cup Ending,
         SentMeansHeld', ErrorsAreFaults', OneTicketUnlessBlind'
  PROVE  DeliveryIInv'
<1>1. DeliveryTypeOK'
  <2>1. found' \in 0..Len(tickets')
    BY LenProperties
  <2>2. QED
    BY <2>1 DEF DeliveryIInv, DeliveryTypeOK
<1>2. calls' \notin Pursuits /\ calls' # <<"create">>
  BY DEF Pursuits
<1>3. BeginsWithSearch' /\ PursuesAMatch' /\ CreatesOnlyNew'
  BY <1>2 DEF BeginsWithSearch, PursuesAMatch, CreatesOnlyNew
<1>4. QED
  BY <1>1, <1>3 DEF DeliveryIInv

(* What is reported as done the service holds, and what is reported as an   *)
(* error met a fault. *)
Truthful(job, verdict, held, hit) ==
  /\ verdict \in {"sent", "opened", "updated", "reopened"} => held
  /\ verdict \in {"error", "failed", "thrown"} /\ job.sink # "items" => hit

LEMMA ReportIsTruthful ==
  ASSUME NEW job, NEW verdict, NEW held, NEW hit, Truthful(job, verdict, held, hit),
         last' = [job |-> job, verdict |-> verdict, held |-> held, hit |-> hit]
  PROVE  SentMeansHeld' /\ ErrorsAreFaults'
BY DEF Truthful, SentMeansHeld, ErrorsAreFaults, Over

(* No step spends more faults than there are. *)
LEMMA FaultsCounted ==
  ASSUME faults \in 0..MaxFaults, NEW o \in Outcomes, Hit(o)
  PROVE  faults' \in 0..MaxFaults
BY DeliveryAssumption DEF Hit

(* A job that ends with a truthful report. *)
LEMMA JobFinishes ==
  ASSUME DeliveryIInv, Sending, UNCHANGED <<driver, known, runs>>,
         NEW verdict \in Verdicts, NEW held \in BOOLEAN, NEW hit \in BOOLEAN,
         Finish(verdict, held, hit), Truthful(Current, verdict, held, hit),
         tickets' \in Seq(Ticket), telemetry' \subseteq Nat, blind' \subseteq Keys, faults' \in 0..MaxFaults,
         OneTicketUnlessBlind'
  PROVE  DeliveryIInv'
<1>1. Current \in Jobs /\ Tail(queue) \in Seq(Jobs)
  BY CurrentJob DEF DeliveryIInv, DeliveryTypeOK
<1>2. last' = [job |-> Current, verdict |-> verdict, held |-> held, hit |-> hit]
  BY DEF Finish
<1>3. SentMeansHeld' /\ ErrorsAreFaults'
  BY <1>2, ReportIsTruthful
<1>4. last' \in Ending
  BY <1>1, <1>2 DEF Ending
<1>5. QED
  BY <1>1, <1>3, <1>4, JobEnds DEF Finish

(* Tickets whose keys are as before are as unique as before. *)
LEMMA SameTickets ==
  ASSUME OneTicketUnlessBlind, blind \subseteq blind',
         DOMAIN tickets' = DOMAIN tickets, \A n \in DOMAIN tickets : tickets'[n].key = tickets[n].key
  PROVE  OneTicketUnlessBlind'
BY DEF OneTicketUnlessBlind

-----------------------------------------------------------------------------
(* Nothing is sent and nothing reported at the start. *)
LEMMA DeliveryInitially == DeliveryInit => DeliveryIInv
<1> SUFFICES ASSUME DeliveryInit PROVE DeliveryIInv
  OBVIOUS
<1>1. DeliveryTypeOK
  <2>1. tickets \in Seq(Ticket) /\ Len(tickets) = 0
    BY EmptySeq DEF DeliveryInit
  <2>2. found \in 0..Len(tickets)
    BY <2>1 DEF DeliveryInit
  <2>3. driver \in Drivers /\ known \in BOOLEAN /\ runs \in Nat /\ faults \in 0..MaxFaults
    BY DeliveryAssumption DEF DeliveryInit
  <2>4. queue \in Seq(Jobs) /\ try \in Nat /\ calls = <<"search">>
    BY EmptySeq DEF DeliveryInit
  <2>5. was = "absent" /\ took \in BOOLEAN /\ last = NotYet /\ telemetry \subseteq Nat /\ blind \subseteq Keys
    BY DEF DeliveryInit
  <2>6. QED
    BY <2>1, <2>2, <2>3, <2>4, <2>5 DEF DeliveryTypeOK
<1>2. BeginsWithSearch /\ PursuesAMatch /\ CreatesOnlyNew
  BY DEF DeliveryInit, BeginsWithSearch, PursuesAMatch, CreatesOnlyNew, PushingTicket, Sending
<1>3. SentMeansHeld /\ ErrorsAreFaults /\ OneTicketUnlessBlind
  BY DEF DeliveryInit, SentMeansHeld, ErrorsAreFaults, OneTicketUnlessBlind, Over
<1>4. QED
  BY <1>1, <1>2, <1>3 DEF DeliveryIInv

(* A run begins with the search of its first job. *)
LEMMA StartRunKeeps == ASSUME DeliveryIInv, StartRun PROVE DeliveryIInv'
<1>1. PICK s \in Orders, regressed \in BOOLEAN : queue' = Before(regressed) \o s \o After
  BY DEF StartRun
<1>2. queue' \in Seq(Jobs)
  BY <1>1, JobsOfARun
<1>3. DeliveryTypeOK'
  BY <1>2 DEF StartRun, DeliveryIInv, DeliveryTypeOK
<1>4. calls' = <<"search">>
  BY DEF StartRun, DeliveryIInv, BeginsWithSearch
<1>5. calls' \notin Pursuits /\ calls' # <<"create">>
  BY <1>4 DEF Pursuits
<1>6. BeginsWithSearch' /\ PursuesAMatch' /\ CreatesOnlyNew'
  BY <1>4, <1>5 DEF BeginsWithSearch, PursuesAMatch, CreatesOnlyNew
<1>7. SentMeansHeld' /\ ErrorsAreFaults'
  BY DEF StartRun, SentMeansHeld, ErrorsAreFaults, Over
<1>8. OneTicketUnlessBlind'
  BY SameTickets DEF StartRun, DeliveryIInv
<1>9. QED
  BY <1>3, <1>6, <1>7, <1>8 DEF DeliveryIInv

(* Of a plain job: "sent" only after an answer, an error only after a fault. *)
LEMMA SendKeeps == ASSUME DeliveryIInv, NEW o \in Outcomes, Send(o) PROVE DeliveryIInv'
<1> DEFINE sink == Current.sink
           reply == Reply(o, Answer(sink))
<1>1. DeliveryTypeOK /\ Sending /\ Current \in Jobs /\ sink # "ticket" /\ Current \notin TicketJobs
  BY CurrentJob DEF Send, DeliveryIInv, DeliveryTypeOK
<1>2. UNCHANGED <<driver, known, runs, tickets, blind>> /\ faults' \in 0..MaxFaults
  BY <1>1, FaultsCounted DEF Send, DeliveryTypeOK
<1>3. PICK acted \in BOOLEAN :
        /\ o # "late" => acted = (o \in ActedOn)
        /\ LET holds == took \/ (acted /\ Answer(sink) = "ok") IN
           /\ telemetry' = IF sink = "telemetry" /\ acted THEN telemetry \cup {runs} ELSE telemetry
           /\ IF Retried(Current, reply)
                THEN /\ try' = NextTry /\ took' = holds
                     /\ UNCHANGED <<queue, calls, found, was, last>>
                ELSE Finish(Verdict(sink, reply), holds, o \in Faults)
  BY DEF Send
<1> DEFINE holds == took \/ (acted /\ Answer(sink) = "ok")
<1>4. telemetry' \subseteq Nat
  BY <1>1, <1>3 DEF DeliveryTypeOK
<1>5. OneTicketUnlessBlind'
  BY <1>2, SameTickets DEF DeliveryIInv
<1>6. CASE Retried(Current, reply)
  <2>1. try' = NextTry /\ took' = holds /\ UNCHANGED <<queue, calls, found, was, last>>
    BY <1>3, <1>6
  <2>2. try' \in Nat /\ took' \in BOOLEAN
    BY <1>1, <2>1 DEF DeliveryTypeOK, NextTry
  <2>3. DeliveryTypeOK'
    BY <1>1, <1>2, <1>4, <2>1, <2>2 DEF DeliveryTypeOK
  <2>4. BeginsWithSearch' /\ PursuesAMatch' /\ CreatesOnlyNew'
    BY <1>1, <2>1 DEF BeginsWithSearch, PursuesAMatch, CreatesOnlyNew, PushingTicket, Sending, Current
  <2>5. SentMeansHeld' /\ ErrorsAreFaults'
    BY <2>1 DEF DeliveryIInv, SentMeansHeld, ErrorsAreFaults, Over
  <2>6. QED
    BY <1>5, <2>3, <2>4, <2>5 DEF DeliveryIInv
<1>7. CASE ~Retried(Current, reply)
  <2>1. Finish(Verdict(sink, reply), holds, o \in Faults)
    BY <1>3, <1>7
  <2>2. Verdict(sink, reply) \in {"sent", "unsupported_ksi", "error"}
    BY DEF Verdict
  <2>3. o # "garbled"
    BY DEF Send
  <2>4. ASSUME Verdict(sink, reply) = "sent" PROVE holds
    <3>1. reply = "ok"
      BY <2>4 DEF Verdict
    <3>2. o = "answered" /\ Answer(sink) = "ok"
      BY <2>3, <3>1 DEF Reply, Outcomes, Faults
    <3>3. QED
      BY <1>3, <3>2 DEF ActedOn
  <2>5. ASSUME Verdict(sink, reply) = "error", sink # "items" PROVE o \in Faults
    <3>1. Answer(sink) = "ok"
      BY <2>5 DEF Answer, TelemetryAnswer
    <3>2. o # "answered"
      BY <2>5, <3>1 DEF Verdict, Reply
    <3>3. QED
      BY <3>2 DEF Outcomes
  <2>6. Truthful(Current, Verdict(sink, reply), holds, o \in Faults)
    BY <2>2, <2>4, <2>5 DEF Truthful
  <2>7. holds \in BOOLEAN /\ Verdict(sink, reply) \in Verdicts
    BY <1>1, <2>2 DEF DeliveryTypeOK, Verdicts
  <2>8. tickets' \in Seq(Ticket) /\ blind' \subseteq Keys
    BY <1>1, <1>2 DEF DeliveryTypeOK
  <2>9. PICK hit \in BOOLEAN : hit <=> o \in Faults
    OBVIOUS
  <2>10. Finish(Verdict(sink, reply), holds, hit) /\ Truthful(Current, Verdict(sink, reply), holds, hit)
    BY <2>1, <2>6, <2>9 DEF Finish, Truthful
  <2> HIDE DEF holds, reply, sink
  <2>11. QED
    BY <1>1, <1>2, <1>4, <1>5, <2>7, <2>8, <2>10, JobFinishes
<1>8. QED
  BY <1>6, <1>7

(* What a run that dies had reported is forgotten; the tickets stay. *)
LEMMA DieKeeps == ASSUME DeliveryIInv, Die PROVE DeliveryIInv'
<1>1. /\ DeliveryTypeOK /\ queue' = <<>> /\ last' = NotYet
      /\ UNCHANGED <<driver, known, runs, tickets, telemetry, blind>>
      /\ faults' \in 0..MaxFaults
  BY DeliveryAssumption DEF Die, DeliveryIInv, DeliveryTypeOK
<1>2. SentMeansHeld' /\ ErrorsAreFaults'
  BY <1>1 DEF SentMeansHeld, ErrorsAreFaults, Over
<1>3. OneTicketUnlessBlind'
  BY <1>1, SameTickets DEF DeliveryIInv
<1>4. /\ queue' \in Seq(Jobs) /\ try' = 1 /\ calls' = <<"search">>
      /\ found' = 0 /\ was' = "absent" /\ took' = FALSE
  BY <1>1 DEF Die
<1>5. tickets' \in Seq(Ticket) /\ telemetry' \subseteq Nat /\ blind' \subseteq Keys
  BY <1>1 DEF DeliveryTypeOK
<1>6. QED
  BY <1>1, <1>2, <1>3, <1>4, <1>5, JobEnds

(* A ticket's job under way, and the call it makes. *)
LEMMA PushingJob ==
  ASSUME DeliveryTypeOK, NEW call, Pushing(call)
  PROVE  /\ Sending /\ PushingTicket /\ Current \in Jobs /\ Current.key \in Keys /\ Head(calls) = call
         /\ Current.sink = "ticket"
<1>1. Sending /\ Current.sink = "ticket" /\ Head(calls) = call
  BY DEF Pushing
<1>2. QED
  BY <1>1, CurrentJob DEF DeliveryTypeOK, PushingTicket

(* A search leads to a match, or to a new ticket where there is no match or it  *)
(* failed. *)
LEMMA SearchKeeps == ASSUME DeliveryIInv, NEW o \in Outcomes, Search(o) PROVE DeliveryIInv'
<1> DEFINE k == Current.key
<1>1. /\ DeliveryTypeOK /\ Sending /\ PushingTicket /\ k \in Keys /\ Current.sink = "ticket"
      /\ UNCHANGED <<driver, known, runs, tickets, telemetry>> /\ faults' \in 0..MaxFaults
  BY PushingJob, FaultsCounted DEF Search, DeliveryIInv, DeliveryTypeOK
<1>2. tickets \in Seq(Ticket) /\ Len(tickets) \in Nat /\ DOMAIN tickets = 1..Len(tickets)
  BY <1>1 DEF DeliveryTypeOK
<1>3. CASE Finish("thrown", FALSE, TRUE) /\ UNCHANGED blind
  <2>1. Truthful(Current, "thrown", FALSE, TRUE) /\ "thrown" \in Verdicts
    BY DEF Truthful, Verdicts
  <2>2. OneTicketUnlessBlind'
    BY <1>1, <1>3, SameTickets DEF DeliveryIInv
  <2>3. tickets' \in Seq(Ticket) /\ telemetry' \subseteq Nat /\ blind' \subseteq Keys
    BY <1>1, <1>3 DEF DeliveryTypeOK
  <2>4. QED
    BY <1>1, <1>3, <2>1, <2>2, <2>3, JobFinishes
<1>4. ASSUME NEW n \in 0..Len(tickets), n = 0 \/ n \in Matches(k),
             found' = n, calls' = Following(n), was' \in {"absent", "open", "closed"},
             UNCHANGED <<queue, last, try, took>>,
             blind' = blind \/ blind' = blind \cup {k},
             n = 0 => k \in blind' \/ Matches(k) = {}
      PROVE  DeliveryIInv'
  <2>1. blind \subseteq blind' /\ blind' \subseteq Keys
    BY <1>1, <1>4 DEF DeliveryTypeOK
  <2>2. IF n = 0 THEN calls' = <<"create">> ELSE calls' \in Pursuits
    BY <1>1, <1>4, FollowingSearch DEF DeliveryTypeOK
  <2>3. DeliveryTypeOK'
    BY <1>1, <1>4, <2>1, <2>2 DEF DeliveryTypeOK
  <2>4. Current' = Current /\ Sending' = Sending /\ PushingTicket' = PushingTicket
    BY <1>4 DEF Current, Sending, PushingTicket
  <2>5. BeginsWithSearch'
    BY <1>1, <2>4 DEF BeginsWithSearch
  <2>6. PursuesAMatch'
    <3>1. ASSUME calls' \in Pursuits PROVE found' \in Matches(Current.key)'
      <4>1. n # 0
        BY <2>2, <3>1 DEF Pursuits
      <4>2. n \in Matches(k)
        BY <1>4, <4>1
      <4>3. QED
        BY <1>1, <1>4, <2>4, <4>2 DEF Matches
    <3>2. QED
      BY <3>1 DEF PursuesAMatch
  <2>7. CreatesOnlyNew'
    <3>1. ASSUME calls' = <<"create">>
          PROVE  Current'.key \in blind' \/ \A m \in DOMAIN tickets' : tickets'[m].key # Current'.key
      <4>1. n = 0
        BY <2>2, <3>1 DEF Pursuits
      <4>2. CASE Matches(k) = {}
        BY <1>1, <2>4, <4>2 DEF Matches, Contains
      <4>3. QED
        BY <1>4, <2>4, <4>1, <4>2
    <3>2. QED
      BY <3>1 DEF CreatesOnlyNew
  <2>8. SentMeansHeld' /\ ErrorsAreFaults'
    BY <1>4 DEF DeliveryIInv, SentMeansHeld, ErrorsAreFaults, Over
  <2>9. OneTicketUnlessBlind'
    BY <1>1, <2>1, SameTickets DEF DeliveryIInv
  <2>10. QED
    BY <2>3, <2>5, <2>6, <2>7, <2>8, <2>9 DEF DeliveryIInv
<1>5. CASE /\ \E n \in IF Matches(k) = {} THEN {0} ELSE Matches(k) :
                /\ found' = n /\ calls' = Following(n)
                /\ was' = IF n = 0 THEN "absent" ELSE IF tickets[n].open THEN "open" ELSE "closed"
           /\ UNCHANGED <<queue, last, try, took, blind>>
  <2>1. PICK n \in IF Matches(k) = {} THEN {0} ELSE Matches(k) :
          /\ found' = n /\ calls' = Following(n)
          /\ was' = IF n = 0 THEN "absent" ELSE IF tickets[n].open THEN "open" ELSE "closed"
    BY <1>5
  <2>2. Matches(k) \subseteq 1..Len(tickets)
    BY <1>2 DEF Matches
  <2>3. n \in 0..Len(tickets) /\ (n = 0 => Matches(k) = {}) /\ (n = 0 \/ n \in Matches(k))
    BY <1>2, <2>1, <2>2
  <2>4. QED
    BY <1>4, <1>5, <2>1, <2>3
<1>6. CASE /\ found' = 0 /\ calls' = Following(0) /\ was' = "absent"
           /\ blind' = blind \cup {k}
           /\ UNCHANGED <<queue, last, try, took>>
  BY <1>2, <1>4, <1>6
<1>7. QED
  BY <1>3, <1>5, <1>6 DEF Search

(* The new ticket is the only one of its key, or the key's search failed. *)
LEMMA CreateKeeps == ASSUME DeliveryIInv, NEW o \in Outcomes, Create(o) PROVE DeliveryIInv'
<1> DEFINE k == Current.key
           t == [key |-> k, open |-> TRUE]
           verdict == IF Thrown(o) THEN "thrown" ELSE IF o = "answered" THEN "opened" ELSE "failed"
<1>1. /\ DeliveryTypeOK /\ Sending /\ PushingTicket /\ k \in Keys /\ Head(calls) = "create"
      /\ UNCHANGED <<driver, known, runs, telemetry, blind>> /\ faults' \in 0..MaxFaults
  BY PushingJob, FaultsCounted DEF Create, DeliveryIInv, DeliveryTypeOK
<1>2. tickets \in Seq(Ticket) /\ Len(tickets) \in Nat /\ DOMAIN tickets = 1..Len(tickets) /\ t \in Ticket
  BY <1>1 DEF DeliveryTypeOK, Ticket
<1>3. PICK acted \in BOOLEAN :
        /\ o # "late" => acted = (o \in ActedOn)
        /\ tickets' = IF acted THEN Append(tickets, t) ELSE tickets
        /\ Finish(verdict, acted, o \in Faults)
  BY DEF Create
<1>4. calls = <<"create">>
  BY <1>1 DEF DeliveryTypeOK, Pursuits
<1>5. k \in blind \/ \A n \in DOMAIN tickets : tickets[n].key # k
  BY <1>1, <1>4 DEF DeliveryIInv, CreatesOnlyNew
<1> HIDE DEF t
<1>6. tickets' \in Seq(Ticket)
  BY <1>2, <1>3
<1>7. OneTicketUnlessBlind'
  <2>1. CASE ~acted
    BY <1>1, <1>3, <2>1, SameTickets DEF DeliveryIInv
  <2>2. CASE acted
    <3>1. /\ tickets' = Append(tickets, t) /\ Len(tickets') = Len(tickets) + 1
          /\ DOMAIN tickets' = 1..Len(tickets) + 1
          /\ \A n \in 1..Len(tickets) : tickets'[n] = tickets[n]
          /\ tickets'[Len(tickets) + 1] = t
      BY <1>2, <1>3, <2>2
    <3>2. t.key = k
      BY DEF t
    <3>3. ASSUME NEW m \in DOMAIN tickets', NEW n \in DOMAIN tickets', m # n,
                 tickets'[m].key = tickets'[n].key
          PROVE  tickets'[m].key \in blind'
      <4>1. CASE m \in 1..Len(tickets) /\ n \in 1..Len(tickets)
        BY <1>1, <1>2, <3>1, <3>3, <4>1 DEF DeliveryIInv, OneTicketUnlessBlind
      <4>2. CASE m = Len(tickets) + 1 \/ n = Len(tickets) + 1
        <5>1. tickets'[m].key = k
          BY <3>1, <3>2, <3>3, <4>2
        <5>2. \E i \in 1..Len(tickets) : tickets[i].key = k
          <6>1. m \in 1..Len(tickets) \/ n \in 1..Len(tickets)
            BY <1>2, <3>1, <3>3
          <6>2. QED
            BY <3>1, <3>3, <5>1, <6>1
        <5>3. QED
          BY <1>1, <1>2, <1>5, <5>1, <5>2
      <4>3. QED
        BY <1>2, <3>1, <4>1, <4>2
    <3>4. QED
      BY <3>3 DEF OneTicketUnlessBlind
  <2>3. QED
    BY <2>1, <2>2
<1>8. PICK hit \in BOOLEAN : hit <=> o \in Faults
  OBVIOUS
<1>9. Finish(verdict, acted, hit)
  BY <1>3, <1>8 DEF Finish
<1>10. Truthful(Current, verdict, acted, hit) /\ verdict \in Verdicts
  <2>1. o = "answered" => acted
    BY <1>3 DEF ActedOn
  <2>2. o # "answered" => hit
    BY <1>8 DEF Outcomes
  <2>3. QED
    BY <2>1, <2>2 DEF Truthful, Verdicts, Thrown
<1>11. telemetry' \subseteq Nat /\ blind' \subseteq Keys
  BY <1>1 DEF DeliveryTypeOK
<1> HIDE DEF verdict, k
<1>12. QED
  BY <1>1, <1>6, <1>7, <1>9, <1>10, <1>11, JobFinishes

(* Closing a ticket or reopening it changes no key and no number. *)
LEMMA TicketsKeepKeys ==
  ASSUME tickets \in Seq(Ticket), NEW n \in DOMAIN tickets, NEW b \in BOOLEAN,
         tickets' = [tickets EXCEPT ![n].open = b]
  PROVE  /\ tickets' \in Seq(Ticket) /\ Len(tickets') = Len(tickets) /\ DOMAIN tickets' = DOMAIN tickets
         /\ \A i \in DOMAIN tickets : tickets'[i].key = tickets[i].key
<1>1. tickets[n] \in Ticket /\ n \in 1..Len(tickets)
  BY ElementOfSeq, LenProperties
<1> DEFINE t == [tickets[n] EXCEPT !.open = b]
<1>2. t \in Ticket /\ t.key = tickets[n].key
  BY <1>1 DEF Ticket
<1>3. tickets' = [tickets EXCEPT ![n] = t]
  OBVIOUS
<1> HIDE DEF t
<1>4. QED
  BY <1>1, <1>2, <1>3, ExceptSeq, LenProperties

(* A comment or a reopening is on a match. *)
LEMMA TouchKeeps == ASSUME DeliveryIInv, NEW o \in Outcomes, Touch(o) PROVE DeliveryIInv'
<1> DEFINE k == Current.key
<1>1. /\ DeliveryTypeOK /\ Sending /\ PushingTicket /\ k \in Keys /\ Head(calls) \in {"reopen", "comment"}
      /\ UNCHANGED <<driver, known, runs, telemetry, blind>> /\ faults' \in 0..MaxFaults
  BY PushingJob, FaultsCounted DEF Touch, DeliveryIInv, DeliveryTypeOK
<1>2. calls \in Pursuits
  BY <1>1 DEF DeliveryTypeOK
<1>3. found \in DOMAIN tickets /\ Contains(k, tickets[found])
  BY <1>1, <1>2 DEF DeliveryIInv, PursuesAMatch, Matches
<1>4. /\ tickets' \in Seq(Ticket) /\ Len(tickets') = Len(tickets) /\ DOMAIN tickets' = DOMAIN tickets
      /\ \A i \in DOMAIN tickets : tickets'[i].key = tickets[i].key
  <2>1. tickets \in Seq(Ticket)
    BY <1>1 DEF DeliveryTypeOK
  <2>2. tickets' = tickets \/ tickets' = [tickets EXCEPT ![found].open = TRUE]
    BY DEF Touch
  <2>3. QED
    BY <1>3, <2>1, <2>2, TicketsKeepKeys
<1>5. OneTicketUnlessBlind'
  BY <1>1, <1>4, SameTickets DEF DeliveryIInv
<1>6. telemetry' \subseteq Nat /\ blind' \subseteq Keys
  BY <1>1 DEF DeliveryTypeOK
<1>7. CASE Finish("thrown", FALSE, TRUE)
  <2>1. Truthful(Current, "thrown", FALSE, TRUE) /\ "thrown" \in Verdicts
    BY DEF Truthful, Verdicts
  <2>2. QED
    BY <1>1, <1>4, <1>5, <1>6, <1>7, <2>1, JobFinishes
<1>8. CASE /\ calls' = Tail(calls) /\ Len(calls) > 1
           /\ UNCHANGED <<queue, last, try, found, was, took>>
  <2>1. calls' = <<"comment">>
    <3>1. Len(<<"comment">>) = 1 /\ Len(<<"reopen">>) = 1
      OBVIOUS
    <3>2. calls = <<"reopen", "comment">>
      BY <1>2, <1>8, <3>1 DEF Pursuits
    <3>3. QED
      BY <1>8, <3>2
  <2>2. DeliveryTypeOK'
    BY <1>1, <1>4, <1>6, <1>8, <2>1 DEF DeliveryTypeOK, Pursuits
  <2>3. Current' = Current /\ Sending' = Sending
    BY <1>8 DEF Current, Sending
  <2>4. found' \in DOMAIN tickets' /\ Contains(Current.key, tickets[found])'
    BY <1>3, <1>4, <1>8, <2>3 DEF Contains
  <2>5. BeginsWithSearch' /\ PursuesAMatch' /\ CreatesOnlyNew'
    BY <1>1, <2>1, <2>3, <2>4 DEF BeginsWithSearch, PursuesAMatch, CreatesOnlyNew, Matches
  <2>6. SentMeansHeld' /\ ErrorsAreFaults'
    BY <1>8 DEF DeliveryIInv, SentMeansHeld, ErrorsAreFaults, Over
  <2>7. QED
    BY <1>5, <2>2, <2>5, <2>6 DEF DeliveryIInv
<1>9. CASE Finish(IF was = "open" THEN "updated" ELSE "reopened", Contains(k, tickets[found]), o \in Faults)
  <2> DEFINE verdict == IF was = "open" THEN "updated" ELSE "reopened"
  <2>1. PICK hit \in BOOLEAN : hit <=> o \in Faults
    OBVIOUS
  <2>2. Finish(verdict, TRUE, hit)
    BY <1>3, <1>9, <2>1 DEF Finish
  <2>3. Truthful(Current, verdict, TRUE, hit) /\ verdict \in Verdicts
    BY DEF Truthful, Verdicts
  <2> HIDE DEF verdict
  <2>4. QED
    BY <1>1, <1>4, <1>5, <1>6, <2>2, <2>3, JobFinishes
<1>10. QED
  BY <1>7, <1>8, <1>9 DEF Touch

(* People who close tickets change no key. *)
LEMMA CloseKeeps == ASSUME DeliveryIInv, NEW n \in DOMAIN tickets, Close(n) PROVE DeliveryIInv'
<1>1. /\ DeliveryTypeOK /\ tickets \in Seq(Ticket)
      /\ tickets' = [tickets EXCEPT ![n].open = FALSE]
      /\ UNCHANGED <<driver, known, runs, queue, try, calls, found, was, took, last, telemetry, blind, faults>>
  BY DEF Close, DeliveryIInv, DeliveryTypeOK
<1>2. /\ tickets' \in Seq(Ticket) /\ Len(tickets') = Len(tickets) /\ DOMAIN tickets' = DOMAIN tickets
      /\ \A i \in DOMAIN tickets : tickets'[i].key = tickets[i].key
  BY <1>1, TicketsKeepKeys
<1>3. DeliveryTypeOK'
  BY <1>1, <1>2 DEF DeliveryTypeOK
<1>4. Current' = Current /\ Sending' = Sending /\ PushingTicket' = PushingTicket
  BY <1>1 DEF Current, Sending, PushingTicket
<1>5. \A k \in Keys : Matches(k)' = Matches(k)
  BY <1>2 DEF Matches, Contains
<1>6. PushingTicket => Current.key \in Keys
  BY <1>1, CurrentJob DEF PushingTicket, DeliveryTypeOK
<1>7. BeginsWithSearch' /\ PursuesAMatch' /\ CreatesOnlyNew'
  BY <1>1, <1>2, <1>4, <1>5, <1>6 DEF DeliveryIInv, BeginsWithSearch, PursuesAMatch, CreatesOnlyNew
<1>8. SentMeansHeld' /\ ErrorsAreFaults'
  BY <1>1 DEF DeliveryIInv, SentMeansHeld, ErrorsAreFaults, Over
<1>9. OneTicketUnlessBlind'
  BY <1>1, <1>2, SameTickets DEF DeliveryIInv
<1>10. QED
  BY <1>3, <1>7, <1>8, <1>9 DEF DeliveryIInv

(* A step of none of the variables. *)
LEMMA DeliveryStutters == ASSUME DeliveryIInv, UNCHANGED deliveryVars PROVE DeliveryIInv'
<1>1. UNCHANGED <<driver, known, runs, queue, try, calls, found, was, took, last, tickets, telemetry, blind, faults>>
  BY DEF deliveryVars
<1>2. DeliveryTypeOK' /\ BeginsWithSearch'
  BY <1>1 DEF DeliveryIInv, DeliveryTypeOK, BeginsWithSearch, Sending
<1>3. PursuesAMatch' /\ CreatesOnlyNew'
  BY <1>1 DEF DeliveryIInv, PursuesAMatch, CreatesOnlyNew, PushingTicket, Sending, Current, Matches, Contains
<1>4. SentMeansHeld' /\ ErrorsAreFaults' /\ OneTicketUnlessBlind'
  BY <1>1 DEF DeliveryIInv, SentMeansHeld, ErrorsAreFaults, Over, OneTicketUnlessBlind
<1>5. QED
  BY <1>2, <1>3, <1>4 DEF DeliveryIInv

-----------------------------------------------------------------------------
(* The invariant holds whatever fails, whoever closes tickets, and whenever *)
(* the collector dies. *)
THEOREM DeliveryInductive == DeliverySpec => []DeliveryIInv
<1>1. DeliveryInit => DeliveryIInv
  BY DeliveryInitially
<1>2. DeliveryIInv /\ [DeliveryNext]_deliveryVars => DeliveryIInv'
  <2>1. SUFFICES ASSUME DeliveryIInv, [DeliveryNext]_deliveryVars PROVE DeliveryIInv'
    OBVIOUS
  <2>2. CASE StartRun \/ Die \/ UNCHANGED deliveryVars
    BY <2>1, <2>2, StartRunKeeps, DieKeeps, DeliveryStutters
  <2>3. CASE Deliver
    BY <2>1, <2>3, SendKeeps, SearchKeeps, CreateKeeps, TouchKeeps DEF Deliver
  <2>4. ASSUME NEW n \in DOMAIN tickets, Close(n) PROVE DeliveryIInv'
    BY <2>1, <2>4, CloseKeeps
  <2>5. QED
    BY <2>1, <2>2, <2>3, <2>4 DEF DeliveryNext
<1>3. QED
  BY <1>1, <1>2, PTL DEF DeliverySpec

(* A sent, opened, updated or reopened report means that the service acted  *)
(* on the job, or that the ticket's text names the key. *)
THEOREM ReportsAreTrue == DeliverySpec => []SentMeansHeld
<1>1. DeliveryIInv => SentMeansHeld
  BY DEF DeliveryIInv
<1>2. QED
  BY <1>1, DeliveryInductive, PTL

(* An error is reported only of a job whose last call was not simply        *)
(* answered. *)
THEOREM ErrorsHaveCauses == DeliverySpec => []ErrorsAreFaults
<1>1. DeliveryIInv => ErrorsAreFaults
  BY DEF DeliveryIInv
<1>2. QED
  BY <1>1, DeliveryInductive, PTL

(* A second ticket for a finding needs a search that failed and was taken   *)
(* for an absent ticket. *)
THEOREM TicketsAreNotDoubled == DeliverySpec => []OneTicketUnlessBlind
<1>1. DeliveryIInv => OneTicketUnlessBlind
  BY DEF DeliveryIInv
<1>2. QED
  BY <1>1, DeliveryInductive, PTL
=============================================================================
