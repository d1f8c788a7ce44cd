--------------------------- MODULE PoamLedgerProofs -------------------------
(***************************************************************************)
(* The version chain of the monthly POA&M, for any months and any number   *)
(* of runs, wherever the process dies.                                     *)
(***************************************************************************)
EXTENDS PoamLedger, FiniteSetTheorems, TLAPS

(* What a document of month m has for revisions when the first n lines are  *)
(* recorded before it. *)
Continuation(n, m) ==
  LET lines == Candidates(n, m) IN IF lines = {} THEN <<>> ELSE Threaded(ledger[Best(lines)])

(* A run in progress has the highest id, and no line has it until it is     *)
(* recorded. *)
RunsAreNew ==
  /\ \A k \in 1..Len(ledger) : ledger[k].run <= runs
  /\ run # NoRun => run.doc.run = runs
  /\ run # NoRun /\ ~At("finished") => \A k \in 1..Len(ledger) : ledger[k].run < runs

(* What it read of the ledger when it started is still so when it records:  *)
(* nobody else appends. *)
StillContinues ==
  run # NoRun /\ ~At("finished") => run.doc.revisions = Continuation(Len(ledger), run.doc.month)

(* What it has written by each stage. *)
WrittenSoFar ==
  /\ run.at \in {"archive", "ledger", "finished"} => report[run.doc.month] = run.doc
  /\ run.at \in {"ledger", "finished"} => archive[run.doc.month] = run.doc
  /\ At("finished") => ledger # <<>> /\ ledger[Len(ledger)] = run.doc

LedgerIInv == /\ LedgerTypeOK
              /\ RunsAreNew
              /\ StillContinues
              /\ WrittenSoFar
              /\ ChainOfCustody
              /\ ChainIncreases

-----------------------------------------------------------------------------
(* Line j is recorded for an earlier month than line k, or before it.       *)
NotAfter(s, j, k) == s[j].month < s[k].month \/ (s[j].month = s[k].month /\ j <= k)

(* A line of the ledger is a document, its month a number. *)
LEMMA LineType ==
  ASSUME NEW s \in Seq(Document), NEW k \in 1..Len(s)
  PROVE  /\ k \in Nat /\ s[k] \in Document
         /\ s[k].month \in Nat /\ s[k].month \in Months
<1>1. k \in Nat /\ s[k] \in Document
  OBVIOUS
<1>2. s[k].month \in Months
  BY <1>1 DEF Document
<1>3. QED
  BY <1>1, <1>2, MonthsAssumption

(* Of some lines of a ledger one is the most recent: a line with the fewest *)
(* lines after it has none after it. *)
LEMMA MostRecentExists ==
  ASSUME NEW s \in Seq(Document), NEW lines \in SUBSET (1..Len(s)), lines # {}
  PROVE  \E k \in lines : \A j \in lines : NotAfter(s, j, k)
<1>1. \A k \in lines : k \in Nat /\ s[k].month \in Nat
  BY LineType
<1> DEFINE After(k) == {j \in lines : ~NotAfter(s, j, k)}
           Afters == {After(k) : k \in lines}
<1>2. IsFiniteSet(lines)
  <2>1. Len(s) \in Nat /\ IsFiniteSet(1..Len(s))
    BY FS_Interval
  <2>2. QED
    BY <2>1, FS_Subset
<1>3. Afters \subseteq FiniteSubsetsOf(lines) /\ Afters # {}
  <2>1. \A k \in lines : After(k) \in SUBSET lines /\ IsFiniteSet(After(k))
    BY <1>2, FS_Subset
  <2>2. QED
    BY <2>1 DEF FiniteSubsetsOf
<1>4. IsWellFoundedOn(StrictSubsetOrdering(lines), FiniteSubsetsOf(lines))
  BY FS_StrictSubsetOrderingWellFounded
<1>5. PICK A \in Afters : \A B \in Afters : <<B, A>> \notin StrictSubsetOrdering(lines)
  <2> HIDE DEF Afters
  <2>1. QED
    BY <1>3, <1>4, WFMin
<1>6. PICK k \in lines : A = After(k)
  OBVIOUS
<1>7. ASSUME NEW j \in After(k) PROVE FALSE
  <2>1. j \in lines /\ j \notin After(j)
    BY <1>1 DEF NotAfter
  <2>2. ASSUME NEW i \in After(j) PROVE i \in After(k)
    <3>1. i \in lines /\ ~NotAfter(s, i, j) /\ ~NotAfter(s, j, k)
      BY <1>7
    <3>2. ~NotAfter(s, i, k)
      BY <1>1, <2>1, <3>1 DEF NotAfter
    <3>3. QED
      BY <3>1, <3>2
  <2>3. <<After(j), After(k)>> \in StrictSubsetOrdering(lines)
    BY <1>7, <2>1, <2>2 DEF StrictSubsetOrdering
  <2>4. QED
    BY <1>5, <1>6, <2>1, <2>3
<1>8. QED
  BY <1>6, <1>7

(* Only one line can be the most recent. *)
LEMMA MostRecentIsOne ==
  ASSUME NEW s \in Seq(Document), NEW j \in 1..Len(s), NEW k \in 1..Len(s),
         NotAfter(s, j, k), NotAfter(s, k, j)
  PROVE  j = k
<1>1. s[j].month \in Nat /\ s[k].month \in Nat
  BY LineType
<1>2. QED
  BY <1>1 DEF NotAfter

(* Best() returns that line, and no other is the most recent. *)
LEMMA BestIsMostRecent ==
  ASSUME ledger \in Seq(Document), NEW lines \in SUBSET (1..Len(ledger)), lines # {}
  PROVE  Best(lines) \in lines /\ \A j \in lines : NotAfter(ledger, j, Best(lines))
BY MostRecentExists DEF Best, NotAfter

(* So a line that is the most recent is the one Best() returns. *)
LEMMA MostRecentIsBest ==
  ASSUME ledger \in Seq(Document), NEW lines \in SUBSET (1..Len(ledger)),
         NEW k \in lines, \A j \in lines : NotAfter(ledger, j, k)
  PROVE  k = Best(lines)
<1>1. Best(lines) \in lines /\ NotAfter(ledger, k, Best(lines)) /\ NotAfter(ledger, Best(lines), k)
  BY BestIsMostRecent
<1>2. QED
  BY <1>1, MostRecentIsOne

(* Lines that are appended leave what the lines before them continue as it  *)
(* was. *)
LEMMA ContinuationKept ==
  ASSUME ledger \in Seq(Document), ledger' \in Seq(Document), Len(ledger) <= Len(ledger'),
         \A k \in 1..Len(ledger) : ledger'[k] = ledger[k],
         NEW n \in 0..Len(ledger), NEW m \in Months
  PROVE  Continuation(n, m)' = Continuation(n, m)
<1>1. /\ Len(ledger) \in Nat /\ Len(ledger') \in Nat
      /\ 1..n \subseteq 1..Len(ledger) /\ 1..n \subseteq 1..Len(ledger')
      /\ \A k \in 1..n : ledger'[k] = ledger[k]
  OBVIOUS
<1> DEFINE lines == Candidates(n, m)
<1>2. Candidates(n, m)' = lines /\ lines \subseteq 1..n
  BY <1>1 DEF Candidates
<1>3. CASE lines = {}
  BY <1>2, <1>3 DEF Continuation
<1>4. CASE lines # {}
  <2>1. PICK k \in lines : \A j \in lines : NotAfter(ledger, j, k)
    <3>1. lines \in SUBSET (1..Len(ledger))
      BY <1>1, <1>2
    <3>2. QED
      BY <1>4, <3>1, MostRecentExists
  <2>2. k = Best(lines)
    BY <1>2, <2>1, MostRecentIsBest
  <2>3. \A j \in lines : NotAfter(ledger', j, k)
    BY <1>1, <1>2, <2>1 DEF NotAfter
  <2>4. k = Best(Candidates(n, m))'
    <3>1. \E b \in lines : \A j \in lines : NotAfter(ledger', j, b)
      BY <2>1, <2>3
    <3> DEFINE b == Best(Candidates(n, m))'
    <3>2. b \in lines /\ \A j \in lines : NotAfter(ledger', j, b)
      BY <1>2, <3>1 DEF Best, NotAfter
    <3>3. NotAfter(ledger', k, b) /\ NotAfter(ledger', b, k)
      BY <2>1, <2>3, <3>2
    <3>4. k \in 1..Len(ledger') /\ b \in 1..Len(ledger')
      BY <1>1, <1>2, <3>2
    <3>5. QED
      BY <1>1, <3>3, <3>4, MostRecentIsOne
  <2>5. ledger'[k] = ledger[k]
    BY <1>1, <1>2, <2>1
  <2>6. QED
    BY <1>2, <1>4, <2>2, <2>4, <2>5 DEF Continuation, Threaded
<1>5. QED
  BY <1>3, <1>4

-----------------------------------------------------------------------------
Increasing(revs, m) ==
  \A i \in 1..Len(revs) : revs[i].month < m /\ (i > 1 => revs[i - 1].month < revs[i].month)

(* What a new document takes for its revisions is a chain that increases up *)
(* to its month. *)
LEMMA ContinuationIncreases ==
  ASSUME ledger \in Seq(Document), ChainIncreases, NEW n \in 0..Len(ledger), NEW m \in Months
  PROVE  Continuation(n, m) \in Seq(Revision) /\ Increasing(Continuation(n, m), m)
<1> DEFINE lines == Candidates(n, m)
<1>1. CASE lines = {}
  BY <1>1 DEF Continuation, Increasing
<1>2. CASE lines # {}
  <2> DEFINE b == Best(lines)
  <2>1. lines \in SUBSET (1..Len(ledger)) /\ \A k \in lines : ledger[k].month < m
    BY DEF Candidates
  <2>2. b \in 1..Len(ledger) /\ ledger[b].month < m
    BY <1>2, <2>1, BestIsMostRecent
  <2> DEFINE doc == ledger[b]
             last == [month |-> doc.month, run |-> doc.run]
  <2> HIDE DEF b
  <2>3. doc \in Document /\ doc.month \in Nat /\ m \in Nat /\ doc.month < m
    BY <2>2, LineType, MonthsAssumption
  <2>4. doc.revisions \in Seq(Revision) /\ last \in Revision
    BY <2>3 DEF Document, Revision
  <2>5. \A i \in 1..Len(doc.revisions) : doc.revisions[i] \in Revision /\ doc.revisions[i].month \in Nat
    <3>1. ASSUME NEW i \in 1..Len(doc.revisions)
          PROVE doc.revisions[i] \in Revision /\ doc.revisions[i].month \in Months
      <4>1. doc.revisions[i] \in Revision
        BY <2>4
      <4>2. QED
        BY <4>1 DEF Revision
    <3>2. QED
      BY <3>1, MonthsAssumption
  <2>6. Increasing(doc.revisions, doc.month)
    BY <2>2 DEF ChainIncreases, Increasing
  <2>7. Continuation(n, m) = Append(doc.revisions, last)
    BY <1>2 DEF Continuation, Threaded, b
  <2> DEFINE revs == doc.revisions
             more == Append(revs, last)
  <2>8. /\ more \in Seq(Revision) /\ Len(more) = Len(revs) + 1 /\ Len(revs) \in Nat
        /\ \A i \in 1..Len(revs) : more[i] = revs[i]
        /\ more[Len(revs) + 1] = last
    <3> HIDE DEF revs, last
    <3>1. revs \in Seq(Revision) /\ last \in Revision
      BY <2>4 DEF revs, last
    <3>2. QED
      BY <3>1
  <2>9. ASSUME NEW i \in 1..Len(more)
        PROVE  more[i].month < m /\ (i > 1 => more[i - 1].month < more[i].month)
    <3> HIDE DEF revs, more, doc
    <3>1. \A j \in 1..Len(revs) : /\ revs[j].month \in Nat /\ revs[j].month < doc.month
                                  /\ j > 1 => revs[j - 1].month < revs[j].month
      BY <2>5, <2>6 DEF Increasing, revs
    <3>2. last.month = doc.month
      OBVIOUS
    <3> HIDE DEF last
    <3>3. CASE i \in 1..Len(revs)
      <4>1. more[i] = revs[i] /\ (i > 1 => i - 1 \in 1..Len(revs) /\ more[i - 1] = revs[i - 1])
        BY <2>8, <3>3
      <4>2. QED
        BY <2>3, <3>1, <3>3, <4>1
    <3>4. CASE i = Len(revs) + 1
      <4>1. more[i] = last /\ (i > 1 => i - 1 \in 1..Len(revs) /\ more[i - 1] = revs[i - 1])
        BY <2>8, <3>4
      <4>2. QED
        BY <2>3, <3>1, <3>2, <4>1
    <3>5. QED
      BY <2>8, <3>3, <3>4
  <2>10. QED
    BY <2>7, <2>8, <2>9 DEF Increasing
<1>3. QED
  BY <1>1, <1>2

-----------------------------------------------------------------------------
(* The parts of the invariant that speak of the recorded lines only.        *)
LinesSound == ChainOfCustody /\ ChainIncreases

(* The chain of custody, in terms of what a line continues. *)
LEMMA Custody ==
  ASSUME ledger \in Seq(Document)
  PROVE  ChainOfCustody <=> \A k \in 1..Len(ledger), m \in Months :
           ledger[k].month = m => ledger[k].revisions = Continuation(k - 1, m)
BY LineType DEF ChainOfCustody, Continuation

(* A step that records nothing keeps them, and what a document continues. *)
LEMMA LinesKept ==
  ASSUME ledger \in Seq(Document), LinesSound, UNCHANGED ledger
  PROVE  /\ LinesSound'
         /\ \A n \in 0..Len(ledger), m \in Months : Continuation(n, m)' = Continuation(n, m)
<1>1. \A n \in 0..Len(ledger), m \in Months : Continuation(n, m)' = Continuation(n, m)
  BY ContinuationKept
<1>2. \A k \in 1..Len(ledger), m \in Months :
        ledger'[k].month = m => ledger'[k].revisions = Continuation(k - 1, m)'
  BY <1>1, Custody DEF LinesSound
<1>3. ChainOfCustody'
  BY <1>2, LineType DEF ChainOfCustody, Continuation
<1>4. ChainIncreases'
  BY DEF LinesSound, ChainIncreases
<1>5. QED
  BY <1>1, <1>3, <1>4 DEF LinesSound

(* A run in progress is a stage and a document. *)
LEMMA InProgress ==
  ASSUME LedgerTypeOK, run # NoRun
  PROVE  /\ run \in [at : Stages, doc : Document]
         /\ run.at \in Stages /\ run.doc \in Document
         /\ run.doc.month \in Months /\ run.doc.run \in Nat
<1>1. run \in [at : Stages, doc : Document]
  BY DEF LedgerTypeOK
<1>2. run.at \in Stages /\ run.doc \in Document
  BY <1>1
<1>3. QED
  BY <1>1, <1>2 DEF Document

(* A run at a stage is in progress. *)
LEMMA AtIsInProgress ==
  ASSUME NEW stage \in Stages, At(stage)
  PROVE  run # NoRun
BY DEF At, NoRun, Stages

(* The next stage is the old run's document at another stage. *)
LEMMA Advanced ==
  ASSUME LedgerTypeOK, run # NoRun, NEW stage \in Stages, Advance(stage)
  PROVE  /\ run' \in [at : Stages, doc : Document]
         /\ run'.at = stage /\ run'.doc = run.doc /\ run' # NoRun
<1>1. run \in [at : Stages, doc : Document]
  BY InProgress
<1>2. run' \in [at : Stages, doc : Document] /\ run'.at = stage /\ run'.doc = run.doc
  BY <1>1 DEF Advance
<1>3. QED
  BY <1>2 DEF NoRun, Stages

(* In an empty directory nothing is recorded or in progress. *)
LEMMA LedgerInit == Init => LedgerIInv
BY MonthsAssumption DEF Init, LedgerIInv, LedgerTypeOK, RunsAreNew, StillContinues, WrittenSoFar,
   ChainOfCustody, ChainIncreases, None, NoRun, At, Stages

(* A run that starts continues what is recorded. *)
LEMMA StartKeeps ==
  ASSUME LedgerIInv, NEW m \in Months, Start(m)
  PROVE  LedgerIInv'
<1> USE MonthsAssumption
<1>1. /\ LedgerTypeOK /\ ledger \in Seq(Document) /\ run = NoRun /\ runs \in Nat
      /\ runs' = runs + 1 /\ runs' \in 1..MaxRuns
      /\ UNCHANGED <<ledger, parses, archive, report>>
  BY DEF LedgerIInv, LedgerTypeOK, Start
<1>2. LinesSound'
  BY <1>1, LinesKept DEF LedgerIInv, LinesSound
<1>3. \A k \in 1..Len(ledger) : ledger[k].run \in Nat /\ ledger[k].run <= runs
  <2>1. \A k \in 1..Len(ledger) : ledger[k] \in Document
    BY <1>1, LineType
  <2>2. QED
    BY <2>1 DEF LedgerIInv, RunsAreNew, Document
<1>4. CASE UNCHANGED run
  <2>1. LedgerTypeOK'
    BY <1>1, <1>4 DEF LedgerTypeOK
  <2>2. RunsAreNew'
    BY <1>1, <1>3, <1>4 DEF RunsAreNew
  <2>3. StillContinues' /\ WrittenSoFar'
    BY <1>1, <1>4 DEF StillContinues, WrittenSoFar, At, NoRun
  <2>4. QED
    BY <1>2, <2>1, <2>2, <2>3 DEF LedgerIInv, LinesSound
<1>5. CASE run' # NoRun
  <2> DEFINE lines == Candidates(Len(ledger), m)
             doc == [run |-> runs + 1, month |-> m, revisions |-> Revisions(m)]
  <2>1. /\ run' = [at |-> "delta", doc |-> doc]
        /\ lines # {} => Opens(ledger[Best(lines)])
    BY <1>1, <1>5 DEF Start
  <2>2. Revisions(m) = Continuation(Len(ledger), m)
    BY <2>1 DEF Revisions, Continuation, Opens
  <2>3. Revisions(m) \in Seq(Revision)
    BY <1>1, <2>2, ContinuationIncreases DEF LedgerIInv
  <2>4. doc \in Document
    BY <1>1, <2>3 DEF Document
  <2>5. run' \in [at : Stages, doc : Document] /\ run'.at = "delta"
        /\ run'.doc.run = runs' /\ run'.doc.month = m /\ run'.doc.revisions = Revisions(m)
    BY <1>1, <2>1, <2>4 DEF Stages
  <2>6. LedgerTypeOK'
    BY <1>1, <2>5 DEF LedgerTypeOK
  <2>7. RunsAreNew'
    BY <1>1, <1>3, <2>5 DEF RunsAreNew
  <2>8. StillContinues'
    <3>1. Continuation(Len(ledger), m)' = Continuation(Len(ledger), m)
      BY <1>1, LinesKept DEF LedgerIInv, LinesSound
    <3>2. QED
      BY <1>1, <2>2, <2>5, <3>1 DEF StillContinues
  <2>9. WrittenSoFar'
    BY <2>5 DEF WrittenSoFar, At
  <2>10. QED
    BY <1>2, <2>6, <2>7, <2>8, <2>9 DEF LedgerIInv, LinesSound
<1>6. QED
  BY <1>1, <1>4, <1>5 DEF Start

(* What a step that leaves the ledger alone has still to show. *)
LEMMA UnrecordedStep ==
  ASSUME LedgerIInv, UNCHANGED <<ledger, runs>>, LedgerTypeOK', WrittenSoFar',
         run' = NoRun \/ (/\ run # NoRun /\ ~At("finished")
                          /\ run' # NoRun /\ run'.doc = run.doc)
  PROVE  LedgerIInv'
<1>1. /\ LinesSound'
      /\ \A n \in 0..Len(ledger), m \in Months : Continuation(n, m)' = Continuation(n, m)
  BY LinesKept DEF LedgerIInv, LedgerTypeOK, LinesSound
<1>2. RunsAreNew'
  BY DEF LedgerIInv, RunsAreNew, At
<1>3. ASSUME run' # NoRun PROVE run'.doc.revisions = Continuation(Len(ledger), run.doc.month)'
  <2>1. run # NoRun /\ ~At("finished") /\ run'.doc = run.doc
    BY <1>3
  <2>2. Len(ledger) \in 0..Len(ledger) /\ run.doc.month \in Months
    BY <2>1, InProgress DEF LedgerIInv, LedgerTypeOK
  <2>3. QED
    BY <1>1, <2>1, <2>2 DEF LedgerIInv, StillContinues
<1>4. StillContinues'
  BY <1>3 DEF StillContinues
<1>5. QED
  BY <1>1, <1>2, <1>4 DEF LedgerIInv, LinesSound

(* The delta report is written for the document of the run. *)
LEMMA WriteDeltaKeeps == ASSUME LedgerIInv, WriteDelta PROVE LedgerIInv'
<1>1. LedgerTypeOK /\ run # NoRun /\ run.doc \in Document /\ run.doc.month \in Months
  BY AtIsInProgress, InProgress DEF LedgerIInv, WriteDelta, Stages
<1>2. run' \in [at : Stages, doc : Document] /\ run'.at = "archive" /\ run'.doc = run.doc /\ run' # NoRun
  BY <1>1, Advanced DEF WriteDelta, Stages
<1>3. LedgerTypeOK'
  BY <1>1, <1>2 DEF LedgerTypeOK, WriteDelta
<1>4. WrittenSoFar'
  BY <1>1, <1>2 DEF LedgerTypeOK, WriteDelta, WrittenSoFar, At
<1>5. QED
  BY <1>1, <1>2, <1>3, <1>4, UnrecordedStep DEF WriteDelta, At

(* The archive file is the document of the run; the report is still. *)
LEMMA WriteArchiveKeeps == ASSUME LedgerIInv, WriteArchive PROVE LedgerIInv'
<1>1. LedgerTypeOK /\ run # NoRun /\ run.doc \in Document /\ run.doc.month \in Months
  BY AtIsInProgress, InProgress DEF LedgerIInv, WriteArchive, Stages
<1>2. run' \in [at : Stages, doc : Document] /\ run'.at = "ledger" /\ run'.doc = run.doc /\ run' # NoRun
  BY <1>1, Advanced DEF WriteArchive, Stages
<1>3. LedgerTypeOK'
  BY <1>1, <1>2 DEF LedgerTypeOK, WriteArchive
<1>4. WrittenSoFar'
  BY <1>1, <1>2 DEF LedgerIInv, LedgerTypeOK, WriteArchive, WrittenSoFar, At
<1>5. QED
  BY <1>1, <1>2, <1>3, <1>4, UnrecordedStep DEF WriteArchive, At

(* A run that ends or dies leaves the lines alone, whatever it tore. *)
LEMMA StopKeeps == ASSUME LedgerIInv, Finish \/ Crash PROVE LedgerIInv'
<1>1. LedgerTypeOK /\ run # NoRun /\ run.doc \in Document /\ run.doc.month \in Months
  BY AtIsInProgress, InProgress DEF LedgerIInv, Finish, Crash, Stages
<1>2. run' = NoRun /\ UNCHANGED <<ledger, runs>>
  BY DEF Finish, Crash
<1>3. LedgerTypeOK'
  BY <1>1, <1>2 DEF LedgerTypeOK, Finish, Crash
<1>4. WrittenSoFar'
  BY <1>2 DEF WrittenSoFar, At, NoRun
<1>5. QED
  BY <1>2, <1>3, <1>4, UnrecordedStep

(* The line recorded is new, continues the lines before it, and leaves what *)
(* they continue as it was. *)
LEMMA AppendLedgerKeeps == ASSUME LedgerIInv, AppendLedger PROVE LedgerIInv'
<1> DEFINE doc == run.doc
           n == Len(ledger)
<1>1. LedgerTypeOK /\ run # NoRun /\ doc \in Document /\ doc.month \in Months /\ doc.run \in Nat
  BY AtIsInProgress, InProgress DEF LedgerIInv, AppendLedger, Stages
<1>2. run' \in [at : Stages, doc : Document] /\ run'.at = "finished" /\ run'.doc = doc /\ run' # NoRun
  BY <1>1, Advanced DEF AppendLedger, Stages
<1>3. ledger \in Seq(Document) /\ n \in Nat /\ runs \in Nat
      /\ UNCHANGED <<parses, archive, report, runs>>
  BY <1>1, MonthsAssumption DEF LedgerTypeOK, AppendLedger
<1>4. doc.run = runs /\ \A k \in 1..n : ledger[k].run < runs
  BY <1>1 DEF LedgerIInv, RunsAreNew, AppendLedger, At
<1>5. \A k \in 1..n : ledger[k].run \in Nat
  <2>1. \A k \in 1..n : ledger[k] \in Document
    BY <1>3, LineType
  <2>2. QED
    BY <2>1 DEF Document
<1>6. ledger' = Append(ledger, doc)
  <2>1. ~Recorded(doc)
    BY <1>3, <1>4, <1>5 DEF Recorded
  <2>2. QED
    BY <2>1 DEF AppendLedger
<1> HIDE DEF doc
<1>7. /\ ledger' \in Seq(Document) /\ Len(ledger') = n + 1 /\ ledger' # <<>>
      /\ \A k \in 1..n : ledger'[k] = ledger[k]
      /\ ledger'[n + 1] = doc
  BY <1>1, <1>3, <1>6
<1>8. LedgerTypeOK'
  BY <1>1, <1>2, <1>3, <1>7 DEF LedgerTypeOK
<1>9. RunsAreNew'
  <2>1. ASSUME NEW k \in 1..Len(ledger') PROVE ledger'[k].run <= runs
    <3>1. CASE k \in 1..n
      BY <1>3, <1>4, <1>5, <1>7, <3>1
    <3>2. CASE k = n + 1
      BY <1>3, <1>4, <1>7, <3>2
    <3>3. QED
      BY <1>3, <1>7, <3>1, <3>2
  <2>2. QED
    BY <1>2, <1>3, <1>4, <2>1 DEF RunsAreNew, At
<1>10. StillContinues'
  BY <1>2 DEF StillContinues, At
<1>11. WrittenSoFar'
  BY <1>2, <1>3, <1>7 DEF LedgerIInv, WrittenSoFar, AppendLedger, At, doc
<1>12. doc.revisions = Continuation(n, doc.month)
  BY <1>1 DEF LedgerIInv, StillContinues, AppendLedger, At, doc
<1>13. ChainOfCustody'
  <2>1. ASSUME NEW k \in 1..Len(ledger'), NEW m \in Months, ledger'[k].month = m
        PROVE  ledger'[k].revisions = Continuation(k - 1, m)'
    <3>1. k - 1 \in 0..n /\ n <= Len(ledger')
      BY <1>3, <1>7
    <3>2. Continuation(k - 1, m)' = Continuation(k - 1, m)
      BY <1>3, <1>7, <3>1, ContinuationKept
    <3>3. CASE k \in 1..n
      <4>1. ledger[k].revisions = Continuation(k - 1, m)
        BY <1>3, <1>7, <2>1, <3>3, Custody DEF LedgerIInv
      <4>2. QED
        BY <1>7, <3>2, <3>3, <4>1
    <3>4. CASE k = n + 1
      BY <1>3, <1>7, <1>12, <2>1, <3>2, <3>4
    <3>5. QED
      BY <1>3, <1>7, <3>3, <3>4
  <2>2. QED
    BY <1>7, <2>1, LineType DEF ChainOfCustody, Continuation
<1>14. ChainIncreases'
  <2>1. Increasing(doc.revisions, doc.month)
    BY <1>1, <1>3, <1>12, ContinuationIncreases DEF LedgerIInv
  <2>2. ASSUME NEW k \in 1..Len(ledger') PROVE Increasing(ledger'[k].revisions, ledger'[k].month)
    <3>1. CASE k \in 1..n
      BY <1>7, <3>1 DEF LedgerIInv, ChainIncreases, Increasing
    <3>2. CASE k = n + 1
      BY <1>7, <2>1, <3>2
    <3>3. QED
      BY <1>3, <1>7, <3>1, <3>2
  <2>3. QED
    BY <2>2 DEF ChainIncreases, Increasing
<1>15. QED
  BY <1>8, <1>9, <1>10, <1>11, <1>13, <1>14 DEF LedgerIInv

(* Every step keeps the invariant. *)
LEMMA LedgerStep == ASSUME LedgerIInv, [Next]_vars PROVE LedgerIInv'
<1>1. ASSUME NEW m \in Months, Start(m) PROVE LedgerIInv'
  BY <1>1, StartKeeps
<1>2. CASE WriteDelta
  BY <1>2, WriteDeltaKeeps
<1>3. CASE WriteArchive
  BY <1>3, WriteArchiveKeeps
<1>4. CASE AppendLedger
  BY <1>4, AppendLedgerKeeps
<1>5. CASE Finish \/ Crash
  BY <1>5, StopKeeps
<1>6. CASE UNCHANGED vars
  <2>1. LinesSound'
    BY <1>6, LinesKept DEF vars, LedgerIInv, LedgerTypeOK, LinesSound
  <2>2. ASSUME run # NoRun PROVE StillContinues'
    <3>1. Len(ledger) \in 0..Len(ledger) /\ run.doc.month \in Months
      BY <2>2, InProgress DEF LedgerIInv, LedgerTypeOK
    <3>2. Continuation(Len(ledger), run.doc.month)' = Continuation(Len(ledger), run.doc.month)
      BY <1>6, <3>1, LinesKept DEF vars, LedgerIInv, LedgerTypeOK, LinesSound
    <3>3. QED
      BY <1>6, <3>2 DEF vars, LedgerIInv, StillContinues, At
  <2>3. StillContinues'
    BY <1>6, <2>2 DEF vars, StillContinues
  <2>4. QED
    BY <1>6, <2>1, <2>3 DEF vars, LedgerIInv, LinesSound, LedgerTypeOK, RunsAreNew, WrittenSoFar, At
<1>7. QED
  BY <1>1, <1>2, <1>3, <1>4, <1>5, <1>6 DEF Next

(* Whatever months are reported, in whatever order and however often, and   *)
(* wherever the process dies, the invariant holds. *)
THEOREM LedgerInductive == Spec => []LedgerIInv
<1>1. Init => LedgerIInv
  BY LedgerInit
<1>2. LedgerIInv /\ [Next]_vars => LedgerIInv'
  BY LedgerStep
<1>3. QED
  BY <1>1, <1>2, PTL DEF Spec

(* Lines, files and the run in progress keep their types: a run's document  *)
(* is made of what an earlier one recorded, never of a torn or absent file. *)
THEOREM LedgerTypeCorrect == Spec => []LedgerTypeOK
<1>1. LedgerIInv => LedgerTypeOK
  BY DEF LedgerIInv
<1>2. QED
  BY <1>1, LedgerInductive, PTL

(* Every recorded POA&M continues the one recorded last before it for the   *)
(* latest earlier month. *)
THEOREM ChainIsUnbroken == Spec => []ChainOfCustody
<1>1. LedgerIInv => ChainOfCustody
  BY DEF LedgerIInv
<1>2. QED
  BY <1>1, LedgerInductive, PTL

(* The months of a document's revisions increase, up to its own.            *)
THEOREM RevisionsIncrease == Spec => []ChainIncreases
<1>1. LedgerIInv => ChainIncreases
  BY DEF LedgerIInv
<1>2. QED
  BY <1>1, LedgerInductive, PTL

(* A run that got to its end leaves its month recorded, readable and        *)
(* reported: the last line is its own, so it is the last of its month. *)
THEOREM FinishedIsReadable == Spec => []FinishedMonthOpens
<1>1. ASSUME LedgerIInv PROVE FinishedMonthOpens
  <2>1. SUFFICES ASSUME At("finished")
                 PROVE  /\ Recorded(run.doc) /\ Opens(LastLine(run.doc.month))
                        /\ report[run.doc.month] = run.doc
    BY DEF FinishedMonthOpens
  <2> DEFINE n == Len(ledger)
             lines == {k \in 1..n : ledger[k].month = run.doc.month}
  <2>2. /\ ledger \in Seq(Document) /\ n \in Nat
        /\ run.doc \in Document
    BY <1>1, <2>1, AtIsInProgress, InProgress DEF LedgerIInv, LedgerTypeOK, Stages
  <2>3. /\ ledger # <<>> /\ ledger[n] = run.doc
        /\ archive[run.doc.month] = run.doc /\ report[run.doc.month] = run.doc
    BY <1>1, <2>1 DEF LedgerIInv, WrittenSoFar, At
  <2>4. n \in lines /\ lines \in SUBSET (1..n)
    BY <2>2, <2>3
  <2>5. \A j \in lines : NotAfter(ledger, j, n)
    BY <2>2, <2>4 DEF NotAfter
  <2>6. n = Best(lines)
    BY <2>2, <2>4, <2>5, MostRecentIsBest
  <2>7. Opens(LastLine(run.doc.month))
    BY <2>3, <2>6 DEF Opens, LastLine
  <2>8. Recorded(run.doc)
    BY <2>3, <2>4 DEF Recorded
  <2>9. QED
    BY <2>3, <2>7, <2>8
<1>2. QED
  BY <1>1, LedgerInductive, PTL

=============================================================================
