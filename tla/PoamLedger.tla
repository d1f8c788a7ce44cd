------------------------------ MODULE PoamLedger ----------------------------
(***************************************************************************)
(* The monthly POA&M: core/poam-monthly.ts on top of core/poam-ledger.ts.  *)
(* A run loads the last recorded POA&M of an earlier month, threads its    *)
(* revision history, writes the delta report and the archive file of its   *)
(* month and appends one line to the ledger.  The process can die between  *)
(* two of these writes and in the middle of each.                          *)
(*                                                                         *)
(* One run at a time works in the directory (RunLock).  A document is what *)
(* its bytes determine: the run id (metadata.version), the month and the   *)
(* revisions; equal bytes are equal documents, so a line's sha256 is the   *)
(* document it was computed from.                                          *)
(***************************************************************************)
EXTENDS Naturals, Sequences

CONSTANTS
  Months,  \* report months, in the order of YYYY-MM
  MaxRuns  \* bound: number of runs, which also number their run ids

ASSUME MonthsAssumption == Months \subseteq Nat /\ MaxRuns \in Nat

VARIABLES
  ledger,   \* the lines of poam-ledger.jsonl
  parses,   \* whether every line of the ledger is JSON
  archive,  \* archive/poam-<month>.json
  report,   \* poam-delta-<month>.md: the document it is about
  run,      \* the run in progress
  runs      \* how many runs were started

vars == <<ledger, parses, archive, report, run, runs>>

None == [run |-> 0]
TornFile == [run |-> 0, month |-> 0]
NoRun == [at |-> "none"]

Revision == [month : Months, run : 1..MaxRuns]
Document == [run : 1..MaxRuns, month : Months, revisions : Seq(Revision)]
Stages == {"delta", "archive", "ledger", "finished"}

LedgerTypeOK ==
  /\ ledger \in Seq(Document)
  /\ parses \in BOOLEAN
  /\ archive \in [Months -> Document \cup {None, TornFile}]
  /\ report \in [Months -> Document \cup {None, TornFile}]
  /\ run \in [at : Stages, doc : Document] \cup {NoRun}
  /\ runs \in 0..MaxRuns

Init == /\ ledger = <<>> /\ parses = TRUE
        /\ archive = [m \in Months |-> None]
        /\ report = [m \in Months |-> None]
        /\ run = NoRun /\ runs = 0

-----------------------------------------------------------------------------
(* Lines of an earlier month among the first n. *)
Candidates(n, m) == {k \in 1..n : ledger[k].month < m}

(* The most recent month wins; on a tie the last-appended line. *)
Best(lines) == CHOOSE k \in lines : \A j \in lines :
  \/ ledger[j].month < ledger[k].month
  \/ ledger[j].month = ledger[k].month /\ j <= k

(* loadPriorMonthPoam(): a missing, torn or different file is a typed error. *)
Opens_AnyFile(line) == archive[line.month] \notin {None, TornFile}
Opens(line) == archive[line.month] = line

Threaded(doc) == Append(doc.revisions, [month |-> doc.month, run |-> doc.run])

(* The archived prior document, promoted to the last revision. *)
Revisions(m) == LET lines == Candidates(Len(ledger), m)
                IN IF lines = {} THEN <<>> ELSE Threaded(archive[ledger[Best(lines)].month])

(* The part of runPoamMonthly() up to the emission.  On a typed error, or    *)
(* when there are no failing findings, nothing of the month is written, and  *)
(* the state is as before. *)
Start(m) ==
  /\ run = NoRun /\ runs < MaxRuns
  /\ runs' = runs + 1
  /\ \/ /\ parses
        /\ LET lines == Candidates(Len(ledger), m)
           IN lines # {} => Opens(ledger[Best(lines)])
        /\ run' = [at |-> "delta", doc |-> [run |-> runs + 1, month |-> m, revisions |-> Revisions(m)]]
     \/ UNCHANGED run
  /\ UNCHANGED <<ledger, parses, archive, report>>

At(stage) == run.at = stage
Advance(stage) == run' = [run EXCEPT !.at = stage]

WriteDelta == /\ At("delta") /\ Advance("archive")
              /\ report' = [report EXCEPT ![run.doc.month] = run.doc]
              /\ UNCHANGED <<ledger, parses, archive, runs>>

WriteArchive == /\ At("archive") /\ Advance("ledger")
                /\ archive' = [archive EXCEPT ![run.doc.month] = run.doc]
                /\ UNCHANGED <<ledger, parses, report, runs>>

(* appendPoamLedger(): idempotent by run and month. *)
Recorded_Month(doc) == \E k \in 1..Len(ledger) : ledger[k].month = doc.month
Recorded(doc) == \E k \in 1..Len(ledger) : ledger[k].run = doc.run /\ ledger[k].month = doc.month

AppendLedger == /\ At("ledger") /\ Advance("finished")
                /\ ledger' = IF Recorded(run.doc) THEN ledger ELSE Append(ledger, run.doc)
                /\ UNCHANGED <<parses, archive, report, runs>>

Finish == /\ At("finished")
          /\ run' = NoRun
          /\ UNCHANGED <<ledger, parses, archive, report, runs>>

(* The process dies; the write it was in may have left half a file, or half *)
(* a line. *)
Crash ==
  /\ run # NoRun /\ run' = NoRun
  /\ \/ UNCHANGED <<ledger, parses, archive, report>>
     \/ /\ At("delta")
        /\ report' = [report EXCEPT ![run.doc.month] = TornFile]
        /\ UNCHANGED <<ledger, parses, archive>>
     \/ /\ At("archive")
        /\ archive' = [archive EXCEPT ![run.doc.month] = TornFile]
        /\ UNCHANGED <<ledger, parses, report>>
     \/ At("ledger") /\ parses' = FALSE /\ UNCHANGED <<ledger, archive, report>>
  /\ UNCHANGED runs

Next == (\E m \in Months : Start(m)) \/ WriteDelta \/ WriteArchive \/ AppendLedger \/ Finish \/ Crash

Spec == Init /\ [][Next]_vars

-----------------------------------------------------------------------------
(* The version chain a 3PAO reads: every recorded POA&M continues the one   *)
(* that was last recorded, before it, for the latest earlier month.  Months *)
(* that crashed before they were recorded, repeated months and months       *)
(* reported out of order do not break it. *)
ChainOfCustody ==
  \A n \in 1..Len(ledger) :
    LET lines == Candidates(n - 1, ledger[n].month)
    IN ledger[n].revisions = IF lines = {} THEN <<>> ELSE Threaded(ledger[Best(lines)])

(* No document lists itself or a later month as a revision, and no month    *)
(* twice. *)
ChainIncreases ==
  \A n \in 1..Len(ledger) :
    LET revs == ledger[n].revisions
    IN \A i \in 1..Len(revs) : /\ revs[i].month < ledger[n].month
                               /\ i > 1 => revs[i - 1].month < revs[i].month

(* A run that got to its end leaves its month readable, whatever earlier    *)
(* runs of that month left behind: running the month again repairs it.      *)
LastLine(m) == ledger[Best({k \in 1..Len(ledger) : ledger[k].month = m})]
FinishedMonthOpens == At("finished") => /\ Recorded(run.doc)
                                        /\ Opens(LastLine(run.doc.month))
                                        /\ report[run.doc.month] = run.doc

=============================================================================
