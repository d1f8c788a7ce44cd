# FedPy in TLA+

FedPy collects FedRAMP evidence from cloud accounts and turns it into signed
documents.  Two programs make it up:

* the **tracker** (`src/tracker`), a Hono server over SQLite where people record
  work items and run the signed workflows: risk acceptances, compensating
  controls, organisational risks;
* the **collector** (`src/cloud-evidence`), a command-line run that reads clouds,
  computes findings, pulls the signed workflows from the tracker, emits OSCAL
  and other documents (the POA&M among them), keeps ledgers across runs, signs,
  and pushes results to other services.

Two exporters are separate batch programs: `src/fedramp_inventory_export`, and
`src/nonfed_pci_inventory_generator`, a Python program that collects with a pool
of threads.

This directory holds TLA+ modules for the parts whose correctness depends on
order, time, failure or several actors, TLC configurations that check them, and
TLAPS proofs.  `PROJECT.json` lists components, runs, hazards, theorems and, for
every definition that models code, the source lines it stands for.

## 1. Inventory

Tracker:

| part | state | operations | what makes it correct |
|---|---|---|---|
| request handling (`index.ts`, `db.ts`) | process up or down, suspended requests, `audit_log` | a handler runs to its `await`; each SQL statement commits by itself unless a transaction joins several | what a handler checked still holds when it writes; row and audit row agree after a crash |
| roles (`rbac.ts`) | role per user, domains | `requirePermission`, `changeRole` | each step is taken by a role that may take it |
| risk acceptances (`routes/risk-acceptance.ts`, `risk-acceptance-sign.ts`) | `risk_acceptances`, link table | create, approve, revoke, expire, verify, list | two persons, no reopening, signature matches the row |
| enforcer (`risk-acceptance-enforcer.ts`) | none | sweep at start and every hour | what is past due expires, whenever the server dies |
| compensating controls (`routes/compensating-controls.ts`, `compensating-control-sign.ts`) | `compensating_controls` | create, edit, activate, retire, verify, list | the sign-off is over what is stored; a control is not retired under a live acceptance |
| organisational risks, register (`routes/risk-register.ts`) | `organisational_risks` | create, update, close, rows, export | closed risks stay closed; the register shows what is in force |
| sessions, 2FA, tokens (`auth.ts`, `routes/auth.ts`, `2fa.ts`, `totp.ts`, `tokens.ts`) | sessions, secrets, backup codes | login, enrol, verify, logout | a backup code works once; a session past its deadline stays out |
| user administration (`routes/admin.ts`) | `users` | change role, domains | an administrator remains |
| rate limiter, CSRF (`rate-limit.ts`, `csrf.ts`) | `rate_limits` | check-and-hit | bounded requests per window |
| items, attachments (`routes/items.ts`, `attachments.ts`) | items, audit rows, rows and blobs | edit, upload, delete | the audit log tells the whole story; no row without its blob |
| run ingestion (`routes/collector_runs.ts`, `ingest.ts`) | collector runs, catalogue | upload, upsert, re-ingest | a repeated upload changes nothing more; what people wrote stays |
| backup (`backup.ts`) | database file, its log, backup files | backup, restore | what is restored fits together |

Collector:

| part | state | operations | what makes it correct |
|---|---|---|---|
| orchestrator (`orchestrator.ts`) | the output directory | lock, collect, pull, emit, sign, push | no stage comes before one it depends on; one failing stays contained |
| evidence collectors (`providers/`, `findings.ts`, `envelope.ts`) | what was read of the cloud | read, conclude, roll up | a finding passes only if it is so of the cloud |
| run lock (`run-lock.ts`) | the lock file | acquire, release | one run works at a time, none is locked out for ever |
| workflow readers (`risk-acceptance-reader.ts`, `compensating-control-reader.ts`, `organisational-risk-reader.ts`) | snapshot files | pull, verify, cached fallback | what is used was signed |
| POA&M (`oscal-poam.ts`) | none | build | deviations are approved and unexpired |
| monthly POA&M (`poam-monthly.ts`, `poam-ledger.ts`) | ledger, archive, delta report | monthly run | an unbroken revision chain |
| document emitters (`oscal*.ts`, `*-emit.ts`, `ssdf-*.ts`, `section889-*.ts`, `submission-bundle.ts`, ...) | files | read, quote, write, amend, merge | a digest quoted is that of the file as it is |
| other ledgers (`run-ledger.ts`, `vdr-ledger.ts`, `process-artifact-tracker.ts`) | JSON lines | append, load | first-seen dates never move |
| signing (`sign.ts`, `verify-cli.ts`, `timestamp.ts`) | manifest, signature | sign, verify | every emitted file is covered |
| retry, concurrency, fan-out (`retry.ts`, `rate-control.ts`, `aws-org-fanout.ts`) | attempt, limit | call, back off | a call ends; no lost account |
| pushes (`tracker-push.ts`, `ticket-push.ts`, `siem-push.ts`, `webhook-push.ts`, `paramify-push.ts`, `notify.ts`) | remote | create, update, comment, reopen | what is reported as sent arrived; no duplicates after retries |
| deadline engine, screening, guardrails | none | pure functions | match their definitions |

Exporters:

| part | state | operations | what makes it correct |
|---|---|---|---|
| inventory export (`collect.ts`, `join.ts`, `writers.ts`) | none | one pass | the joins |
| PCI worker pool (`concurrency.py`) | permits, tokens, errors | call, paginate, run units | no deadlock between gates, caps hold, a failing unit is isolated |
| PCI scope (`scope/reachability.py`) | none | closure over permitted hops | reaches exactly what the hops allow |

How they interact.  Requests of several users interleave in one Node process at
the `await` of their body, together with the enforcer's timer; a compensating
control and the acceptances that cite it share the link table.  The collector
sees the tracker only through HTTP and works from files that outlive a run: the
stages of a run hand each other their results through the output directory, in
which the last run's files still lie.  Collector runs are operating-system
processes that share that directory, possibly from several hosts.

The hard behaviours are: a status read before an `await` and written after it;
two commits with a crash in between; a timer against requests; snapshots older
than the tracker's state; files torn by a crash; processes that race on the lock
file; a list that was cut short or refused and reads as empty; a document made
from what a later stage rewrites, or from an earlier run's; a call whose answer
is lost.  `hazards` in `PROJECT.json` gives each at its line, with the properties
that would catch it.

## 2. Modules

```
Rbac --+-- TrackerServer --+-- CompensatingControls --+
       |                   |                          +-- RiskGovernance --- PoamRisk
       |    Lifecycle . . .+-- RiskAcceptance --------+
       |                   +-- OrganisationalRisks
       +-- TrackerAccounts
TrackerItems      Delivery      RunLock      PoamLedger

Findings --+-- Collector . . . . . . . . . . . . . . . . . MCEvidence
           +-- Aws/Gcp/Azure ... (12) --- EvidenceRules . . . .+
Emitters --+-- EvidenceRun
           +-- MCPoamRisk
```

Eight modules hold the proofs: `WorkflowProofs` those about `TrackerServer`,
`CompensatingControls`, `RiskAcceptance` and `OrganisationalRisks`,
`RiskGovernanceProofs` those about `RiskGovernance` and `PoamRisk`, `RunProofs`
those about `RunLock` and `Delivery` (what begins and what ends a run), and
`PoamLedgerProofs`, `EvidenceRunProofs`, `CollectorProofs`,
`TrackerAccountsProofs` and `TrackerItemsProofs` those about the module each is
named after.

**`Rbac`**: the permission table, restricted to the workflows' permissions.

**`Lifecycle`**: an abstract specification: every item starts in one status and
moves along a set of edges only.  The three workflow modules are shown to implement
it (`INSTANCE ... WITH st <- ` the status column), with the edges of their code.

**`TrackerServer`**: what the workflow routes share.  `req` holds the requests
suspended at the `await` of their body with what they read before it; `audit` the
audit rows per item; `up` whether the process runs.  A handler that reads the
database before its `await` is two actions (`Begin...`, `Finish...`); one that
reads it only afterwards, or reads no body, is one.  `AuditOrCrash` is the second
commit: the audit row is written, or the process dies first and all requests are
lost.

**`CompensatingControls`**: variable `controls`, one row per uuid.
`CreateControl` is POST, `BeginUpdate`/`FinishUpdate` PUT, `Activate` POST
activate, `BeginRetire`/`FinishRetire` POST retire.  An Ed25519 signature is the
payload it was made over, so that verification compares payloads.  A valid body
is a member of `Contents`.  The link check of retire takes the set of cited
controls as a parameter: alone, the module lets it be any set; `RiskGovernance`
supplies the real one.

**`RiskAcceptance`**: variables `accs` and `now` (in days).  `Create`, `Approve`,
`BeginRevoke`/`FinishRevoke` and `Expire` are the routes; `Sweep` is the timer,
`Boot` the sweep at start, `SweepCrash` a death inside either, with some rows
done and at most one expired but not audited.  `links` is the link table (a
set), `signed` the list that was signed (with repetitions).  A date has a
spelling (`form`), because SQL compares the text.  What no property reads, such
as the acceptance type once it is validated, is left out of the row.

**`OrganisationalRisks`**: `risks` is the table; `CreateRisk` is POST,
`BeginEdit`/`FinishEdit` PUT, `BeginClose`/`FinishClose` POST close.  `orgFile` is
the collector's snapshot and `register` the organisational entries of its risk
register, both functions from some risks to what `serialize()` shows of them;
`PullRisks` takes one page of the worst risks (`Pages`, `Inherent`) or fails,
`EmitRegister` copies the snapshot, `RunDies` leaves either file torn.

**`RiskGovernance`** composes the two in one process: `Cited` is
`activeLinkedAcceptances`.

**`PoamRisk`** adds the collector: `Begin`, `PullAcceptances`, `PullControls`,
`Emit` are the steps of one run, `Die` its death, also in the middle of a snapshot
file.  Either pull may fail, and the run goes on with the file of an earlier run.
`Page` is the page of rows the tracker returns, the approved ones with fewer than
`PageSize` newer approved rows (`Newer`); `InForce` and `Resolves` are the
filters the emitter applies to what it reads from the files.

**`RunLock`**: `pc` is where each run is in `acquireRunLock` and `release`, one
step per file-system call; `lock` is the file (absent, torn, or the run it
names); `alive` the pids that answer a probe; `old` the owners past the TTL.
`Truncate`/`Write` are the two halves of `writeFileSync`, and a run that writes
to a file unlinked meanwhile is an `orphan`.  `pace` is chosen at the start:
"calm" when no run starts while another acquires and none outlives the TTL,
"any" otherwise.

**`PoamLedger`**: `ledger`, `archive`, `report` are the files, `run` the monthly
run in progress; `WriteDelta`, `WriteArchive`, `AppendLedger` its writes in the
order of the code, `Crash` a death between or inside them.  A document is what
its bytes depend on (run id, month, revisions), so equal hashes are equal
documents.

**`Findings`, `Collector`, `EvidenceRules`** and the twelve modules of the
providers: the evidence collectors.  `Findings` has the ways a quantity is read
(`Whole`, `Scan`, `Page`, `Skim`, `Bare`, `Peek`, `Each`, `Part`, `Last`: caught or not,
read to the last page or not, keeping what came before an error or not, a list or a
detail of its items) and what `finding()` does with a verdict, among it the exception for a failing finding that names no resource.
Each provider module gives, per collector function, the record of its reads, and
one operator per finding with its gate and its verdict; `EvidenceRules` gathers
all 302.  `Collector` is the behaviour of one finding: the cloud is fixed but
unknown (`truth`), each read holds `n` of it, may fail, end before the last page or
throw; then `Conclude` computes the finding from what is held and `RollUp` the KSI.
Four tables list by name the findings of which the properties below are not so:
`UngatedFindings` pass on a read that failed, `OverlookingFindings` when the offender
is on a page that is not read, `MissingFindings` fail when what they look for is on
such a page, `NamelessFindings` fail without naming a resource.  Names, severities,
wording and remediation are data.

**`Emitters`, `EvidenceRun`**: a run of the orchestrator over the output directory.
`Emitters` has one record per emitter: the documents it reads, those whose SHA-256
it quotes, those without which it throws, and those it writes in that order; a
document that is amended is left alone when it is absent, one that is merged is
then created.  Each reader of the code has an operator (`PlanSubjects`, `CmpDigest`,
`TestedIscp`, ...).  `Results` are the results in memory, which the process evidence and
the run's summary are made of.  It also has the table of the 56 stages in the order of
`main()`, the exceptions to that order by name, and what is so of the table
(`OrderIsSound`).  `EvidenceRun` runs the stages.
`made` is the run that last wrote a document; `behind` the pairs of a document of
this run and an input rewritten since; `mixed` those of a document of this run and
an input of an earlier one; `listed` and `intact` what the manifest lists and
what of it has not changed since; `invalid` a file that fails its schema (of this run:
where it was written, moved away or stuck there; or kept from an earlier run), and
`fouled` the documents made from this run's.  `MoveInvalid` is the quarantine, with its
four ends: the file is moved, or cannot be and stays, or is moved and the list of
what was moved cannot be written, which ends the run, or `--strict-schema` ends it.
`Emit` is a stage that does its work, `Spare`
one that does it and has nothing to write in one of its documents (a POA&M
without a failed finding, a privacy assessment that is not called for, a timestamp
that is not granted: `spares` in `Emitters`), `Leave` one the flags do not ask for,
`Lack` one that throws for want of an input, `Fail` one that throws after some of
its files, `Abort` one that is not caught, `Crash` a process that is killed or stops
before the collection, `Start` the next run in the same directory.

**`TrackerAccounts`**: users, sessions, second factors.  `Signup`, `Login`, `Logout`,
`Enroll` are one step; `AskRole`, `AskFactor`, `AskVerify` suspend a request with the stage
its session had, and `ChangeRole`, `Complete`, `Disable`, `VerifyTotp`, `VerifyBackup` are
what happens when the body comes.  `Lapse` is the end of the five minutes for the
second factor.

**`TrackerItems`**: `state`, `audit`, `attached` are the tables, `disk` the blobs by
content.  `Ask`/`Patch` are the two halves of PATCH, one transaction with its audit
rows; a body leaves fields out or names a user that does not exist, and the API
token is such a user.  `Upload` and `Delete` are the attachment routes, `Ingest`
the re-ingestion of the catalogue, `Backup` and `Restore` those of `backup.ts`.

**`Delivery`**: what a run sends when its files are written.  `queue` holds the jobs
in the order of `main()`; one step is one HTTP call, with the outcomes of
`Outcomes` (answered, lost, not reached, late, busy, denied, garbled).  `Send` is
a call of a job with `withRetry`, `Search`, `Create` and `Touch` those of a ticket
for each of the three drivers, `Close` a person who closes a ticket.

`MC*.tla` give the constants that need a definition.  Operators named
`X_Variant`, next to an operator `X` (in the modules of the collectors and of
the run they have a name of their own, such as `SignOwn`), are wrong versions of it:
put in its place, they break the property they are listed with in `PROJECT.json`
(`mutants`), which shows that the property depends on that piece of code.

## 3. What is checked

Passing runs:

| run | properties | what it shows |
|---|---|---|
| `registries` | `SignatureCoversContent`, `ControlAuditNeverAhead`, `SignedOffContentFixed`, `ControlsFollowLifecycle`, `RiskAuditNeverAhead`, `ClosedEntriesStand`, `ClosedRiskFixed` | late edits, retirements and closures, crashes and restarts never break a signature, the audit, the AO's sign-off or a closure; what a register says of a closed risk stands, however old its snapshot |
| `acceptances` | `AcceptanceAuditNeverAhead`, `SeparationOfDuties`, `AcceptancesFollowLifecycle`, `PastDueIsSwept` | lifecycle, audit and separation of duties; an approved ISO-dated acceptance past due is eventually not approved |
| `poam` | `MitigationIsSignedContent`, `DeviationWasApproved`, `NoExpiredDeviation`, `MitigationKept` | whatever is cached, torn or half pulled, a POA&M states only signed-off content and approved, unexpired deviations; no control is retired under a live acceptance that links it.  Its module also has TLC evaluate `OrderIsSound`, which contains that the stage that pulls comes before the one that emits |
| `run_lock` | `MutualExclusion`, `OwnerIsNamed`, `NoStrandedLock` | without overlapping acquisitions and overlong runs, one run works at a time; with them too, a run that is retried gets to work |
| `poam_ledger` | `ChainOfCustody`, `FinishedMonthOpens` | the recorded revision chain is unbroken; a finished run leaves its month readable |
| `collectors` | `FailsForCause`, `FailsClosed`, `NamesWhatItFound`, `EveryKsiIsRolledUp` | of each of the 302 findings: one that passes although something was refused, or lies on a page that is not read, is in one of two tables, and one that fails an orderly cloud, though every call was answered, in a third; every KSI is rolled up |
| `evidence_run` | `CitationsHold`, `ReadsAreFinal`, `NothingOldByItself`, `OnlyLateFilesFail`, `NothingFromInvalid`, `SigningIsReached` | which document is made from what a later stage rewrites or an earlier run left; which files of a signed run fail verification; which documents a file that fails its schema gets into; and what keeps a run from its signature: those that are named, and no others |
| `accounts` | `AdminRemains`, `BackupCodeOnce`, `LateOnlyInFlight` | overlapping role changes leave an administrator; a backup code works once over re-enrolments; a session past its five minutes gets in only by a request let in before |
| `tracker_items` | `AuditTells`, `BlobsPresent` | over overlapping edits, roll-backs, re-ingestion and restores the audit rows of a field form one story that ends in its value; a listed attachment can be downloaded unless a restore brought it back |
| `delivery` | `SentMeansHeld`, `ErrorsAreFaults`, `OneTicketUnlessBlind`, `PushesEnd` | what is reported as sent was acted on; an error is a fault of the last attempts; a second ticket needs a search that failed; a run ends |

Runs that TLC finds violated, each a disagreement between the code and a
sentence of the repository (`findings`):

| run | property | what happens |
|---|---|---|
| `evidence_gate` | `GateReachesRollup` | a gate that closes after a refused list leaves no affected resource; `finding()` throws, the block is emptied, and the KSI passes |
| `push_items` | `PushReachesTracker` | the bearer of an API token is user 0, which `item_state.updated_by` cannot reference: every push of a KSI the tracker knows answers 500 |

Disagreements met while modelling that have no run.  In the workflows:

* `routes/risk-acceptance.ts:262` says only live acceptances are revoked; line 274
  updates by uuid only, after the `await`, so one that expired or was revoked
  meanwhile is revoked again.  The edge is part of `AccEdges`.
* `routes/compensating-controls.ts:316` refuses only what is already retired, so
  a draft is retired too, where lines 12 and 311 say active -> retired.  The
  edge is part of `CtlEdges`.
* `routes/compensating-controls.ts:287` writes the audit row `updated` and
  answers 200 also when the guarded UPDATE matched nothing (`FinishUpdate`).
* `routes/compensating-controls.ts:336`: two retirements that passed the check
  together both succeed; the second overwrites `retiredBy`.
* `routes/risk-acceptance.ts:138`: an acceptance may cite a control that is
  already retired, or does not exist; this is why `MitigationKept` speaks of the
  step that retires and not of every state.
* `risk-acceptance-sign.ts:143` signs a uuid that is listed twice twice, and the
  link table has it once: the rebuilt payload never verifies, and since every
  record must, the collector's pull of that page fails (`Verifies`).
* `risk-acceptance-reader.ts:137` names no limit and gets the newest 50 approved
  acceptances; `PageSize` stands for the 50.
* `risk-acceptance-enforcer.ts:30`: a crash between UPDATE and INSERT leaves an
  expiry without its audit row for good (`SweepCrash`); the audit is therefore
  shown never to be ahead of the rows, and not to be complete.
* `routes/risk-acceptance.ts:127`: `Date.parse` accepts dates in words, and the
  enforcer compares text: "March 1, 2027" sorts after every ISO instant and is
  never swept, "1 March 2027" sorts before and is swept at once (`SqlBefore`;
  `PastDueIsSwept` is about ISO dates).
* `routes/risk-register.ts:255`: two closures that passed the check together both
  succeed; the second overwrites `closedBy` and is audited as one more closure of
  an open risk.  An edit that finds the risk closed changes nothing, answers 200
  and leaves an audit row `updated` (line 251).
* `organisational-risk-reader.ts:99` names no limit, gets 100 rows
  (`routes/risk-register.ts:203`) and drops the total; `docs/slices/B/B.B5.md:27` says that
  the register "Lists EVERY risk affecting the system" (`Pages`, `RegisterPage`).
* The AO activates a control by uuid without saying which content was reviewed;
  an edit that lands between the review and the click is signed off.

In the lock, the ledger and the tracker's files:

* `run-lock.ts:68`: two runs that both find no file both take the lock, where line 2
  says one run at a time; hence the pace "calm" in `MutualExclusion`.
* `run-lock.ts:92`: between the ownership check and the unlink an aged lock may be
  stolen; the former owner then removes the thief's file (`Own`, `Unlink`).
* `poam-monthly.ts:438`: a month that is reported again and crashes between archive
  and ledger leaves a recorded hash that no file has, where line 368 says "all
  atomically per run".  `FinishedMonthOpens` is about the month of the last run to
  finish.
* `routes/attachments.ts:116` writes a blob only if there is no file of that name: one
  torn by a crash stays and is served for every later upload of that content.
  The row and its audit row are two commits.  An upload by an API token breaks
  the foreign key after its blob was written, and a failed unlink is not told:
  either leaves a blob without a row.
* `ingest.ts` says that the dashboard's total is 60 KSIs; `dashboard.ts` counts
  all indicators.

In a run's documents (the exceptions of `Emitters`, each a named set):

* The assessment results are emitted (`orchestrator.ts:2602`) before the plan (2777) they import
  (`oscal.ts:422`): a first run has a synthetic reference, a later one names the
  last run's plan as "emitted in the same orchestrator run" (`ReadEarly`).
* The package is indexed before the coverage, diff, snapshot, SCN and PR files of
  the run are written, so it carries the last run's (`IndexedEarly`); they and the
  timestamp are written after the manifest and make `verifyRun` fail (`Late`).
* `sign.ts:5` says that the files are not from a different run; old ones are
  signed too.  Only `.json`, `.xml`, `.pem`, `.md` and `.pdf` of the directory itself
  are, although `orchestrator.ts:2820` and 223 say that the RoE and the CMP are covered
  (`Unsigned`).
* The SSDF matrix checks this run's evidence against the last run's manifest and
  throws in every run after a signed one; the change detector, the AI supplement
  and the common form then use the old matrix (`FromStaleMatrix`).
* The change detector takes `ssdf-satisfaction-matrix.augmented.json` for one more matrix
  (`ssdf-material-change-detector.ts:70`), which `ssdf-common-form.ts:430` skips "so a product is
  not double-counted" (`TrackedEarly`).
* A stage that has nothing to write removes nothing: with no failed finding left the
  POA&M of an earlier run stays (`oscal-poam.ts:1076`), is read by the register, the
  monthly report and the SSDF forms and is packaged as this run's; so are an old
  privacy assessment, timestamp, augmented matrix and one-business-day ledger
  (`LeftBehind`).
* The risk strategy quotes the last run's register, acceptances, controls and
  POA&M (`QuotedEarly`); three plans quote KSI files that `--risk-score` then rewrites
  (`RequotedLate`).
* `orchestrator.ts:2261` says that no artifact of a run embeds, quotes or signs evidence
  that failed its schema.  A file whose rename fails (`invalid = "stuck"`), or that an
  earlier run left and whose KSI this one is not asked for (`"kept"`), stays, is used by
  every reader and is signed.  The signal evidence (line 1398) is made before the files are
  sifted, and the process evidence and the summary from the results in memory, which
  nothing sifts (`FromUnsifted`).
* The write of `INVALID-MANIFEST.json` (line 2280) is in no `try`, and the failure to make its
  directory is swallowed (2268): the run may end there, with the files moved away and
  nothing signed.  A signing failure is only logged.
* The pre-pass of the submission bundle runs with `strict: false`, so an interim
  tarball is in place when `--strict-bundle` then refuses.  The previous tarball
  and index are packed into the new one.  Summaries are written beside the
  directory that is listed, and two roles name subdirectories that are skipped, so
  none of them is ever bundled (`Packaged`).
* `buildVendorScreenPoamItems` (`oscal-poam.ts:679`) has no caller: matches of the vendor screen
  never become POA&M items.

In the pushes:

* `siem-push.ts:19` and `webhook-push.ts:30` say "retried up to 3 times"; an answer of 429
  or 5xx is not (`Siem`, `Webhook`).  ECONNREFUSED is not transient though the Paramify client
  names it.
* `paramify-push.ts:6` says that re-runs don't duplicate; the run id is new in every run.
* `ticket-push.ts:12` says reopen; Jira gets a comment only, and the answer to a reopening
  is not looked at (`Touch`).
* The key is searched for as text, so a finding whose key is a part of another's
  may be given that one's ticket (`Inside`).  The orchestrator's counts ignore the
  tickets that failed.

### Bounds, and why they are enough

* `registries`: one control and one risk, because rows do not interact, and one
  of the two in use at a time, because the tables do not either (`OneRegistry`, the
  constraint of the run); two bodies, so that an edit is visible; two request
  slots, so that any two of edit, edit, retire and close are suspended together;
  an ISSO, an AO and an administrator, which covers every set of permissions on
  the registry (the risks do without the administrator, who may do no more than
  the AO and the ISSO do with them).
  `MaxAudit` = 3 stops new edits after three audit rows, enough for create,
  edit, activate, with a late edit and a retirement still to come.  With one risk
  a page holds it; pages of any size are covered by the theorems.
* `acceptances`: one acceptance, two suspended revocations, all spellings,
  three days (`MaxTime` = 2) with expirations one or two days ahead, so dates
  before, at and after today occur, in each of the three orders that text may have.
* `poam`: one control and one acceptance that may cite it.  An administrator
  holds all permissions, so no step is ruled out; roles are checked in the runs
  above.  One suspended request, so a retirement waits while acceptances come and
  go; two bodies of the control, one of which expires; runs of the collector
  repeat without bound.  Any number of acceptances, controls and suspended
  requests, and any page size, is covered by the theorems of
  `RiskGovernanceProofs`, which state all of this run's properties.
* `run_lock`: two runs on one host and one on another, at both paces: the
  smallest system with a local owner, a remote owner and a bystander.
* `poam_ledger`: three months in any order and five runs: a chain of three, a
  repeated month and a crash at each write.  The last run ends the behaviour,
  hence `CHECK_DEADLOCK FALSE`; in the lock model all runs may be done or dead.
* `collectors`: clouds of at most five of anything (four, for the findings that look
  at three quantities, two for four to six, one for more), so that a list may be
  empty, whole or cut, an offender seen or unseen, and a ratio may turn with the
  second page.  Thresholds on a count are quantities of their own ("over twenty").
  One finding ends the behaviour.  Clouds of any size are covered by the theorems;
  those of the findings with more than six quantities rest on them.  A page that is not
  the last one holds something; a call about one item is answered in one piece.
* `evidence_run`: two runs, since what a run finds in the directory is either
  of this run or of an earlier one; one gap per run (`MaxGaps`: a crash, a stage
  left out, one that throws or one that has nothing to write), in each of the two,
  at every stage.
* `accounts`: two accounts, two tokens, three suspended requests: two
  administrators that demote each other while a verification waits; two
  enrolments, one code each.
* `tracker_items`: one item, a member, an administrator and the token; four
  bodies, among them one that leaves the owner out, one that clears it and one
  that names no user; two requests; two attachments of one content, so that a
  blob is shared; one crash or restore.
* `delivery`: two findings, the key of one a part of the other's, so that a search
  matches the wrong ticket; two runs, three faults (one more than a retry
  forgives), each of the three drivers.

### Fairness

* `AccFairSpec`: weak fairness of `Sweep` (the interval timer fires while the
  process runs) and of `Boot` (the container's restart policy).  A server that crashes
  for ever before its first sweep would need nothing more than this: the sweep
  at start is the first thing a start does.  No request is assumed to come.
* `FairSpec` of `RunLock`: a process in `acquireRunLock` is scheduled, a refused
  run is tried again by its scheduler, and time passes (`Age`).  Nothing is
  assumed of `Release`: a run may hang for ever, and the TTL frees the lock.
* `FairSpec` of `Collector`: the process runs; each read ends, in an answer or an
  error.  `Spec` of `EvidenceRun`: the same of the stages (`Work`); neither a crash nor
  a next run is assumed.
* `DeliverySpec`: the collector goes on with what it has begun; each call ends, at
  the latest in its timeout.  People close tickets or not.

## 4. What is proved

The theorems hold for every value of the constants, from the assumptions named in
the modules.  Type correctness is proved of every stateful module: it is the first part
of each invariant below, and no run repeats it by itself.

`WorkflowProofs`.  `CompensatingControls`, for any users, roles, controls, bodies, requests
and audit bound, from `UsersAssumption` and `ControlsAssumption` only:

* `CtlTypeCorrect`, `ControlsVerify`, `ControlAuditSound`: `CtlTypeOK`,
  `SignatureCoversContent` and `ControlAuditNeverAhead` are invariants;
* `SignOffFinal`: `SignedOffContentFixed` holds of every step;
* `ControlsImplementLifecycle`: the registry implements `Lifecycle` under the
  mapping of the status column (`ControlsFollowLifecycle`).

They follow from `CtlInductive`.  None of the properties is inductive alone: a
suspended PUT re-signs with the implementer it read before its `await`, so the
signature is right only if that is still the row's implementer
(`InFlightProvenance`: a suspended request's row exists and has the implementer
that was read); and a fresh row is clean only if an absent one has no audit rows
that claim a transition (`AbsentIsClean`).  One lemma per action, then the step.
What the shared steps (audit or crash, suspend, answer) do to the request table
and the audit log is stated once, at the head of the module.

`RiskAcceptance`, for any users, acceptances, controls, requests and time
limits, from `UsersAssumption` and `AcceptancesAssumption` only:

* `AccTypeCorrect`, `AcceptanceAuditSound`, `ApprovalIsASecondPersons`:
  `AccTypeOK`, `AcceptanceAuditNeverAhead` and `SeparationOfDuties` are invariants;
* `ClosedStaysClosed`: `NoReactivation` holds of every step;
* `AcceptancesImplementLifecycle`: the workflow implements `Lifecycle`.

The invariant `AccIInv` adds that a suspended revocation names a stored row
(`RevocationNamesStored`; otherwise the late UPDATE could bring an absent row
into being), that a waiting row has no approver (`UnapprovedIsClean`; otherwise
an approval could replace another) and that creators and approvers held the
permission they needed (`CreatorMay`, `ApproverMay`).  Every action is first
shown to be an instance of `StepShape` (each row stays, is created, approved,
expired or revoked, and the audit log gains what the row then shows); the
invariant and the two step properties are proved of that shape.

`OrganisationalRisks`, for any users, risks, assessments, requests and page size,
from `UsersAssumption` and `RisksAssumption`:

* `RiskTypeCorrect`, `RiskAuditSound`, `RegisterStands`: `RiskTypeOK`,
  `RiskAuditNeverAhead` and `ClosedEntriesStand` are invariants;
* `ClosureFinal`: `ClosedRiskFixed` holds of every step;
* `RisksImplementLifecycle`: the routes implement `Lifecycle` (`RisksFollowLifecycle`).

The register is a copy of a snapshot, so the invariant `RiskIInv` says of both
files what the property says of one (`Stands`).  That a file of any age stands
needs what a row may do between two pulls (`RiskRowStep`: be stored open, be
assessed again while open, be closed as it is), which is first shown of every
handler; for that a suspended request must be about a stored risk
(`InFlightRisks`), or a late closure would bring an absent row into being.

`RiskGovernanceProofs`, with `GovernanceAssumption`, for the composition:

* `GovInductive`: both invariants hold when the workflows share the process.
  Each workflow stays within its own items (`ControlsStayWithin`, `StaysWithin`),
  so neither can break the other's audit trail or suspended requests;
* `MitigationsOutliveAcceptances`: `MitigationKept` holds of every step.

and, with `PoamAssumption`, for the collector on top of it (`PoamSpec`):

* `PoamTypeCorrect`, `MitigationsAreSigned`, `DeviationsWereApproved`: `PoamTypeOK`,
  `MitigationIsSignedContent` and `DeviationWasApproved` are invariants;
* `ExpiredIsNotEmitted`: `NoExpiredDeviation` holds of every step.

`PoamIInv` says of the two snapshot files what the properties say of the POA&M
(`AccFileSound`, `CtlFileSound`, `PoamSound`).  A snapshot can be of any age, so this
needs facts the tracker never takes back (`TrackerKeepsFacts`): a control that left
draft is frozen (`ControlStepShape`, also behind `SignOffFinal`), and an approved
acceptance keeps its approver, its links and its date through expiry and
revocation.  A fact may enter a file only because a control in force was signed off
and an approved acceptance names its approver (`SignedWhenActive`, `NamedWhenApproved`).

`RunProofs`.  `RunLock`, for any set of runs and hosts, from `FileAssumption`:

* `LockInductive`, from which `RunsExclude` and `LockNamesOwner`: `MutualExclusion` and
  `OwnerIsNamed`, which speak of calm runs.

The invariant `LockIInv` says where a lock can be lost: at most one run acquires
(`OneAcquires`), a run that works answers its probe and is not old
(`LiveRunsAnswer`), whoever judges has read the worker (`JudgesTheWorker`), and
claims or writes only when nobody works (`ClaimsFreely`, `WritesItsOwn`).

`Delivery`, for any findings, keys that are parts of each other, runs and number
of faults, from `DeliveryAssumption`:

* `DeliveryInductive`, from which `ReportsAreTrue`, `ErrorsHaveCauses` and
  `TicketsAreNotDoubled`: `SentMeansHeld`, `ErrorsAreFaults`, `OneTicketUnlessBlind`.

`DeliveryIInv` adds that a run which begins, after one that died too, has nothing
under way (`BeginsWithSearch`), that what is commented on or reopened is a match
of the key (`PursuesAMatch`: tickets keep their keys), and that a ticket is about
to be created only for a key that has none or whose search failed
(`CreatesOnlyNew`: nobody but this process creates tickets).

`PoamLedgerProofs`, for any months and any number of runs, from `MonthsAssumption`:

* `LedgerTypeCorrect`, `ChainIsUnbroken`, `RevisionsIncrease`, `FinishedIsReadable`: `LedgerTypeOK`,
  `ChainOfCustody`, `ChainIncreases` (no document lists itself, a later month or a
  month twice) and `FinishedMonthOpens` are invariants.

The revisions of a run in progress are computed long before its line is appended;
they continue the chain because nobody else appends meanwhile (`StillContinues`) and
run ids are never given again (`RunsAreNew`).  `WrittenSoFar` is what a run has
on the disk at each stage, so that the line of a finished run is the last of its
month and its archive is the document.  `Best` is a CHOOSE: that a most recent
line exists (`MostRecentExists`) takes a line with the fewest lines after it, the
sets of lines being finite; that lines appended later leave what the lines before
them continue as it was is `ContinuationKept`.

`EvidenceRunProofs`, for any number of runs in one directory and of stages left
out, failures, deaths and crashes in each:

* `CitationsAreCurrent`, `ReadsAreCurrent`, `RunsAreSelfContained`, `SignatureCovers`,
  `InvalidIsSifted`: `CitationsHold`, `ReadsAreFinal`, `NothingOldByItself`, `OnlyLateFilesFail`
  and `NothingFromInvalid` are invariants.

They have one hypothesis, `OrderIsSound`, about the order of the 56 stages in the
program, which is not a parameter but a fixed table.  Evaluating it takes TLC a
second, and the provers some forty lines of proof for each stage; TLC does it in the
run `poam`, as the assumption `OrderAssumption` of `MCPoamRisk`, which needs a part of it,
that the acceptances and controls are pulled before the POA&M is written.  It is no
assumption of `EvidenceRun`, where a wrong order is to be seen in what the runs do.
`OrderIsSound` is about the table alone, `EvidenceIInv`
about what runs make of it, and none of its parts is implied by the table: evidence
that fails its schema is sifted or stuck behind its stage, and unless it is stuck only
`FromUnsifted` is made of it (`SiftedFirst`); behind the collection the evidence is the run's own and not what
the last manifest lists (`CollectedFirst`), which is why the check of the SSDF
matrix fails after a signed run; a fresh manifest leaves only late files out
(`SignedAtTheEnd`); a run without gaps has all behind it that its stages always
write (`NothingIsMissing`), and what is made from the matrix is there only with it
(`DerivedNeedsMatrix`).  Every stage, however it ends, is an instance of
`StageStep`, and the invariant is proved of that shape; one that has nothing to
write (`SpareStep`) is such a step too, without the claim that all it always
writes is there, which is why `Always` and `Settled` leave those documents out.

`CollectorProofs`, for clouds of any size, from `MostAssumption`.  For any findings,
whatever they compute:

* `CollectorType`: what is held of a quantity is a part of what there is;

Its invariant adds that, as long as nothing failed or was cut, everything held is
complete (`Complete`), which the details of a list need of the list, and that the
outcome is the verdict on what is held (`Verdicts`); the three theorems below need both.

For the 302 findings of the providers, that is, when the constants are the
providers' verdicts and the four tables of `EvidenceRules` (`OfTheProviders`, which is
how `MCEvidence` defines them):

* `FindingsFailClosed`, `FailingsHaveCause`, `FailuresAreNamed`: `FailsClosed`, `FailsForCause` and
  `NamesWhatItFound` are invariants.

None follows from the gates alone: a verdict is a formula over what is held, and
whether it can pass, or fail, on less than there is depends on the formula.  So every
finding has a promise (`KeepsPromise`): from a view that is a part of the cloud, with
what was refused, cut or not, it does not pass unless the cloud's verdict does or a
table names it, and, with nothing refused, does not fail unless the cloud's verdict
does or the table of those that miss names it.  One lemma per module (`AwsIdentityKeepsPromises`, ..., one case per finding in
each) shows the promise as arithmetic on the reads of the finding; the inductive
invariant `RInv` says what each way of reading leaves (a whole list is all or nothing, a
page is less only when cut, a detail is a part of its list), and
`HonestInvariant` puts the two together.  The attempts found entries missing from the
tables that the bounds of the run do not reach: ratios that turn only from the third
item on (`FindingsTriaged`, `FindingsImproving`), and findings of `AwsPlatform` over eight
and nine quantities.

`TrackerAccountsProofs`, for any accounts, sessions, requests and codes:

* `AnAdminRemains`, `CodesAreSingleUse`, `LateSessionsStayOut`: `AdminRemains`, `BackupCodeOnce`,
  `LateOnlyInFlight`.  A code is single-use because a code that was accepted is
  either recorded as spent or belongs to an enrolment whose secret is stored no
  more and whose number is never given again.

`TrackerItemsProofs`, for any items, users, bodies, contents and requests:

* `AuditIsComplete`, `AttachmentsHaveBlobs`: `AuditTells` and `BlobsPresent`.  The backup must
  tell its own story (`SavedWell`), and its rows must be the rows numbered up to
  its serial (`Numbered`), for a restore to keep either.

Only model-checked: `OrderIsSound`, a closed formula about a table of 56 stages that TLC
evaluates whole; the runs that are violated; and liveness
(`PastDueIsSwept`, `NoStrandedLock`, `EveryKsiIsRolledUp`, `SigningIsReached`, `PushesEnd`), which needs
fairness and ENABLED, out of the proof system's reach.

## 5. What is not modelled

Formatting and rendering (DOCX, XLSX, PDF, HTML, OSCAL shape), logging, HTTP
plumbing, cryptography (a signature is its payload), the wording, severity and
remediation of findings, and the listing of assets.  The parts listed as
`not_modelled` in `PROJECT.json` are pure functions and I/O without state, or
belong to the separate exporters.

In the modelled parts:

* users, their roles and sessions do not change while a workflow runs
  (`TrackerAccounts` is not composed with the workflows); the clock of tracker and
  collector is one clock in whole days; more than one page of *controls* is not
  modelled; SQLite loses nothing that it committed;
* of the organisational risks, the tracker's own register view and its workbook,
  the validation of a body and what the register adds to an entry are left out,
  as are the entries it makes of findings and acceptances; risks as bad as one
  another come in any order, where the code has the newer first;
* a collector's cloud does not change while it is read, and the findings of one
  KSI are taken one at a time: which of several failing findings makes a block
  throw does not matter to its rollup;
* one file of a run fails its schema at most, and a document is fouled by it when
  its own stage reads it: what is made from such a document in turn is not tracked;
* `Emitters` takes the documents of one emitter for one where nothing tells them
  apart (all KSI files are "ksi"); the refusals of `--strict-bundle` and `--strict-chain`
  are stages left out; that the package lists its own predecessor is not tracked;
* `Restore` is one step: the order in which the database, its log and the
  restored file are removed and renamed, and what SQLite recovers after a crash
  in between, are not modelled; audit rows of attachments are not either;
* a "late" call is acted on within its job, not after the next run's search;
* the adaptive limiter and the AWS fan-out, which delay or repeat reads but decide nothing.

## 6. Order of work

In this order the modules were written and depend on each other: Rbac,
TrackerServer, CompensatingControls, RiskAcceptance, RiskGovernance, PoamRisk,
OrganisationalRisks, RunLock, PoamLedger; Findings, Collector, the provider modules and
EvidenceRules; Emitters and EvidenceRun; TrackerAccounts, TrackerItems, Delivery.

What would come next: `TrackerAccounts` composed with the workflows, so that roles
change while requests wait; the worker pool of the PCI generator.
