------------------------------ MODULE Emitters ------------------------------
(* What each stage of a run of the orchestrator reads in the output           *)
(* directory, whose bytes it quotes by their SHA-256, which files it cannot   *)
(* do without, and which it writes, in that order; one it only amends it      *)
(* leaves alone when it is not there, one it merges into it then starts anew. *)
(* Some have nothing to say in some runs: the documents they then spare stay  *)
(* as they are.  Then the table of the stages in the order of main(), and     *)
(* what that order is good for.                                               *)
(* A document is one file, or the files one emitter writes together; "ksi" is *)
(* the evidence of the collectors, "proc" that of the process requirements.   *)
EXTENDS Naturals, SequencesExt

E(reads, cites, needs, writes) ==
  [reads |-> reads \cup needs, cites |-> cites, needs |-> needs,
   writes |-> writes, amends |-> {}, starts |-> {}, spares |-> {}]
Reads(reads, writes) == E(reads, {}, {}, writes)
Amending(e, d) == [e EXCEPT !.writes = Append(@, d), !.amends = {d}]
Merging(e, d)  == [Amending(e, d) EXCEPT !.starts = {d}]
Sparing(e, D)  == [e EXCEPT !.spares = D]
-----------------------------------------------------------------------------
(* The evidence a reader of the directory finds. *)
Evidence == {"ksi", "proc", "refarch", "pva"}
KsiFiles == {"ksi", "proc", "pva"}
(* What the run holds in memory of the evidence it has written.  It is no     *)
(* file: nothing takes invalid evidence out of it.                            *)
Results == {"results"}

Collected     == Reads({}, <<"ksi">>)
SignalFiles   == Reads({"ksi"}, <<"proc">>)
ProcessFiles  == Reads(Results, <<"proc">>)
RefArchAudits == Reads({}, <<"refarch">>)
PvaEvidence   == Reads({"ksi", "proc", "summary"}, <<"pva">>)
CsxSum        == Reads(KsiFiles, <<"csx">>)
Benchmark     == Reads(Evidence, <<"benchmark">>)
(* The results as they are in memory, those of invalid evidence among them,   *)
(* and the totals of the benchmark over the directory.                        *)
ControlTotals == Evidence
RunSummary    == Reads(Results \cup ControlTotals, <<"summary">>)
FamilyRollup  == Reads(Evidence, <<"rollup">>)
InventoryContext == Evidence
Inventory     == Amending(Reads(InventoryContext, <<"inventory", "invcov", "invdiff">>),
                          "summary")
Anomalies     == Reads(Evidence, <<"anomaly">>)
SbomReport    == Reads({}, <<"sbom">>)
PowerpipeMod  == Reads({}, <<"powerpipe">>)
CrosswalkReport == Reads(KsiFiles, <<"crosswalk">>)
-----------------------------------------------------------------------------
(* The authorization package. *)
ResultsEvidence   == KsiFiles
AssessmentResults == Reads(ResultsEvidence \cup {"ap"}, <<"ar">>)
Subprocessors     == Reads({}, <<"subproc">>)
SupplyChainRisk   == Reads({"sbom", "subproc"}, <<"supply">>)
SspSubprocessors  == {"subproc"}
Ssp      == Reads(Evidence \cup SspSubprocessors \cup {"supply"}, <<"ssp", "sspdocx">>)

PlanSubjects   == {"inventory"}
AssessmentPlan == Reads(PlanSubjects, <<"ap">>)
RoeTargets     == {"inventory"}
Roe            == Reads(RoeTargets, <<"roe">>)
BaselineRows   == {"inventory"}
Baseline       == E(BaselineRows, BaselineRows, {}, <<"baseline">>)
CmpComponents  == {"inventory"}
CmpDigest      == {"inventory"}
Cmp            == E(CmpComponents \cup {"baseline"}, CmpDigest, {}, <<"cmp">>)

IscpTests == {"ksi"}                      \* KSI-RPL-*: backup and restore tests
Iscp == E(IscpTests \cup {"subproc", "ssp", "inventory"},
          IscpTests \cup {"inventory"}, {}, <<"iscp">>)
TestedIscp     == {"iscp"}
IscpTestReport == E(TestedIscp, TestedIscp, {}, <<"iscpaar">>)

IrpDetections == {"ksi"}                  \* KSI-INR-RIR
Irp == E(IrpDetections \cup {"subproc", "ssp"}, IrpDetections, {}, <<"irp">>)
TestedIrp     == {"irp"}
IrpTestReport == E(TestedIrp, TestedIrp, {}, <<"irpaar">>)

(* The assessment is written only when the threshold analysis calls for it.   *)
PrivacyInventory == {"inventory"}
Privacy == Sparing(E(PrivacyInventory, PrivacyInventory, {}, <<"pta", "pia">>), {"pia"})
SspReference == {"ssp"}
Fips199 == E(SspReference, SspReference, {}, <<"fips199">>)

Scanners == {"ksi"}                       \* KSI-AFR-VDR
ConmonStrategy == E(Scanners \cup {"ssp"}, Scanners \cup {"ssp"}, {}, <<"strategy">>)

RmsRegister   == {"register"}
RmsAcceptance == {"acceptances", "controls"}
RmsPoam       == {"poam"}
Rms == LET cited == RmsRegister \cup RmsAcceptance \cup RmsPoam \cup {"ssp"}
       IN  E(cited \cup {"strategy"}, cited, {}, <<"rms">>)
-----------------------------------------------------------------------------
(* Risk: the scores are written back into the KSI files themselves. *)
RiskScores   == Reads(KsiFiles \cup {"inventory"}, <<"ksi", "proc", "pva", "scores">>)
AcceptancePull == Reads({}, <<"acceptances">>)
ControlPull    == Reads({}, <<"controls">>)
OrganisationalPull == Reads({}, <<"orgrisks">>)
PoamEvidence    == KsiFiles
PoamSupplyChain == {"supply"}
(* Where nothing fails there is no POA&M to write, and none is removed.       *)
Poam            == Sparing(Reads(PoamEvidence \cup PoamSupplyChain \cup {"acceptances", "controls"},
                                 <<"poam">>), {"poam"})
RegisteredRisks == {"poam"}
RiskRegister    == Reads(RegisteredRisks \cup {"acceptances", "controls", "orgrisks"},
                         <<"register">>)
-----------------------------------------------------------------------------
(* Procurement: Section 889 and the SSDF attestation.  Each adds its part to  *)
(* the coverage report of the inventory.                                      *)
VendorCatalog  == Amending(Reads({}, <<"catalog">>), "invcov")
ScreenedAssets == {"inventory"}
VendorScreen   == Amending(E(ScreenedAssets \cup {"subproc"}, ScreenedAssets \cup {"catalog"},
                             {"catalog"}, <<"screen">>), "invcov")
(* Nothing is reported where the screening matched nothing. *)
OneBusinessDay == Sparing(Amending(E({}, {"screen"}, {"screen"}, <<"onebd">>), "invcov"),
                          {"onebd", "invcov"})
LinkedIncidents == {"onebd"}
AnnualRep == Amending(E(LinkedIncidents, {"screen"}, {"screen"}, <<"annualrep">>), "invcov")
ConmonEnvelopes == KsiFiles
ConmonReport == Reads(ConmonEnvelopes \cup {"poam", "inventory", "diff", "scn"}, <<"conmon">>)
(* Every KSI file whose name is in the signed manifest must still have the    *)
(* digest recorded there; the registers are quoted unverified.                *)
SsdfEnvelopes  == KsiFiles
SsdfManifest   == {"manifest"}
SsdfRegisters  == {"scores", "subproc", "supply", "sbom", "poam"}
SsdfMatrix == LET cited == SsdfEnvelopes \cup SsdfRegisters
              IN  Amending(E(cited \cup SsdfManifest, cited, {}, <<"matrix">>), "invcov")
(* The augmented matrix has the name of a matrix: the change detector takes   *)
(* it for one more, the common form skips it.                                 *)
TrackedMatrices == {"matrix", "ssdfai"}
ProductMatrices == {"matrix"}
CannotComply    == {"poam"}
SsdfChanges == Merging(E(TrackedMatrices, TrackedMatrices, {"matrix"}, <<"changes">>), "invcov")
(* Nothing is augmented where no product in scope has a model card. *)
SsdfAi      == Sparing(Amending(E({}, {"matrix"}, {"matrix"}, <<"ssdfai">>), "invcov"),
                       {"ssdfai", "invcov"})
CommonForm  == Merging(E(CannotComply, CannotComply \cup ProductMatrices, ProductMatrices,
                         <<"form">>), "invcov")
-----------------------------------------------------------------------------
(* What is written once the manifest is signed. *)
Manifest    == Reads({}, <<"manifest">>)
(* Without an answer of the timestamp authority the last timestamp stays. *)
Timestamp   == Sparing(E({"manifest"}, {"manifest"}, {}, <<"tsr">>), {"tsr"})
IndexRead   == {"index"}
PlanRead    == {"ap"}
CoverLetter == E(IndexRead \cup PlanRead, IndexRead \cup PlanRead, {}, <<"cover">>)
Coverage    == Amending(Reads(Evidence \cup {"summary"}, <<"coverage">>), "summary")
DiffReport  == Reads(Evidence \cup {"snapshot"}, <<"diff">>)
Snapshot    == Reads(Evidence, <<"snapshot">>)
ScnReport   == Reads({"diff", "invdiff"}, <<"scn">>)
LlmPrs      == Reads(KsiFiles, <<"prs">>)
-----------------------------------------------------------------------------
(* The package: every file in the directory itself, whatever wrote it, its    *)
(* subdirectories and what lies beside it left out.  Its index is built from  *)
(* the same listing, once more when the cover letter is to quote it.          *)
Packaged ==
  UNION {ToSet(e.writes) : e \in
    {Collected, SignalFiles, RefArchAudits, PvaEvidence, Benchmark, RunSummary, FamilyRollup,
     Inventory, Anomalies, SbomReport, CrosswalkReport, AssessmentResults, Subprocessors,
     SupplyChainRisk, Ssp, AssessmentPlan, Roe, Baseline, Cmp, Iscp, IscpTestReport, Irp,
     IrpTestReport, Privacy, Fips199, ConmonStrategy, Rms, RiskScores, AcceptancePull,
     ControlPull, OrganisationalPull, Poam, RiskRegister, VendorCatalog, VendorScreen,
     OneBusinessDay, AnnualRep, ConmonReport, SsdfMatrix, SsdfChanges, SsdfAi, CommonForm,
     Manifest, Timestamp, CoverLetter, Coverage, DiffReport, Snapshot, ScnReport, LlmPrs}}
Bundle == E(Packaged, Packaged, {}, <<"index", "bundle">>)
Index  == Bundle
-----------------------------------------------------------------------------
(* The stages, in the order of main().  A stage that is not caught ends the   *)
(* run when it throws.                                                        *)
Caught(e) == [does |-> "emit", emit |-> e, caught |-> TRUE]
Uncaught(e) == [Caught(e) EXCEPT !.caught = FALSE]
Special(does, e) == [Caught(e) EXCEPT !.does = does]

CollectKsis   == [Uncaught(Collected) EXCEPT !.does = "collect"]
Quarantine    == [Uncaught(Reads({}, <<>>)) EXCEPT !.does = "quarantine"]
EmitSignals   == Caught(SignalFiles)
EmitProcess   == Caught(ProcessFiles)
AuditRefArch  == Caught(RefArchAudits)
MetaEvidence  == <<Caught(PvaEvidence), Caught(CsxSum)>>
Summarise     == Uncaught(RunSummary)
Rollup        == Caught(FamilyRollup)
WriteBenchmark == Caught(Benchmark)
TakeInventory == Caught(Inventory)
DetectAnomalies == Caught(Anomalies)
ParseSboms    == Caught(SbomReport)
EmitPowerpipe == Caught(PowerpipeMod)
Crosswalk     == Caught(CrosswalkReport)
EmitResults   == Caught(AssessmentResults)
ListSubprocessors == Caught(Subprocessors)
RateSupplyChain == Caught(SupplyChainRisk)
WriteSsp      == Caught(Ssp)
WritePlan     == Caught(AssessmentPlan)
WriteRoe      == Caught(Roe)
WriteBaseline == Caught(Baseline)
WriteCmp      == Caught(Cmp)
WriteIscp     == Caught(Iscp)
ReportIscpTest == Caught(IscpTestReport)
WriteIrp      == Caught(Irp)
ReportIrpTest == Caught(IrpTestReport)
WritePrivacy  == Caught(Privacy)
Categorise    == Caught(Fips199)
WriteStrategy == Caught(ConmonStrategy)
WriteRms      == Caught(Rms)
ScoreRisks    == Caught(RiskScores)
PullAcceptances == Caught(AcceptancePull)
PullControls  == Caught(ControlPull)
WritePoamUncaught == Uncaught(Poam)
WritePoam     == Caught(Poam)
PullOrganisational == Caught(OrganisationalPull)
WriteRegister == Caught(RiskRegister)
FetchCatalog  == Caught(VendorCatalog)
ScreenVendors == Caught(VendorScreen)
ReportHits    == Caught(OneBusinessDay)
Represent     == Caught(AnnualRep)
ReportMonth   == Caught(ConmonReport)
MapPractices  == Special("verified", SsdfMatrix)
DetectChanges == Caught(SsdfChanges)
AugmentAi     == Caught(SsdfAi)
FillForm      == Caught(CommonForm)
SignManifest  == <<Special("sign", Manifest), Special("ifsigned", Timestamp)>>
WriteLetter   == <<Caught(Index), Caught(CoverLetter)>>
PackBundle    == Caught(Bundle)
CheckCoverage == Caught(Coverage)
CompareRuns   == <<Caught(DiffReport), Caught(Snapshot)>>
ClassifyChange == Caught(ScnReport)
DraftPrs      == Caught(LlmPrs)

EvidencingUnsifted == <<CollectKsis, EmitSignals, EmitProcess, AuditRefArch>> \o MetaEvidence \o <<Quarantine>>
Evidencing == <<CollectKsis, EmitSignals, EmitProcess, AuditRefArch, Quarantine>> \o MetaEvidence
Summing == <<Summarise, Rollup, WriteBenchmark, TakeInventory, DetectAnomalies,
             ParseSboms, EmitPowerpipe, Crosswalk>>
PackagingReportFirst ==
  <<EmitResults, ListSubprocessors, RateSupplyChain, WriteSsp, WritePlan, WriteRoe, WriteBaseline,
    WriteCmp, ReportIscpTest, WriteIscp, WriteIrp, ReportIrpTest, WritePrivacy, Categorise,
    WriteStrategy, WriteRms>>
Packaging == <<EmitResults, ListSubprocessors, RateSupplyChain, WriteSsp, WritePlan, WriteRoe,
               WriteBaseline, WriteCmp, WriteIscp, ReportIscpTest, WriteIrp, ReportIrpTest,
               WritePrivacy, Categorise, WriteStrategy, WriteRms>>
RiskingRegisterFirst ==
  <<ScoreRisks, PullAcceptances, PullControls, PullOrganisational, WriteRegister, WritePoam>>
Risking ==
  <<ScoreRisks, PullAcceptances, PullControls, WritePoam, PullOrganisational, WriteRegister>>
Procuring == <<FetchCatalog, ScreenVendors, ReportHits, Represent, ReportMonth,
               MapPractices, DetectChanges, AugmentAi, FillForm>>
Closing == SignManifest \o WriteLetter \o
           <<PackBundle, CheckCoverage>> \o CompareRuns \o <<ClassifyChange, DraftPrs>>
Stages == Evidencing \o Summing \o Packaging \o Risking \o Procuring \o Closing
-----------------------------------------------------------------------------
Docs == UNION {ToSet(Stages[k].emit.writes) : k \in DOMAIN Stages}
(* <<d, i>>: d, made by an earlier stage than k, reads what k writes. *)
ReadBefore ==
  [k \in DOMAIN Stages |->
     UNION {LET e == Stages[j].emit IN
            (ToSet(e.writes) \ e.amends) \X (e.reads \cap ToSet(Stages[k].emit.writes))
              : j \in 1..k - 1}]
(* <<d, i>>: d quotes the digest of i. *)
Quotes == UNION {(ToSet(e.writes) \ e.amends) \X e.cites : e \in {Stages[k].emit : k \in DOMAIN Stages}}
Unsigned == {"manifest", "powerpipe", "csx", "bundle", "sspdocx", "roe", "baseline", "cmp",
             "iscp", "iscpaar", "irp", "irpaar", "pta", "pia", "fips199", "strategy", "rms",
             "cover"}
(* Files of a signed extension in the directory itself. *)
Signable == Docs \ Unsigned
-----------------------------------------------------------------------------
(* What a document reads before this run writes it: the run before's, which   *)
(* it compares with; the plan the results name; the month's differences; the  *)
(* manifest the SSDF matrix verifies against; the registers the risk strategy *)
(* quotes; the summary the package lists.                                     *)
ComparesWithLast == {<<"pva", "summary">>, <<"diff", "snapshot">>}
ReadEarly   == {<<"ar", "ap">>, <<"conmon", "diff">>, <<"conmon", "scn">>, <<"cover", "index">>,
                <<"matrix", "manifest">>}
QuotedEarly == {"rms"} \X {"register", "acceptances", "controls", "poam"}
(* The package lists what is written after it as the run before left it, and  *)
(* the letter only when it is packed anew.                                    *)
IndexedEarly == {"index", "bundle"} \X
                {"coverage", "summary", "diff", "snapshot", "scn", "prs", "cover"}
(* The change detector takes last run's augmented matrix for a matrix. *)
TrackedEarly == {"changes", "invcov"} \X {"ssdfai"}
(* The plans that quote KSI files which --risk-score then rewrites. *)
RequotedLate == {"iscp", "irp", "strategy"} \X {"ksi"}

QuotedOutdated == RequotedLate \cup QuotedEarly \cup IndexedEarly \cup TrackedEarly
                    \cup {<<"cover", "index">>}
ReadOutdated == ComparesWithLast \cup ReadEarly \cup QuotedEarly \cup IndexedEarly \cup TrackedEarly

FromStaleMatrix == {"changes", "ssdfai", "form", "invcov", "index", "bundle"} \X {"matrix"}
(* What a stage leaves of an earlier run when it has nothing to write is read *)
(* and packaged as if it were of this one.                                    *)
LeftBehind ==
  ({"register", "rms", "conmon", "matrix", "form", "invcov"} \X {"poam"})
    \cup ({"annualrep", "invcov"} \X {"onebd"})
    \cup ({"index", "bundle"} \X {"poam", "pia", "tsr", "ssdfai", "onebd"})
OldByDesign == ReadOutdated \cup FromStaleMatrix \cup LeftBehind

(* What is written once the run is signed. *)
Late == {"tsr", "index", "coverage", "summary", "diff", "snapshot", "scn", "prs"}

(* The signature. *)
SignAt == CHOOSE k \in DOMAIN Stages : Stages[k].does = "sign"

Writes(k) == ToSet(Stages[k].emit.writes)

(* The stage that moves invalid evidence out of the way, and what is made     *)
(* from evidence that is not sifted: the signals are evaluated before it, and *)
(* the results in memory pass it by.                                          *)
SiftAt == CHOOSE k \in DOMAIN Stages : Stages[k].does = "quarantine"
FromUnsifted == {"proc", "summary"}

(* A stage of a run without gaps may throw only for want of the SSDF matrix,  *)
(* or as the matrix itself fails its check; what every other stage writes is  *)
(* of this run afterwards, unless it amends what is not there or has nothing  *)
(* to write.  What is made from the matrix alone is of no earlier run either  *)
(* once its stage is over.                                                    *)
Optional == {k \in DOMAIN Stages : Stages[k].does = "verified" \/ "matrix" \in Stages[k].emit.needs}
Derived == {"changes", "ssdfai", "form"}
Always(k) ==
  LET e == Stages[k].emit IN
  IF k \in Optional THEN {} ELSE (Writes(k) \ (e.amends \ e.starts)) \ e.spares
Settled(k) ==
  (IF k \in Optional THEN Writes(k) \cap Derived ELSE Writes(k)) \ Stages[k].emit.spares
AlwaysBefore(k) == UNION {Always(j) : j \in 1..k - 1}
SettledBefore(k) == UNION {Settled(j) : j \in 1..k - 1}
(* The matrix is not checked against the manifest of an earlier run. *)
Unverified(k) == IF Stages[k].does = "verified" THEN {"manifest"} ELSE {}
OldInputs(k) == (Stages[k].emit.reads \cap Docs) \ (SettledBefore(k) \cup Unverified(k))

StagesTyped ==
  /\ Stages \in Seq(ToSet(Stages))
  /\ {"ksi", "manifest", "matrix"} \cup Derived \subseteq Docs
  /\ \A k \in DOMAIN Stages : Stages[k].emit.writes \in Seq(Writes(k)) /\ Stages[k].caught \in BOOLEAN

(* The collection comes first and is not left out; then the sifting, with     *)
(* nothing before it made from the evidence but what is named above; the      *)
(* signature, which alone writes the manifest, with nothing but late files    *)
(* behind it and the check of the matrix before.                              *)
StagesInOrder ==
  /\ 1 \in DOMAIN Stages /\ SiftAt \in DOMAIN Stages /\ SignAt \in DOMAIN Stages
  /\ 1 < SiftAt /\ SiftAt < SignAt
  /\ \A k \in DOMAIN Stages :
       /\ Stages[k].does = "collect" <=> k = 1
       /\ Stages[k].does = "quarantine" <=> k = SiftAt
       /\ Stages[k].does = "sign" <=> k = SignAt
       /\ "manifest" \in Writes(k) <=> k = SignAt
       /\ Stages[k].does = "verified" => k < SignAt
       /\ Stages[k].does = "ifsigned" => k > SignAt
       /\ Stages[k].does \in {"emit", "collect", "quarantine", "sign", "ifsigned", "verified"}
       /\ k <= SiftAt /\ "ksi" \in Stages[k].emit.reads => Writes(k) \subseteq FromUnsifted
       /\ Stages[k].emit.reads \cap Results # {} => Writes(k) \subseteq FromUnsifted
       /\ k > SignAt => Writes(k) \cap Signable \subseteq Late
  /\ Stages[1].emit.writes = <<"ksi">> /\ Stages[1].emit.reads = {} /\ ~Stages[1].caught
  /\ Stages[SiftAt].emit.writes = <<>> /\ ~Stages[SiftAt].caught
  /\ Stages[SignAt].emit.writes = <<"manifest">> /\ Stages[SignAt].caught
  /\ \A k \in {1, SiftAt, SignAt} : LET e == Stages[k].emit
                                     IN  e.needs = {} /\ e.amends = {} /\ e.spares = {}

(* What is read before it is written is among the exceptions above; so is     *)
(* what a run without gaps may read of an earlier one.                        *)
EverBehind == UNION {ReadBefore[k] : k \in DOMAIN Stages}
ReadsInOrder ==
  /\ EverBehind \cap Quotes \subseteq QuotedOutdated
  /\ EverBehind \ (Docs \X KsiFiles) \subseteq ReadOutdated
  /\ \A k \in DOMAIN Stages :
       /\ Stages[k].emit.needs \subseteq AlwaysBefore(k) \cup {"matrix"}
       /\ Writes(k) \X OldInputs(k) \subseteq OldByDesign
       /\ Writes(k) \cap Derived # {} =>
            Stages[k].does = "emit" /\ "matrix" \in Stages[k].emit.needs /\ Stages[k].caught

(* The order of main() is sound, whatever the runs do: the evidence is sifted *)
(* before all but two documents are made of it; nothing but late files comes  *)
(* after the signature; a stage needs only what stages before it always       *)
(* write, and the SSDF matrix; and but for the exceptions above nothing is    *)
(* read before it is written, be it of this run or of an earlier one.         *)
OrderIsSound == StagesTyped /\ StagesInOrder /\ ReadsInOrder
=============================================================================
