---------------------------- MODULE EvidenceRun ----------------------------
(* One run of the evidence orchestrator after another in the same output      *)
(* directory: its stages in the order of the table of Emitters, each reading  *)
(* and writing the files it has there.  A stage may be left out by the flags  *)
(* or throw; most are caught and the run goes on with what the directory      *)
(* holds, be it from an earlier run.  The process may stop at any point.      *)
EXTENDS Emitters, FiniteSets

CONSTANTS MaxRuns,   \* runs
          MaxGaps    \* of a run: stages that do not do their work, or that have
                     \* nothing to write

ASSUME BoundsAssumption == MaxRuns \in Nat \ {0} /\ MaxGaps \in Nat

VARIABLES run,     \* the run
          at,      \* its next stage
          made,    \* of a document: the run that last wrote it, 0 if absent
          behind,  \* <<d, i>>: d of this run was made from an i rewritten since
          mixed,   \* <<d, i>>: d of this run was made from an i of an earlier one
          listed,  \* the documents in the manifest
          intact,  \* those of them not rewritten since
          invalid, \* a file that fails its schema: "none", or one of this run where
                   \* it was written, "fresh", moved away, "moved", or there as it
                   \* could not be, "stuck"; or one of an earlier run, "kept"
          fouled,  \* documents of this run made from its own invalid file
          gaps,    \* the run's stages that did not do their work
          spared,  \* those that had nothing to write
          status
vars == <<run, at, made, behind, mixed, listed, intact, invalid, fouled, gaps, spared, status>>
-----------------------------------------------------------------------------
Init ==
  /\ run = 1 /\ at = 1 /\ status = "running" /\ gaps = 0 /\ spared = 0
  /\ made = [d \in Docs |-> 0]
  /\ behind = {} /\ mixed = {} /\ listed = {} /\ intact = {}
  /\ invalid = "none" /\ fouled = {}

Present(d) == made[d] > 0
Fresh(d) == made[d] = run
Old(d) == Present(d) /\ ~Fresh(d)

(* Of the files e writes or amends, those of its first k that it does write. *)
Written(e, k) == {e.writes[j] : j \in {i \in 1..k : e.writes[i] \in e.amends \ e.starts
                                                   => Present(e.writes[i])}}

(* The stage reads the run's invalid file, where it lies or in memory. *)
UsesInvalid(e) ==
  \/ "ksi" \in e.reads /\ invalid \in {"fresh", "stuck"}
  \/ e.reads \cap Results # {} /\ invalid \in {"fresh", "stuck", "moved"}

(* The documents of W are written by one that reads what e reads; one that is *)
(* rewritten or amended keeps what it was made from.                          *)
Put(e, W) ==
  LET new == W \ (e.reads \cup e.amends)
      Kept(pairs) == {p \in pairs : p[1] \notin new}
  IN
  /\ made' = [d \in Docs |-> IF d \in W THEN run ELSE made[d]]
  /\ behind' = Kept(behind) \cup
               {p \in ReadBefore[at] : Fresh(p[1]) /\ p[1] \notin W /\ p[2] \in W}
  /\ mixed' = Kept(mixed) \cup (W \X {i \in (e.reads \cap Docs) \ W : Old(i)})
  /\ fouled' = (fouled \ new) \cup {d \in W : UsesInvalid(e)}

Write(e, W) == Put(e, W) /\ intact' = intact \ W /\ UNCHANGED listed

SignOwn(e) ==
  /\ Put(e, {"manifest"})
  /\ listed' = {d \in Signable : Fresh(d)}
  /\ intact' = listed'

(* sign.ts: the manifest lists every file of a signed extension. *)
Sign(e) ==
  /\ Put(e, {"manifest"})
  /\ listed' = {d \in Signable : Present(d)}
  /\ intact' = listed'

(* sign.ts: what its verification reports, a file listed that has changed and *)
(* one there that is not listed.                                              *)
Failing == (listed \ intact) \cup ({d \in Signable : Present(d)} \ listed)

(* The evidence the signed manifest vouches for is not what is on the disk:   *)
(* the manifest is that of the run before, the evidence this run's.           *)
EnvelopeMismatch == Present("manifest") /\ ~(SsdfEnvelopes \cap listed \subseteq intact)

ThrowsIfThere(s) == \/ \E d \in s.emit.needs : ~Present(d)
                    \/ s.does = "verified" /\ EnvelopeMismatch
                    \/ s.does = "ifsigned" /\ ~Fresh("manifest")
                    \/ s.emit = Ssp /\ Present("ssp")

Throws(s) == \/ \E d \in s.emit.needs : ~Present(d)
             \/ s.does = "verified" /\ EnvelopeMismatch
             \/ s.does = "ifsigned" /\ ~Fresh("manifest")
-----------------------------------------------------------------------------
Running == status = "running" /\ at \in DOMAIN Stages
Next1 == at' = at + 1 /\ UNCHANGED <<run, status>>
Spend == gaps + spared < MaxGaps /\ gaps' = gaps + 1 /\ UNCHANGED spared

(* The stage does its work. *)
Emit ==
  LET s == Stages[at] IN
  /\ Running /\ s.does \in {"emit", "verified", "ifsigned"} /\ ~Throws(s)
  /\ Write(s.emit, Written(s.emit, Len(s.emit.writes)))
  /\ Next1 /\ UNCHANGED <<invalid, gaps, spared>>

(* The stage does its work, and has nothing to write in a document or two: a  *)
(* POA&M without a failed finding, a privacy assessment that is not called    *)
(* for, a timestamp not granted.  What an earlier run left there stays.       *)
Spare ==
  LET s == Stages[at] IN
  /\ Running /\ s.does \in {"emit", "verified", "ifsigned"} /\ ~Throws(s)
  /\ s.emit.spares # {} /\ gaps + spared < MaxGaps
  /\ Write(s.emit, Written(s.emit, Len(s.emit.writes)) \ s.emit.spares)
  /\ spared' = spared + 1
  /\ Next1 /\ UNCHANGED <<invalid, gaps>>

(* The collectors' evidence; one file may fail its schema, and one that did   *)
(* in an earlier run stays when its KSI is not among those asked for.         *)
Collect ==
  LET s == Stages[at] IN
  /\ Running /\ s.does = "collect"
  /\ Write(s.emit, ToSet(s.emit.writes))
  /\ invalid' \in {"none", "fresh"} \cup ({invalid} \cap {"kept"})
  /\ Next1 /\ UNCHANGED <<gaps, spared>>

(* The file of this run that failed is moved away, and a list of what was     *)
(* moved is written; with --strict-schema the run ends here instead.  That    *)
(* the directory cannot be made or the file not renamed is caught; that the   *)
(* list cannot be written is not, and ends the run.                           *)
MoveInvalid ==
  /\ Running /\ Stages[at].does = "quarantine"
  /\ \/ /\ invalid' = IF invalid = "fresh" THEN "moved" ELSE invalid
        /\ Next1 /\ UNCHANGED <<gaps, spared>>
     \/ /\ invalid = "fresh" /\ invalid' = "stuck" /\ Next1 /\ Spend
     \/ /\ invalid = "fresh" /\ invalid' = "moved"
        /\ status' = "failed" /\ Spend /\ UNCHANGED <<run, at>>
     \/ /\ invalid = "fresh" /\ status' = "aborted"
        /\ UNCHANGED <<run, at, gaps, spared, invalid>>
  /\ UNCHANGED <<made, behind, mixed, listed, intact, fouled>>

SignRun ==
  /\ Running /\ Stages[at].does = "sign"
  /\ Sign(Stages[at].emit)
  /\ Next1 /\ UNCHANGED <<invalid, gaps, spared>>

(* What it lacks makes the stage throw: the files it would have written stay  *)
(* as they are.                                                               *)
Lack ==
  /\ Running /\ Throws(Stages[at])
  /\ Next1 /\ UNCHANGED <<made, behind, mixed, listed, intact, invalid, fouled, gaps, spared>>

(* The flags do not ask for the stage, or turn it off. *)
Leave ==
  /\ Running /\ Stages[at].caught
  /\ Spend /\ Next1
  /\ UNCHANGED <<made, behind, mixed, listed, intact, invalid, fouled>>

(* The stage throws after it has written some of its files. *)
Fail ==
  LET s == Stages[at] IN
  /\ Running /\ s.does # "quarantine" /\ ~Throws(s)
  /\ Spend
  /\ \E k \in 1..Len(s.emit.writes) - 1 : Write(s.emit, Written(s.emit, k))
  /\ Next1 /\ UNCHANGED invalid

(* What is not caught ends the run, with some of its files written or none. *)
Abort ==
  LET e == Stages[at].emit IN
  /\ Running /\ ~Stages[at].caught /\ Stages[at].does # "quarantine"
  /\ Spend /\ status' = "failed"
  /\ \E k \in 0..Len(e.writes) : Write(e, Written(e, k))
  /\ UNCHANGED <<run, at, invalid>>

Finish ==
  /\ status = "running" /\ at \notin DOMAIN Stages
  /\ status' = "finished"
  /\ UNCHANGED <<run, at, made, behind, mixed, listed, intact, invalid, fouled, gaps, spared>>

(* The process ends where no stage ends it: it is killed, or it stops before   *)
(* the collection, for want of a provider or a token or as this is a dry run. *)
Crash ==
  /\ status = "running" /\ Spend
  /\ status' = "stopped"
  /\ UNCHANGED <<run, at, made, behind, mixed, listed, intact, invalid, fouled>>

(* The next run, in the directory the last one left. *)
Start ==
  /\ status # "running" /\ run < MaxRuns
  /\ run' = run + 1 /\ at' = 1 /\ status' = "running" /\ gaps' = 0 /\ spared' = 0
  /\ behind' = {} /\ mixed' = {} /\ fouled' = {}
  /\ invalid' = IF invalid \in {"fresh", "stuck", "kept"} THEN "kept" ELSE "none"
  /\ UNCHANGED <<made, listed, intact>>

Work == Emit \/ Spare \/ Collect \/ MoveInvalid \/ SignRun \/ Lack \/ Leave \/ Fail \/ Abort \/ Finish
Next == Work \/ Crash \/ Start
Spec == Init /\ [][Next]_vars /\ WF_vars(Work)
-----------------------------------------------------------------------------
Finished == status = "finished"
Signed == Finished /\ Fresh("manifest")

(* A digest quoted in a document is that of the file as the run leaves it,    *)
(* with the exceptions of QuotedOutdated.                                     *)
CitationsHold == Finished => behind \cap Quotes \subseteq QuotedOutdated

(* A document is made from what its inputs are when the run ends: no stage    *)
(* comes before one it depends on, with the exceptions of ReadOutdated.  (The *)
(* scores only add a field to the KSI files.)                                 *)
ReadsAreFinal == Finished => behind \ (Docs \X KsiFiles) \subseteq ReadOutdated

(* A run in which every stage does its work uses nothing of an earlier run,   *)
(* but for what it reads early, for what a stage with nothing to write        *)
(* leaves, and for the SSDF matrix: its check of the evidence against the manifest fails  *)
(* in every run after a signed one, and what is made from the matrix is then  *)
(* made from the old one.                                                     *)
NothingOldByItself == Finished /\ gaps = 0 => mixed \subseteq OldByDesign

(* When a signed run ends, verifying the directory fails on no file but those *)
(* written after the signature.                                               *)
OnlyLateFilesFail ==
  Signed => Failing \subseteq Late

(* A file of the run that fails its schema goes into no document but the      *)
(* signal evidence, which is made before the files are sifted, and what is    *)
(* made of the results in memory: the list of the tools found, in the process *)
(* evidence, and the run's summary; and the run is not signed while the file  *)
(* is among the evidence.  Where the file could not be moved the run goes on  *)
(* and uses it everywhere: of that case this says nothing.                    *)
NothingFromInvalid == /\ invalid # "stuck" => fouled \subseteq FromUnsifted
                      /\ invalid = "fresh" => ~Fresh("manifest")

(* A stage that fails never keeps the evidence from being signed: the run     *)
(* gets past the signature unless the process is stopped, --strict-schema     *)
(* ends it, or the collection, the list of what was moved away or the summary *)
(* throws.                                                                    *)
SigningIsReached ==
  (status = "running" /\ at = 1) ~>
    \/ at > SignAt
    \/ status \in {"stopped", "aborted"}
    \/ status = "failed" /\ Stages[at] \in {CollectKsis, Quarantine, Summarise}
-----------------------------------------------------------------------------
(* The strengthening that carries the properties from step to step and from   *)
(* run to run.                                                                *)
EvidenceTypeOK ==
  /\ run \in Nat \ {0} /\ at \in 1..Len(Stages) + 1 /\ gaps \in Nat /\ spared \in Nat
  /\ made \in [Docs -> 0..run]
  /\ behind \subseteq Docs \X Docs /\ mixed \subseteq Docs \X Docs
  /\ listed \subseteq Signable /\ intact \subseteq listed
  /\ invalid \in {"none", "fresh", "moved", "stuck", "kept"} /\ fouled \subseteq Docs
  /\ status \in {"running", "finished", "failed", "aborted", "stopped"}

(* Evidence that fails its schema is sifted in time; a run begins with none   *)
(* of its own.                                                                *)
SiftedFirst == /\ invalid = "fresh" => at <= SiftAt
               /\ invalid = "stuck" => at > 1
               /\ invalid # "stuck" => fouled \subseteq FromUnsifted

(* Behind the collection the evidence is this run's, and until the signature  *)
(* not what a manifest of the run before lists; any manifest lists evidence.  *)
CollectedFirst == /\ at > 1 => Fresh("ksi")
                  /\ at > 1 /\ at <= SignAt => "ksi" \notin intact
                  /\ Present("manifest") => "ksi" \in listed

(* Behind the signature nothing is unlisted or changed but late files. *)
SignedAtTheEnd == Fresh("manifest") => at > SignAt /\ Failing \subseteq Late

(* What a run without gaps has behind it. *)
NothingIsMissing ==
  gaps = 0 => \A k \in 1..at - 1 : /\ \A d \in Always(k) : Fresh(d)
                                   /\ \A d \in Settled(k) : ~Old(d)
DerivedNeedsMatrix == \A d \in Derived : Present(d) => Present("matrix")

EvidenceIInv ==
  /\ EvidenceTypeOK
  /\ behind \subseteq EverBehind
  /\ gaps = 0 => mixed \subseteq OldByDesign
  /\ SiftedFirst /\ CollectedFirst /\ SignedAtTheEnd
  /\ NothingIsMissing /\ DerivedNeedsMatrix
=============================================================================
