------------------------------- MODULE PoamRisk -----------------------------
(***************************************************************************)
(* The collector's side of the signed workflows.  A run of the             *)
(* orchestrator pulls the approved acceptances, then the active controls,  *)
(* from the tracker, writes each answer to a snapshot file and emits the   *)
(* POA&M from the two files.  A pull that fails is not fatal: the run goes *)
(* on with the file of an earlier run.                                     *)
(*                                                                         *)
(* A file that is absent, or torn by a crash while it was written, reads   *)
(* as the empty list.  Each acceptance is about a finding of its own.      *)
(***************************************************************************)
EXTENDS RiskGovernance

CONSTANTS
  PageSize,  \* rows the tracker returns when a client names no limit
  Expires    \* the expiration_date in the body of a control, or NULL

ASSUME PoamAssumption == PageSize \in Nat \ {0} /\ Expires \in [Contents -> Nat \cup {Null}]

VARIABLES
  order,    \* the acceptances by id, which is also the order of accepted_at
  phase,    \* the step the collector run is at
  accFile,  \* out/.risk-acceptances.json
  ctlFile,  \* out/.compensating-controls.json
  poam      \* deviations of the last POA&M: acceptance -> remediations by control

runVars == <<phase, accFile, ctlFile, poam>>
poamVars == <<govVars, order, runVars>>

Empty == [x \in {} |-> Null]

PoamTypeOK ==
  /\ order \in Seq(Acceptances)
  /\ phase \in {"idle", "acceptances", "controls", "emit"}
  /\ \A a \in DOMAIN accFile : accFile[a] \in [exp : Expiration, links : SUBSET Citable]
  /\ \A c \in DOMAIN ctlFile : ctlFile[c] \in Contents
  /\ \A a \in DOMAIN poam : \A c \in DOMAIN poam[a] : poam[a][c] \in Contents \cup {Null}

PoamInit == GovInit /\ order = <<>> /\ phase = "idle" /\ accFile = Empty /\ ctlFile = Empty /\ poam = Empty

(* A step of the tracker; a new acceptance is the last row of the table. *)
NewRow(a) == accs[a].status = "absent" /\ accs'[a].status # "absent"
TrackerStep ==
  /\ GovNext
  /\ order' = IF \E a \in Acceptances : NewRow(a)
                THEN Append(order, CHOOSE a \in Acceptances : NewRow(a))
                ELSE order
  /\ UNCHANGED runVars

(* GET /api/risk-acceptances?status=approved: newest first, one page.  A row *)
(* is on it when fewer than PageSize approved rows are newer. *)
Newer(a) == {order[n] : n \in {k \in 1..Len(order) : \E m \in 1..(k - 1) : order[m] = a}}
Page_All == {a \in Acceptances : accs[a].status # "absent"}
Page == {a \in Acceptances : /\ accs[a].status = "approved"
                             /\ Cardinality({b \in Newer(a) : accs[b].status = "approved"}) < PageSize}

(* The reader rebuilds the signed payload from the links it received. *)
Verifies(a) == accs[a].signed = Rebuilt(a)

Begin == /\ phase = "idle"
         /\ phase' = "acceptances"
         /\ UNCHANGED <<govVars, order, accFile, ctlFile, poam>>

(* pullActiveAcceptances(): every record must verify or nothing is written. *)
PullAcceptances ==
  /\ phase = "acceptances" /\ phase' = "controls"
  /\ \/ up /\ (\A a \in Page : Verifies(a))
        /\ accFile' = [a \in Page |-> [exp |-> accs[a].exp, links |-> accs[a].links]]
     \/ UNCHANGED accFile  \* unreachable, HTTP error, or a signature that fails
  /\ UNCHANGED <<govVars, order, ctlFile, poam>>

SnapshotItem(c) == controls[c].content

(* pullCompensatingControls().  No more controls than fit one page. *)
Served_AnyStatus == {c \in Controls : controls[c].status # "absent"}
Served == {c \in Controls : controls[c].status = "active"}
ControlVerifies(c) == controls[c].signature = Payload(controls[c].content, controls[c].by)
PullControls ==
  /\ phase = "controls" /\ phase' = "emit"
  /\ \/ up /\ (\A c \in Served : ControlVerifies(c))
        /\ ctlFile' = [c \in Served |-> SnapshotItem(c)]
     \/ UNCHANGED ctlFile
  /\ UNCHANGED <<govVars, order, accFile, poam>>

(* activeAcceptanceFor(): unexpired now, whatever the snapshot's age. *)
InForce_Any(a) == TRUE
InForce(a) == accFile[a].exp.at > now

(* getCompensatingControl(): known to the snapshot, which may be missing or *)
(* unreadable, and unexpired now.                                           *)
Cached == DOMAIN ctlFile
Resolves(c) == c \in Cached /\ (Expires[ctlFile[c]] = Null \/ Expires[ctlFile[c]] > now)

(* buildCompensatingControlRemediations(): one for each link; a uuid that     *)
(* does not resolve needs an operator.                                        *)
Remediations(a) == [c \in accFile[a].links |-> IF Resolves(c) THEN ctlFile[c] ELSE Null]

(* buildOscalPoam(): a deviation for each acceptance in force. *)
Emit ==
  /\ phase = "emit" /\ phase' = "idle"
  /\ poam' = [a \in {b \in DOMAIN accFile : InForce(b)} |-> Remediations(a)]
  /\ UNCHANGED <<govVars, order, accFile, ctlFile>>

(* The run dies, possibly while it writes a snapshot. *)
Die == /\ phase # "idle" /\ phase' = "idle"
       /\ \/ UNCHANGED <<accFile, ctlFile>>
          \/ phase = "acceptances" /\ accFile' = Empty /\ UNCHANGED ctlFile
          \/ phase = "controls" /\ ctlFile' = Empty /\ UNCHANGED accFile
       /\ UNCHANGED <<govVars, order, poam>>

PoamNext == TrackerStep \/ Begin \/ PullAcceptances \/ PullControls \/ Emit \/ Die

PoamSpec == PoamInit /\ [][PoamNext]_poamVars

-----------------------------------------------------------------------------
(* What a POA&M says of a mitigation is what an AO signed off and what the  *)
(* tracker still stores, however old the snapshot it came from.             *)
MitigationIsSignedContent ==
  \A a \in DOMAIN poam : \A c \in DOMAIN poam[a] : poam[a][c] # Null =>
     /\ controls[c].signedOffBy # Null
     /\ poam[a][c] = controls[c].content

(* Every deviation of a POA&M was approved, and its links are those of the  *)
(* acceptance: nothing pulled, cached or torn makes one up.                 *)
DeviationWasApproved ==
  \A a \in DOMAIN poam : /\ accs[a].approvedBy # Null
                         /\ DOMAIN poam[a] = accs[a].links

(* No POA&M is emitted with a deviation or a mitigation past its date,       *)
(* whatever the enforcer did or did not sweep and however old the snapshot.  *)
NoExpiredDeviation ==
  [][phase = "emit" /\ phase' = "idle" /\ poam' # poam =>
       \A a \in DOMAIN poam' : /\ accs[a].exp.at > now
                               /\ \A c \in DOMAIN poam'[a] : poam'[a][c] # Null =>
                                    Expires[controls[c].content] = Null \/ Expires[controls[c].content] > now]_poamVars
=============================================================================
