----------------------------- MODULE Collector -----------------------------
(* One finding of one collector, from its first read to the finding it        *)
(* contributes.  The cloud is fixed but unknown: truth is what is there, n    *)
(* what the collector came to hold, ok whether the read ended without error.  *)
EXTENDS Findings

CONSTANTS Rules,          \* the findings
          Kinds(_),       \* of a finding: its quantities, each with how it is read
          FindingOf(_, _), \* of a finding and a view: core/findings.ts finding()
          Most(_),        \* of a finding: the largest count of anything it reads
          Ungated,        \* the findings that pass on a read that failed
          Overlooks,      \* those that pass when the offender is on an unread page
          Misses,         \* those that fail when what they seek is on an unread page
          Nameless        \* those that fail without naming a resource

ASSUME MostAssumption == \A r \in Rules : Most(r) \in Nat

VARIABLES rule, got, outcome, rollup
vars == <<rule, got, outcome, rollup>>

Outcomes == {"reading", "passed", "failed", "thrown", "lost"}

(* What the finding would be computed from, and what it should be. *)
View  == [n |-> [q \in DOMAIN got |-> got[q].n], ok |-> [q \in DOMAIN got |-> got[q].ok]]
Cloud == [n |-> [q \in DOMAIN got |-> got[q].truth], ok |-> [q \in DOMAIN got |-> TRUE]]
-----------------------------------------------------------------------------
Init ==
  /\ rule \in Rules
  /\ got = [q \in {} |-> 0]
  /\ outcome = "reading"
  /\ rollup = "none"

(* The next quantity to read: a list before the details of its items. *)
Pending == DOMAIN Kinds(rule) \ DOMAIN got
Detail(k) == k.how \in {"each", "part", "last"}
Ready(q) == Detail(Kinds(rule)[q]) => Kinds(rule)[q].of \in DOMAIN got
Due == {q \in Pending : Ready(q)}
Turn == CHOOSE q \in Due : TRUE

Limit(k) ==
  CASE ~Detail(k) -> Most(rule)
    [] k.how = "last" /\ got[k.of].truth > 0 -> 1
    [] OTHER -> got[k.of].truth

Hold(q, t, n, ok) ==
  /\ got' = [p \in DOMAIN got \cup {q} |->
               IF p = q THEN [truth |-> t, n |-> n, ok |-> ok] ELSE got[p]]
  /\ UNCHANGED <<rule, outcome, rollup>>

(* A list whose later pages are dropped. *)
ReadListCut(q, k, t) == ~Detail(k) /\ \E n \in 0..t : Hold(q, t, n, TRUE)

(* The whole list. *)
ReadList(q, k, t) == ~Detail(k) /\ Hold(q, t, t, TRUE)

(* The details of the items that are held: those of the others are unseen. *)
ReadDetails(q, k, t) ==
  /\ k.how \in {"each", "part"}
  /\ LET p == got[k.of] IN
       \E n \in 0..t : /\ n <= p.n /\ t - n <= p.truth - p.n
                      /\ Hold(q, t, n, k.how = "each" \/ p.ok)

(* What the last item read shows; it is the last there is only of a list      *)
(* that was read to its end.                                                  *)
ReadLast(q, k, t) ==
  /\ k.how = "last"
  /\ LET p == got[k.of] IN
       \E n \in 0..1 : /\ n <= p.n /\ (p.n = p.truth => n = t)
                      /\ Hold(q, t, n, TRUE)

(* More items than the pages that are read: the next is not asked for.  A     *)
(* page that is not the last one holds something.                             *)
MayEndEarly(k) == k.how \in {"page", "skim", "peek"}
ReadFirstPage(q, k, t) == MayEndEarly(k) /\ \E n \in 1..t : n < t /\ Hold(q, t, n, TRUE)

(* The call is refused or throttled, and the error is noted as a warning. *)
ReadFails(q, k, t) ==
  \/ k.how \in {"whole", "page"} /\ Hold(q, t, 0, FALSE)
  \/ k.how \in {"scan", "skim"} /\ \E n \in 0..t : Hold(q, t, n, FALSE)
  \/ k.how = "each" /\ \E n \in 0..t : n <= got[k.of].n /\ Hold(q, t, n, FALSE)
  \/ k.how = "last" /\ \E n \in 0..1 : n < got[k.of].n /\ Hold(q, t, n, FALSE)

(* The call fails and nothing in the collector catches it. *)
ReadThrows(k) == k.how \in {"bare", "peek"} /\ outcome' = "lost" /\ UNCHANGED <<rule, got, rollup>>

Read ==
  /\ outcome = "reading" /\ Due # {}
  /\ LET q == Turn
         k == Kinds(rule)[q]
     IN  \E t \in 0..Limit(k) :
           \/ ReadList(q, k, t)
           \/ ReadDetails(q, k, t)
           \/ ReadLast(q, k, t)
           \/ ReadFirstPage(q, k, t)
           \/ ReadFails(q, k, t)
           \/ ReadThrows(k)

(* finding(): the verdict on what is held, unless it is a thin finding. *)
Conclude ==
  /\ outcome = "reading" /\ Pending = {}
  /\ LET f == FindingOf(rule, View)
     IN  outcome' = IF Throws(f) THEN "thrown" ELSE IF f.passed THEN "passed" ELSE "failed"
  /\ UNCHANGED <<rule, got, rollup>>

(* makeRollup: a KSI passes when none of its findings failed. *)
Rollup(o) == IF o = "failed" THEN "fail" ELSE "pass"

(* A KSI whose collector's exception is not caught gets no evidence file. *)
RollUpWhatReturned ==
  /\ outcome \in {"passed", "failed"} /\ rollup = "none"
  /\ rollup' = Rollup(outcome)
  /\ UNCHANGED <<rule, got, outcome>>

(* The orchestrator rolls the KSI up; a collector that threw contributes a    *)
(* block without findings and a warning.                                      *)
RollUp ==
  /\ outcome # "reading" /\ rollup = "none"
  /\ rollup' = Rollup(outcome)
  /\ UNCHANGED <<rule, got, outcome>>

Next == Read \/ Conclude \/ RollUp
Spec == Init /\ [][Next]_vars
FairSpec == Spec /\ WF_vars(Next)
-----------------------------------------------------------------------------
(* A collector holds, of everything it counts, no more than there is, and     *)
(* rolls up only what it has finished.                                        *)
CollectorTypeOK ==
  /\ rule \in Rules /\ outcome \in Outcomes /\ rollup \in {"none", "pass", "fail"}
  /\ DOMAIN got \subseteq DOMAIN Kinds(rule)
  /\ \A q \in DOMAIN got : /\ got[q].truth \in Nat /\ got[q].ok \in BOOLEAN
                           /\ got[q].n \in Nat
                           /\ Kinds(rule)[q].how # "last" => got[q].n <= got[q].truth
  /\ rollup # "none" => outcome # "reading"

(* No call failed and no list went on after the last page that was read. *)
NoErrors == \A q \in DOMAIN got : got[q].ok
CutShort(q) ==
  MayEndEarly(Kinds(rule)[q]) /\ got[q].ok /\ got[q].n < got[q].truth
NothingCut == \A q \in DOMAIN got : ~CutShort(q)

(* A finding that passes is so of the cloud, also when calls were refused or  *)
(* throttled on the way and lists were longer than what is read of them: what *)
(* was not seen does not count in favour ("must be gated on reachable",       *)
(* aws/iam.ts).  Ungated and Overlooks name every finding of the collectors   *)
(* of which that is not so.                                                   *)
FailsClosed ==
  outcome = "passed" =>
    \/ FindingOf(rule, Cloud).passed
    \/ rule \in Ungated /\ ~NoErrors
    \/ rule \in Overlooks /\ ~NothingCut

(* A finding that fails although every call was answered is a failing of the  *)
(* cloud: nobody is sent to mend what is in order.  Misses names every        *)
(* finding that may report as absent what is there, on a page that the        *)
(* collector did not read.                                                    *)
FailsForCause ==
  outcome = "failed" /\ NoErrors =>
    \/ ~FindingOf(rule, Cloud).passed
    \/ rule \in Misses /\ ~NothingCut

(* The exception of core/findings.ts for a failing finding without a resource *)
(* is not met by a collector whose reads all succeeded.                       *)
NamesWhatItFound == outcome = "thrown" => ~NoErrors \/ rule \in Nameless

(* Every KSI is rolled up, whichever of its reads fail.                       *)
EveryKsiIsRolledUp == <>(rollup # "none")

(* A read that was refused is no reason for a KSI to pass: the gate of the    *)
(* finding ("otherwise an AccessDenied [...] produces a false PASS",          *)
(* aws/iam.ts) is still closed in the rollup.                                 *)
GateReachesRollup ==
  (rollup = "pass" /\ outcome # "lost" /\ ~NoErrors /\ NothingCut /\ rule \notin Ungated)
    => FindingOf(rule, Cloud).passed
=============================================================================
