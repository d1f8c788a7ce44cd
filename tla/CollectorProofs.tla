-------------------------- MODULE CollectorProofs --------------------------
(* Proofs about a collector, for every set of findings, every way of reading  *)
(* what they look at, and clouds of every size.                               *)
EXTENDS Collector, EvidenceRules, TLAPS

(* What is read without an error and to the last page is all there is; the    *)
(* details of a list are complete when the list is.                           *)
Complete == NoErrors /\ NothingCut => \A q \in DOMAIN got : got[q].n = got[q].truth

(* What the outcome and the rollup were computed from. *)
Verdicts ==
  /\ outcome \in {"passed", "failed"} =>
       (outcome = "passed" <=> FindingOf(rule, View).passed)
  /\ rollup # "none" => (rollup = "pass" <=> outcome # "failed")

IInv == CollectorTypeOK /\ Complete /\ Verdicts

Quantity == [truth : Nat, n : Nat, ok : BOOLEAN]

(* A step that holds one more quantity keeps the invariant when the quantity  *)
(* is complete whenever what is held already is.                              *)
LEMMA HoldKeepsIInv ==
  ASSUME IInv, outcome = "reading",
         NEW q \in Due, NEW t \in Nat, NEW n \in Nat, NEW ok \in BOOLEAN,
         Hold(q, t, n, ok),
         Kinds(rule)[q].how # "last" => n <= t,
         ok /\ NoErrors /\ NothingCut /\ ~(MayEndEarly(Kinds(rule)[q]) /\ n < t)
           => n = t
  PROVE  IInv'
<1>1. /\ DOMAIN got' = DOMAIN got \cup {q}
      /\ got'[q] = [truth |-> t, n |-> n, ok |-> ok]
      /\ \A p \in DOMAIN got : got'[p] = got[p]
      /\ UNCHANGED <<rule, outcome, rollup>>
      /\ q \in DOMAIN Kinds(rule) /\ q \notin DOMAIN got
  BY DEF Hold, Due, Pending
<1>2. CollectorTypeOK'
  BY <1>1 DEF IInv, CollectorTypeOK
<1>3. Complete'
  <2> SUFFICES ASSUME NoErrors', NothingCut', NEW p \in DOMAIN got'
               PROVE  got'[p].n = got'[p].truth
    BY DEF Complete
  <2>1. NoErrors /\ NothingCut
    BY <1>1 DEF NoErrors, NothingCut, CutShort
  <2>2. \A s \in DOMAIN got : got[s].n = got[s].truth
    BY <2>1 DEF IInv, Complete
  <2>3. ok /\ ~(MayEndEarly(Kinds(rule)[q]) /\ n < t)
    BY <1>1 DEF NoErrors, NothingCut, CutShort
  <2>4. n = t
    BY <2>1, <2>3
  <2> QED BY <1>1, <2>2, <2>4
<1>4. Verdicts'
  BY <1>1 DEF IInv, Verdicts, CollectorTypeOK
<1> QED BY <1>2, <1>3, <1>4 DEF IInv

(* A read, however it ends, keeps the invariant.                              *)
LEMMA ReadKeepsIInv == ASSUME IInv, Read PROVE IInv'
<1>0. PICK q \in Due : q = Turn
  BY DEF Read, Turn
<1> DEFINE k == Kinds(rule)[q]
<1>1. outcome = "reading" /\ q \in Due
  BY <1>0 DEF Read
<1>2. Detail(k) => /\ k.of \in DOMAIN got /\ got[k.of].truth \in Nat
                   /\ got[k.of].n \in Nat /\ got[k.of].ok \in BOOLEAN
  BY <1>1 DEF Due, Ready, IInv, CollectorTypeOK
<1>3. Limit(k) \in Nat
  BY <1>2, MostAssumption DEF Limit, IInv, CollectorTypeOK
<1>4. PICK t \in 0..Limit(k) :
        \/ ReadList(q, k, t)
        \/ ReadDetails(q, k, t)
        \/ ReadLast(q, k, t)
        \/ ReadFirstPage(q, k, t)
        \/ ReadFails(q, k, t)
        \/ ReadThrows(k)
  BY <1>0 DEF Read
<1>5. t \in Nat
  BY <1>3
<1> HIDE DEF k
<1>6. CASE ReadList(q, k, t)
  <2>1. Hold(q, t, t, TRUE)
    BY <1>6, Zenon DEF ReadList
  <2>2. t <= t
    BY <1>5
  <2> QED BY <1>1, <1>5, <2>1, <2>2, HoldKeepsIInv
<1>7. CASE ReadDetails(q, k, t)
  <2> DEFINE p == got[k.of]
  <2>1. PICK n \in 0..t : n <= p.n /\ t - n <= p.truth - p.n
                          /\ Hold(q, t, n, k.how = "each" \/ p.ok)
    BY <1>7 DEF ReadDetails
  <2>2. /\ k.of \in DOMAIN got /\ p.truth \in Nat /\ p.n \in Nat /\ p.ok \in BOOLEAN
    BY <1>2, <1>7 DEF ReadDetails, Detail
  <2>3. NoErrors /\ NothingCut => p.n = p.truth
    BY <2>2 DEF IInv, Complete
  <2>4. NoErrors /\ NothingCut => n = t
    BY <2>1, <2>2, <2>3, <1>5
  <2>5. PICK ok \in BOOLEAN : ok = (k.how = "each" \/ p.ok)
    BY <2>2
  <2>6. Hold(q, t, n, ok)
    BY <2>1, <2>5
  <2> QED BY <1>1, <1>5, <2>4, <2>6, HoldKeepsIInv
<1>8. CASE ReadFirstPage(q, k, t)
  <2>1. PICK n \in 1..t : MayEndEarly(k) /\ n < t /\ Hold(q, t, n, TRUE)
    BY <1>8 DEF ReadFirstPage
  <2>2. n \in Nat /\ n <= t
    BY <1>5, <2>1
  <2> QED BY <1>1, <1>5, <2>1, <2>2, HoldKeepsIInv DEF k
<1>9. CASE ReadLast(q, k, t)
  <2> DEFINE p == got[k.of]
  <2>1. PICK n \in 0..1 : (p.n = p.truth => n = t) /\ Hold(q, t, n, TRUE)
    BY <1>9 DEF ReadLast
  <2>2. k.how = "last" /\ k.of \in DOMAIN got
    BY <1>2, <1>9 DEF ReadLast, Detail
  <2>3. NoErrors /\ NothingCut => n = t
    BY <2>1, <2>2 DEF IInv, Complete
  <2>4. n \in Nat
    BY <2>1
  <2> QED BY <1>1, <1>5, <2>1, <2>2, <2>3, <2>4, HoldKeepsIInv DEF k
<1>10. CASE ReadFails(q, k, t)
  <2>0. 0 \in 0..t
    BY <1>5
  <2>1. \/ \E n \in 0..t : Hold(q, t, n, FALSE)
        \/ k.how = "last" /\ \E n \in 0..1 : Hold(q, t, n, FALSE)
    BY <1>10, <2>0, Zenon DEF ReadFails
  <2>2. \A n \in 0..t : n \in Nat /\ n <= t
    BY <1>5
  <2>3. \A n \in 0..1 : n \in Nat
    OBVIOUS
  <2>4. PICK n \in Nat : Hold(q, t, n, FALSE) /\ (k.how # "last" => n <= t)
    BY <2>1, <2>2, <2>3, Zenon
  <2> QED BY <1>1, <1>5, <2>4, HoldKeepsIInv DEF k
<1>11. CASE ReadThrows(k)
  BY <1>1, <1>11 DEF ReadThrows, IInv, CollectorTypeOK, Complete, Verdicts,
     NoErrors, NothingCut, CutShort, View, Outcomes
<1> QED BY <1>4, <1>6, <1>7, <1>8, <1>9, <1>10, <1>11

(* Concluding keeps it: the outcome is the verdict on the view.               *)
LEMMA ConcludeKeepsIInv == ASSUME IInv, Conclude PROVE IInv'
<1>1. outcome = "reading" /\ rollup = "none" /\ UNCHANGED <<rule, got, rollup>>
  BY DEF Conclude, IInv, CollectorTypeOK
<1>2. outcome' \in {"thrown", "passed", "failed"}
      /\ (outcome' = "passed" => FindingOf(rule, View).passed)
      /\ (outcome' = "failed" => ~FindingOf(rule, View).passed)
  BY DEF Conclude, Throws
<1>3. CollectorTypeOK'
  BY <1>1, <1>2 DEF IInv, CollectorTypeOK, Outcomes
<1>4. Complete'
  BY <1>1 DEF IInv, Complete, NoErrors, NothingCut, CutShort
<1>5. Verdicts'
  BY <1>1, <1>2 DEF Verdicts, View
<1> QED BY <1>3, <1>4, <1>5 DEF IInv

(* So does the rollup.                                                        *)
LEMMA RollUpKeepsIInv == ASSUME IInv, RollUp PROVE IInv'
<1>1. outcome # "reading" /\ UNCHANGED <<rule, got, outcome>>
      /\ rollup' = IF outcome = "failed" THEN "fail" ELSE "pass"
  BY DEF RollUp, Rollup
<1>2. CollectorTypeOK'
  BY <1>1 DEF IInv, CollectorTypeOK
<1>3. Complete'
  BY <1>1 DEF IInv, Complete, NoErrors, NothingCut, CutShort
<1>4. Verdicts'
  BY <1>1 DEF IInv, Verdicts, View
<1> QED BY <1>2, <1>3, <1>4 DEF IInv

(* Nothing is held at first.                                                  *)
LEMMA InitIInv == Init => IInv
  BY DEF Init, IInv, CollectorTypeOK, Complete, Verdicts, Outcomes

(* The invariant is inductive.                                                *)
LEMMA StepKeepsIInv == IInv /\ [Next]_vars => IInv'
<1> SUFFICES ASSUME IInv, [Next]_vars PROVE IInv'
  OBVIOUS
<1>1. CASE UNCHANGED vars
  BY <1>1 DEF vars, IInv, CollectorTypeOK, Complete, Verdicts, NoErrors,
     NothingCut, CutShort, View
<1> QED BY <1>1, ReadKeepsIInv, ConcludeKeepsIInv, RollUpKeepsIInv DEF Next

(* What is complete is the cloud itself.                                      *)
LEMMA CompleteIsWhole == ASSUME IInv, NoErrors, NothingCut PROVE View = Cloud
<1>1. \A q \in DOMAIN got : got[q].n = got[q].truth /\ got[q].ok = TRUE
  BY DEF IInv, Complete, NoErrors, CollectorTypeOK
<1>2. [q \in DOMAIN got |-> got[q].n] = [q \in DOMAIN got |-> got[q].truth]
  BY <1>1
<1>3. [q \in DOMAIN got |-> got[q].ok] = [q \in DOMAIN got |-> TRUE]
  BY <1>1
<1> QED BY <1>2, <1>3 DEF View, Cloud

(* What is held is of the cloud, and only a finished collector is rolled up.  *)
THEOREM CollectorType == Spec => []CollectorTypeOK
<1>1. IInv => CollectorTypeOK
  BY DEF IInv
<1> QED BY <1>1, InitIInv, StepKeepsIInv, PTL DEF Spec
-----------------------------------------------------------------------------
(* No read of K failed. *)
Told(K, v) == \A q \in DOMAIN K : v.ok[q]

(* No list of K went on after the last page that was read. *)
Uncut(K, c, v) == \A q \in DOMAIN K : MayEndEarly(K[q]) /\ v.ok[q] => v.n[q] = c.n[q]

(* What a read of kind k leaves, when it succeeds and when it fails: t there  *)
(* are, n are held; of the list it is a detail of, pt there are and pn held.  *)
ReadAs(k, t, n, ok, pt, pn, pok) ==
  /\ k.how \in {"given", "bare", "peek"} => ok
  /\ k.how \in {"given", "whole", "scan", "bare"} /\ ok => n = t
  /\ k.how \in {"page", "skim", "peek"} /\ ok /\ n < t => n > 0
  /\ k.how \in {"whole", "page"} /\ ~ok => n = 0
  /\ k.how \in {"each", "part"} => n <= pn /\ t <= pt
  /\ k.how = "each" /\ ok => t - n <= pt - pn
  /\ k.how = "part" => ok = pok /\ t - n <= pt - pn
  /\ k.how = "last" => n <= pn /\ n <= 1 /\ t <= 1 /\ t <= pt
  /\ k.how = "last" /\ ok /\ pn = pt => n = t

(* What a collector may have come to hold, v, of a cloud c once it has read   *)
(* quantity q, which is of kind k; and once it has read all of K.             *)
Holds(k, q, c, v) ==
  /\ c.n[q] \in Nat /\ v.n[q] \in Nat
  /\ k.how # "last" => v.n[q] <= c.n[q]
  /\ c.ok[q] = TRUE /\ v.ok[q] \in BOOLEAN
  /\ ReadAs(k, c.n[q], v.n[q], v.ok[q], c.n[k.of], v.n[k.of], v.ok[k.of])
MayHold(K, c, v) == \A q \in DOMAIN K : Holds(K[q], q, c, v)

(* What the tables promise of finding r: what it passes is so of the cloud,   *)
(* it names what it fails, and when it was told everything what it fails is   *)
(* amiss.                                                                     *)
KeepsPromise(r, K, c, v, onHeld, onCloud) ==
  /\ onHeld.passed => \/ onCloud.passed
                      \/ Told(K, v) /\ Uncut(K, c, v)
                      \/ r \in Named(UngatedFindings) /\ ~Told(K, v)
                      \/ r \in Named(OverlookingFindings) /\ ~Uncut(K, c, v)
  /\ Throws(onHeld) /\ Told(K, v) => r \in Named(NamelessFindings)
  /\ ~onHeld.passed /\ Told(K, v) => \/ ~onCloud.passed
                                     \/ Uncut(K, c, v)
                                     \/ r \in Named(MissingFindings)

(* What has been read so far is read the way its kind says.                   *)
ReadAsItsKind ==
  \A q \in DOMAIN got :
    LET k == Kinds(rule)[q]
        p == got[k.of]
    IN  /\ Detail(k) => k.of \in DOMAIN got
        /\ ReadAs(k, got[q].truth, got[q].n, got[q].ok, p.truth, p.n, p.ok)

(* A finding is made once everything is read, and refused when it is thin.    *)
Concluded ==
  /\ outcome \in {"passed", "failed", "thrown"} => Pending = {}
  /\ outcome = "thrown" => Throws(FindingOf(rule, View))

RInv == IInv /\ ReadAsItsKind /\ Concluded

(* A quantity that is read the way its kind says keeps what is held so.       *)
LEMMA HoldKeepsKinds ==
  ASSUME ReadAsItsKind, NEW q \in Due, NEW k, k = Kinds(rule)[q],
         NEW t, NEW n, NEW ok, Hold(q, t, n, ok),
         ReadAs(k, t, n, ok, got[k.of].truth, got[k.of].n, got[k.of].ok)
  PROVE  ReadAsItsKind'
<1>1. /\ DOMAIN got' = DOMAIN got \cup {q}
      /\ got'[q] = [truth |-> t, n |-> n, ok |-> ok]
      /\ \A p \in DOMAIN got : got'[p] = got[p]
      /\ rule' = rule
      /\ q \notin DOMAIN got
  BY DEF Hold, Due, Pending
<1>2. Detail(k) => k.of \in DOMAIN got
  BY DEF Due, Ready
<1> SUFFICES ASSUME NEW s \in DOMAIN got', NEW j, j = Kinds(rule)[s]
             PROVE  /\ Detail(j) => j.of \in DOMAIN got'
                    /\ ReadAs(j, got'[s].truth, got'[s].n, got'[s].ok,
                              got'[j.of].truth, got'[j.of].n, got'[j.of].ok)
  BY <1>1 DEF ReadAsItsKind
<1>3. CASE s = q
  BY <1>1, <1>2, <1>3 DEF ReadAs, Detail
<1>4. CASE s \in DOMAIN got
  BY <1>1, <1>4 DEF ReadAsItsKind, ReadAs, Detail
<1> QED BY <1>1, <1>3, <1>4

(* Every read leaves what its kind says, whether it succeeds or fails.        *)
LEMMA ReadKeepsKinds == ASSUME RInv, Read PROVE ReadAsItsKind'
<1>0. PICK q \in Due : q = Turn
  BY DEF Read, Turn
<1>1. PICK k : k = Kinds(rule)[q]
  OBVIOUS
<1>2. Detail(k) => /\ k.of \in DOMAIN got /\ got[k.of].truth \in Nat
                   /\ got[k.of].n \in Nat /\ got[k.of].ok \in BOOLEAN
  BY <1>1 DEF Due, Ready, RInv, IInv, CollectorTypeOK
<1>3. /\ Limit(k) \in Nat
      /\ Detail(k) => Limit(k) <= got[k.of].truth
      /\ k.how = "last" => Limit(k) <= 1
  BY <1>2, MostAssumption DEF Limit, RInv, IInv, CollectorTypeOK, Detail
<1>4. PICK t \in 0..Limit(k) :
        \/ ReadList(q, k, t)
        \/ ReadDetails(q, k, t)
        \/ ReadLast(q, k, t)
        \/ ReadFirstPage(q, k, t)
        \/ ReadFails(q, k, t)
        \/ ReadThrows(k)
  BY <1>0, <1>1 DEF Read
<1>5. t \in Nat /\ (Detail(k) => t <= got[k.of].truth) /\ (k.how = "last" => t <= 1)
  BY <1>2, <1>3 DEF Detail
<1> DEFINE As(n, ok) ==
      ReadAs(k, t, n, ok, got[k.of].truth, got[k.of].n, got[k.of].ok)
<1>6. ASSUME NEW n, NEW ok, Hold(q, t, n, ok), As(n, ok)
      PROVE  ReadAsItsKind'
  BY <1>1, <1>6, HoldKeepsKinds DEF RInv
<1>7. CASE ReadList(q, k, t)
  <2>1. Hold(q, t, t, TRUE) /\ ~Detail(k)
    BY <1>7 DEF ReadList
  <2>2. As(t, TRUE)
    BY <2>1, <1>5 DEF ReadAs, Detail
  <2> QED BY <1>6, <2>1, <2>2
<1>8. CASE ReadDetails(q, k, t)
  <2>1. PICK n \in 0..t : /\ n <= got[k.of].n /\ t - n <= got[k.of].truth - got[k.of].n
                          /\ Hold(q, t, n, k.how = "each" \/ got[k.of].ok)
    BY <1>8 DEF ReadDetails
  <2>2. Detail(k)
    BY <1>8 DEF ReadDetails, Detail
  <2>3. PICK ok \in BOOLEAN : ok = (k.how = "each" \/ got[k.of].ok)
    BY <1>2, <2>2
  <2>4. Hold(q, t, n, ok)
    BY <2>1, <2>3
  <2>5. As(n, ok)
    BY <1>2, <1>5, <2>1, <2>2, <2>3 DEF ReadAs, Detail
  <2> QED BY <1>6, <2>4, <2>5
<1>9. CASE ReadFirstPage(q, k, t)
  <2>1. PICK n \in 1..t : MayEndEarly(k) /\ n < t /\ Hold(q, t, n, TRUE)
    BY <1>9 DEF ReadFirstPage
  <2>2. As(n, TRUE)
    BY <1>5, <2>1 DEF ReadAs, MayEndEarly
  <2> QED BY <1>6, <2>1, <2>2
<1>10. CASE ReadLast(q, k, t)
  <2> DEFINE p == got[k.of]
  <2>1. PICK n \in 0..1 : n <= p.n /\ (p.n = p.truth => n = t) /\ Hold(q, t, n, TRUE)
    BY <1>10 DEF ReadLast
  <2>2. k.how = "last"
    BY <1>10 DEF ReadLast
  <2>3. As(n, TRUE)
    BY <1>2, <1>5, <2>1, <2>2 DEF ReadAs, Detail
  <2> QED BY <1>6, <2>1, <2>3
<1>11. CASE ReadFails(q, k, t)
  <2>1. CASE k.how \in {"whole", "page"} /\ Hold(q, t, 0, FALSE)
    <3>1. As(0, FALSE)
      BY <1>5, <2>1 DEF ReadAs
    <3> QED BY <1>6, <2>1, <3>1
  <2>2. CASE k.how \in {"scan", "skim"} /\ \E n \in 0..t : Hold(q, t, n, FALSE)
    <3>1. PICK n \in 0..t : Hold(q, t, n, FALSE)
      BY <2>2
    <3>2. As(n, FALSE)
      BY <1>5, <2>2 DEF ReadAs
    <3> QED BY <1>6, <3>1, <3>2
  <2>3. CASE k.how = "each" /\ \E n \in 0..t : n <= got[k.of].n /\ Hold(q, t, n, FALSE)
    <3>1. PICK n \in 0..t : n <= got[k.of].n /\ Hold(q, t, n, FALSE)
      BY <2>3
    <3>2. As(n, FALSE)
      BY <1>5, <2>3, <3>1 DEF ReadAs, Detail
    <3> QED BY <1>6, <3>1, <3>2
  <2>4. CASE k.how = "last" /\ \E n \in 0..1 : n < got[k.of].n /\ Hold(q, t, n, FALSE)
    <3>1. PICK n \in 0..1 : n < got[k.of].n /\ Hold(q, t, n, FALSE)
      BY <2>4
    <3>2. As(n, FALSE)
      BY <1>2, <1>5, <2>4, <3>1 DEF ReadAs, Detail
    <3> QED BY <1>6, <3>1, <3>2
  <2> QED BY <1>11, <2>1, <2>2, <2>3, <2>4 DEF ReadFails
<1>12. CASE ReadThrows(k)
  BY <1>12 DEF ReadThrows, RInv, ReadAsItsKind
<1> HIDE DEF As
<1> QED BY <1>4, <1>7, <1>8, <1>9, <1>10, <1>11, <1>12

(* Nothing is read to begin with.                                             *)
LEMMA InitRInv == Init => RInv
  BY InitIInv DEF Init, RInv, ReadAsItsKind, Concluded

(* Every step of a collector keeps the invariant.                             *)
LEMMA StepKeepsRInv == RInv /\ [Next]_vars => RInv'
<1> SUFFICES ASSUME RInv, [Next]_vars PROVE RInv'
  OBVIOUS
<1>1. IInv'
  BY StepKeepsIInv DEF RInv
<1>2. CASE Read
  <2>1. ReadAsItsKind'
    BY <1>2, ReadKeepsKinds
  <2>2. outcome' \in {"reading", "lost"}
    BY <1>2
    DEF Read, ReadList, ReadDetails, ReadLast, ReadFirstPage, ReadFails, ReadThrows, Hold
  <2> QED BY <1>1, <2>1, <2>2 DEF RInv, Concluded
<1>3. CASE Conclude
  <2>1. UNCHANGED <<rule, got>> /\ Pending = {}
        /\ (outcome' = "thrown" => Throws(FindingOf(rule, View)))
    BY <1>3 DEF Conclude
  <2>2. ReadAsItsKind'
    BY <2>1 DEF RInv, ReadAsItsKind
  <2>3. Concluded'
    BY <2>1 DEF Concluded, Pending, View
  <2> QED BY <1>1, <2>2, <2>3 DEF RInv
<1>4. CASE RollUp \/ UNCHANGED vars
  <2>1. UNCHANGED <<rule, got, outcome>>
    BY <1>4 DEF RollUp, vars
  <2> QED BY <1>1, <2>1 DEF RInv, ReadAsItsKind, Concluded, Pending, View
<1> QED BY <1>2, <1>3, <1>4 DEF Next

(* A collector that has read everything holds what MayHold says.              *)
LEMMA CollectorMayHold ==
  ASSUME RInv, Pending = {}
  PROVE  MayHold(Kinds(rule), Cloud, View)
<1>1. DOMAIN got = DOMAIN Kinds(rule)
  BY DEF RInv, IInv, CollectorTypeOK, Pending
<1>2. \A q \in DOMAIN got : /\ View.n[q] = got[q].n /\ View.ok[q] = got[q].ok
                            /\ Cloud.n[q] = got[q].truth /\ Cloud.ok[q] = TRUE
  BY DEF View, Cloud
<1>3. \A q \in DOMAIN got : /\ got[q].truth \in Nat /\ got[q].n \in Nat
                            /\ Kinds(rule)[q].how # "last" => got[q].n <= got[q].truth
                            /\ got[q].ok \in BOOLEAN
  BY DEF RInv, IInv, CollectorTypeOK
<1>4. ReadAsItsKind
  BY DEF RInv
<1> HIDE DEF View, Cloud
<1> QED BY <1>1, <1>2, <1>3, <1>4 DEF MayHold, Holds, ReadAsItsKind, ReadAs, Detail

(* The findings and tables of the providers' collectors.                      *)
OfTheProviders ==
  /\ Rules \subseteq AllRules
  /\ \A r \in AllRules : Kinds(r) = ReadsOf(r)
  /\ \A r \in AllRules : \A v : FindingOf(r, v) = VerdictOf(r, v)
  /\ Ungated = Named(UngatedFindings)
  /\ Overlooks = Named(OverlookingFindings)
  /\ Misses = Named(MissingFindings)
  /\ Nameless = Named(NamelessFindings)
-----------------------------------------------------------------------------
(* The findings of the providers, one by one.  Each case names what its       *)
(* finding reads and how; the verdict is then arithmetic on what such reads   *)
(* leave.                                                                     *)

(* A finding that its module's table lists is in the table of all modules.    *)
LEMMA InTable ==
  ASSUME NEW t, NEW m \in DOMAIN t, NEW f \in t[m]
  PROVE  <<m, f>> \in Named(t)
  BY DEF Named

(* The findings of providers/aws/iam.ts.                                      *)
LEMMA AwsIdentityKeepsPromises ==
  ASSUME NEW f \in DOMAIN AwsId!Reads, NEW c, NEW v, NEW K, K = AwsId!Reads[f],
         MayHold(K, c, v)
  PROVE  KeepsPromise(<<"awsId", f>>, K, c, v, AwsId!Verdict(f, v), AwsId!Verdict(f, c))
<1>u. \A g \in {"AbacConfigured", "AccessKeysMinimal", "ConsoleUsersHaveMfa",
              "DfpNoAdminWildcards", "NoAdminWildcards", "NoOldAccessKeys",
              "NoPasswordWithoutMfa", "NoVirtualMfa", "RoleInventoryClean",
              "UnusedAccessManaged"} :
         <<"awsId", g>> \in Named(UngatedFindings)
  BY InTable DEF UngatedFindings
<1>o. \A g \in {"AbacConfigured", "AccessKeysMinimal", "ConsoleUsersHaveMfa",
              "CrossAccountExternalId", "DfpNoAdminWildcards", "NoAdminWildcards",
              "NoExternalAccess", "NoOldAccessKeys", "NoPasswordWithoutMfa", "NoVirtualMfa",
              "RoleInventoryClean", "RolesHaveBoundary", "SessionsAtMost8h",
              "UnusedAccessManaged"} :
         <<"awsId", g>> \in Named(OverlookingFindings)
  BY InTable DEF OverlookingFindings
<1>m. \A g \in {"AbacConfigured", "FederationIsPrimary"} :
         <<"awsId", g>> \in Named(MissingFindings)
  BY InTable DEF MissingFindings
<1> USE DEF Whole, Scan, Page, Skim, Peek, Each, Part, Last, AwsId!Whole, AwsId!Scan,
  AwsId!Page, AwsId!Skim, AwsId!Peek, AwsId!Each, AwsId!Part, AwsId!Last
<1>1. CASE f = "FederationIsPrimary"
  <2>1. /\ Holds(Page, "instances", c, v) /\ Holds(Each("instances"), "storeUsers", c, v)
        /\ (Told(K, v) <=> v.ok.instances /\ v.ok.storeUsers)
        /\ (Uncut(K, c, v) <=> (v.ok.instances => v.n.instances = c.n.instances))
    BY <1>1 DEF MayHold, Told, Uncut, MayEndEarly, AwsId!Reads, AwsId!Of, AwsId!IamAam
  <2> QED BY <1>1, <1>m, <2>1 DEF KeepsPromise, Throws, Holds, ReadAs, AwsId!Verdict,
      AwsId!FederationIsPrimary, AwsId!Finding, AwsId!Held
<1>2. CASE f = "StandaloneUsersMinimized"
  <2>1. /\ Holds(Page, "users", c, v) /\ (Told(K, v) <=> v.ok.users)
        /\ (Uncut(K, c, v) <=> (v.ok.users => v.n.users = c.n.users))
    BY <1>2 DEF MayHold, Told, Uncut, MayEndEarly, AwsId!Reads, AwsId!Of, AwsId!IamAam
  <2> QED BY <1>2, <2>1 DEF KeepsPromise, Throws, Holds, ReadAs, AwsId!Verdict,
      AwsId!StandaloneUsersMinimized, AwsId!Finding, AwsId!None
<1>3. CASE f = "NoOldAccessKeys"
  <2>1. /\ Holds(Page, "users", c, v) /\ Holds(Each("users"), "oldKeys", c, v)
        /\ (Told(K, v) <=> v.ok.users /\ v.ok.oldKeys)
        /\ (Uncut(K, c, v) <=> (v.ok.users => v.n.users = c.n.users))
    BY <1>3 DEF MayHold, Told, Uncut, MayEndEarly, AwsId!Reads, AwsId!Of, AwsId!IamAam
  <2> QED BY <1>3, <1>u, <1>o, <2>1 DEF KeepsPromise, Throws, Holds, ReadAs, AwsId!Verdict,
      AwsId!NoOldAccessKeys, AwsId!Finding, AwsId!None, AwsId!Held
<1>4. CASE f = "NoPasswordWithoutMfa"
  <2>1. /\ Holds(Whole, "credentialReport", c, v) /\ Holds(Page, "users", c, v)
        /\ Holds(Each("users"), "passwordNoMfa", c, v)
        /\ (Told(K, v) <=> v.ok.credentialReport /\ v.ok.users /\ v.ok.passwordNoMfa)
        /\ (Uncut(K, c, v) <=> (v.ok.users => v.n.users = c.n.users))
    BY <1>4 DEF MayHold, Told, Uncut, MayEndEarly, AwsId!Reads, AwsId!Of, AwsId!IamAam
  <2> QED BY <1>4, <1>u, <1>o, <2>1 DEF KeepsPromise, Throws, Holds, ReadAs, AwsId!Verdict,
      AwsId!NoPasswordWithoutMfa, AwsId!Finding, AwsId!None
<1>5. CASE f = "UnusedAccessManaged"
  <2>1. /\ Holds(Page, "unusedAnalyzers", c, v)
        /\ Holds(Each("unusedAnalyzers"), "unusedOver25", c, v)
        /\ (Told(K, v) <=> v.ok.unusedAnalyzers /\ v.ok.unusedOver25)
        /\ (Uncut(K, c, v) <=> (v.ok.unusedAnalyzers => v.n.unusedAnalyzers = c.n.unusedAnalyzers))
    BY <1>5 DEF MayHold, Told, Uncut, MayEndEarly, AwsId!Reads, AwsId!Of, AwsId!IamAam
  <2> QED BY <1>5, <1>u, <1>o, <2>1 DEF KeepsPromise, Throws, Holds, ReadAs, AwsId!Verdict,
      AwsId!UnusedAccessManaged, AwsId!Finding, AwsId!None
<1>6. CASE f = "AbacConfigured"
  <2>1. /\ Holds(Page, "instances", c, v) /\ Holds(Last("instances"), "lastAbac", c, v)
        /\ (Told(K, v) <=> v.ok.instances /\ v.ok.lastAbac)
        /\ (Uncut(K, c, v) <=> (v.ok.instances => v.n.instances = c.n.instances))
    BY <1>6 DEF MayHold, Told, Uncut, MayEndEarly, AwsId!Reads, AwsId!Of, AwsId!IamAam
  <2> QED BY <1>6, <1>u, <1>o, <1>m, <2>1 DEF KeepsPromise, Throws, Holds, ReadAs,
      AwsId!Verdict, AwsId!AbacConfigured, AwsId!Finding, AwsId!Held
<1>7. CASE f = "PasswordPolicyStrong"
  <2>1. /\ Holds(Whole, "strongPolicy", c, v) /\ (Told(K, v) <=> v.ok.strongPolicy)
        /\ Uncut(K, c, v)
    BY <1>7 DEF MayHold, Told, Uncut, MayEndEarly, AwsId!Reads, AwsId!Of, AwsId!IamApm
  <2> QED BY <1>7, <2>1 DEF KeepsPromise, Throws, Holds, ReadAs, AwsId!Verdict,
      AwsId!PasswordPolicyStrong, AwsId!Finding, AwsId!Held
<1>8. CASE f = "AppPoolsRequireMfa"
  <2>1. /\ Holds(Scan, "poolsNoMfa", c, v) /\ (Told(K, v) <=> v.ok.poolsNoMfa)
        /\ Uncut(K, c, v)
    BY <1>8 DEF MayHold, Told, Uncut, MayEndEarly, AwsId!Reads, AwsId!Of, AwsId!IamApm
  <2> QED BY <1>8, <2>1 DEF KeepsPromise, Throws, Holds, ReadAs, AwsId!Verdict,
      AwsId!AppPoolsRequireMfa, AwsId!Finding, AwsId!None, AwsId!Held
<1>9. CASE f = "NoAdminWildcards"
  <2>1. /\ Holds(Skim, "policies", c, v) /\ Holds(Each("policies"), "wildcards", c, v)
        /\ (Told(K, v) <=> v.ok.policies /\ v.ok.wildcards)
        /\ (Uncut(K, c, v) <=> (v.ok.policies => v.n.policies = c.n.policies))
    BY <1>9 DEF MayHold, Told, Uncut, MayEndEarly, AwsId!Reads, AwsId!Of, AwsId!IamElp
  <2> QED BY <1>9, <1>u, <1>o, <2>1 DEF KeepsPromise, Throws, Holds, ReadAs, AwsId!Verdict,
      AwsId!NoAdminWildcards, AwsId!Finding, AwsId!None, AwsId!Held
<1>10. CASE f = "RoleInventoryClean"
  <2>1. /\ Holds(Skim, "roles", c, v) /\ Holds(Part("roles"), "staleRolesOver20", c, v)
        /\ (Told(K, v) <=> v.ok.roles /\ v.ok.staleRolesOver20)
        /\ (Uncut(K, c, v) <=> (v.ok.roles => v.n.roles = c.n.roles))
    BY <1>10 DEF MayHold, Told, Uncut, MayEndEarly, AwsId!Reads, AwsId!Of, AwsId!IamElp
  <2> QED BY <1>10, <1>u, <1>o, <2>1 DEF KeepsPromise, Throws, Holds, ReadAs, AwsId!Verdict,
      AwsId!RoleInventoryClean, AwsId!Finding, AwsId!None, AwsId!Held
<1>11. CASE f = "RolesHaveBoundary"
  <2>1. /\ Holds(Skim, "roles", c, v) /\ Holds(Part("roles"), "rolesNoBoundary", c, v)
        /\ (Told(K, v) <=> v.ok.roles /\ v.ok.rolesNoBoundary)
        /\ (Uncut(K, c, v) <=> (v.ok.roles => v.n.roles = c.n.roles))
    BY <1>11 DEF MayHold, Told, Uncut, MayEndEarly, AwsId!Reads, AwsId!Of, AwsId!IamElp
  <2> QED BY <1>11, <1>o, <2>1 DEF KeepsPromise, Throws, Holds, ReadAs, AwsId!Verdict,
      AwsId!RolesHaveBoundary, AwsId!Finding, AwsId!None, AwsId!Held
<1>12. CASE f = "CrossAccountExternalId"
  <2>1. /\ Holds(Skim, "roles", c, v) /\ Holds(Part("roles"), "crossAccount", c, v)
        /\ (Told(K, v) <=> v.ok.roles /\ v.ok.crossAccount)
        /\ (Uncut(K, c, v) <=> (v.ok.roles => v.n.roles = c.n.roles))
    BY <1>12 DEF MayHold, Told, Uncut, MayEndEarly, AwsId!Reads, AwsId!Of, AwsId!IamElp
  <2> QED BY <1>12, <1>o, <2>1 DEF KeepsPromise, Throws, Holds, ReadAs, AwsId!Verdict,
      AwsId!CrossAccountExternalId, AwsId!Finding, AwsId!None, AwsId!Held
<1>13. CASE f = "SessionsAtMost8h"
  <2>1. /\ Holds(Skim, "permissionSets", c, v)
        /\ Holds(Part("permissionSets"), "longSessions", c, v)
        /\ (Told(K, v) <=> v.ok.permissionSets /\ v.ok.longSessions)
        /\ (Uncut(K, c, v) <=> (v.ok.permissionSets => v.n.permissionSets = c.n.permissionSets))
    BY <1>13 DEF MayHold, Told, Uncut, MayEndEarly, AwsId!Reads, AwsId!Of, AwsId!IamJit
  <2> QED BY <1>13, <1>o, <2>1 DEF KeepsPromise, Throws, Holds, ReadAs, AwsId!Verdict,
      AwsId!SessionsAtMost8h, AwsId!Finding, AwsId!None
<1>14. CASE f = "SessionManagerUsed"
  <2>1. /\ Holds(Page, "recentSessions", c, v) /\ (Told(K, v) <=> v.ok.recentSessions)
        /\ (Uncut(K, c, v) <=> (v.ok.recentSessions => v.n.recentSessions = c.n.recentSessions))
    BY <1>14 DEF MayHold, Told, Uncut, MayEndEarly, AwsId!Reads, AwsId!Of, AwsId!IamJit
  <2> QED BY <1>14, <2>1 DEF KeepsPromise, Throws, Holds, ReadAs, AwsId!Verdict,
      AwsId!SessionManagerUsed, AwsId!Finding, AwsId!Held
<1>15. CASE f = "RootMfaEnabled"
  <2>1. /\ Holds(Whole, "rootMfa", c, v) /\ (Told(K, v) <=> v.ok.rootMfa)
        /\ Uncut(K, c, v)
    BY <1>15 DEF MayHold, Told, Uncut, MayEndEarly, AwsId!Reads, AwsId!Of, AwsId!IamMfa
  <2> QED BY <1>15, <2>1 DEF KeepsPromise, Throws, Holds, ReadAs, AwsId!Verdict,
      AwsId!RootMfaEnabled, AwsId!Finding, AwsId!Held
<1>16. CASE f = "ConsoleUsersHaveMfa"
  <2>1. /\ Holds(Page, "users", c, v) /\ Holds(Each("users"), "console", c, v)
        /\ Holds(Each("console"), "consoleMfa", c, v)
        /\ (Told(K, v) <=> v.ok.users /\ v.ok.console /\ v.ok.consoleMfa)
        /\ (Uncut(K, c, v) <=> (v.ok.users => v.n.users = c.n.users))
    BY <1>16 DEF MayHold, Told, Uncut, MayEndEarly, AwsId!Reads, AwsId!Of, AwsId!IamMfa
  <2> QED BY <1>16, <1>u, <1>o, <2>1 DEF KeepsPromise, Throws, Holds, ReadAs, AwsId!Verdict,
      AwsId!ConsoleUsersHaveMfa, AwsId!Finding
<1>17. CASE f = "NoVirtualMfa"
  <2>1. /\ Holds(Page, "users", c, v) /\ Holds(Each("users"), "virtualMfa", c, v)
        /\ (Told(K, v) <=> v.ok.users /\ v.ok.virtualMfa)
        /\ (Uncut(K, c, v) <=> (v.ok.users => v.n.users = c.n.users))
    BY <1>17 DEF MayHold, Told, Uncut, MayEndEarly, AwsId!Reads, AwsId!Of, AwsId!IamMfa
  <2> QED BY <1>17, <1>u, <1>o, <2>1 DEF KeepsPromise, Throws, Holds, ReadAs, AwsId!Verdict,
      AwsId!NoVirtualMfa, AwsId!Finding, AwsId!None, AwsId!Held
<1>18. CASE f = "ScpDeniesWithoutMfa"
  <2>1. /\ Holds(Scan, "mfaDenyScps", c, v) /\ (Told(K, v) <=> v.ok.mfaDenyScps)
        /\ Uncut(K, c, v)
    BY <1>18 DEF MayHold, Told, Uncut, MayEndEarly, AwsId!Reads, AwsId!Of, AwsId!IamMfa
  <2> QED BY <1>18, <2>1 DEF KeepsPromise, Throws, Holds, ReadAs, AwsId!Verdict,
      AwsId!ScpDeniesWithoutMfa, AwsId!Finding, AwsId!Held
<1>19. CASE f = "AccessKeysMinimal"
  <2>1. /\ Holds(Peek, "users", c, v) /\ Holds(Each("users"), "keysOver5", c, v)
        /\ (Told(K, v) <=> v.ok.users /\ v.ok.keysOver5)
        /\ (Uncut(K, c, v) <=> (v.ok.users => v.n.users = c.n.users))
    BY <1>19 DEF MayHold, Told, Uncut, MayEndEarly, AwsId!Reads, AwsId!Of, AwsId!IamSnu
  <2> QED BY <1>19, <1>u, <1>o, <2>1 DEF KeepsPromise, Throws, Holds, ReadAs, AwsId!Verdict,
      AwsId!AccessKeysMinimal, AwsId!Finding, AwsId!None
<1>20. CASE f = "OidcConfigured"
  <2>1. Holds(Whole, "oidc", c, v) /\ (Told(K, v) <=> v.ok.oidc) /\ Uncut(K, c, v)
    BY <1>20 DEF MayHold, Told, Uncut, MayEndEarly, AwsId!Reads, AwsId!Of, AwsId!IamSnu
  <2> QED BY <1>20, <2>1 DEF KeepsPromise, Throws, Holds, ReadAs, AwsId!Verdict,
      AwsId!OidcConfigured, AwsId!Finding, AwsId!Held
<1>21. CASE f = "GuardDutyEnabled"
  <2>1. /\ Holds(Whole, "detector", c, v) /\ (Told(K, v) <=> v.ok.detector)
        /\ Uncut(K, c, v)
    BY <1>21 DEF MayHold, Told, Uncut, MayEndEarly, AwsId!Reads, AwsId!Of, AwsId!IamSus
  <2> QED BY <1>21, <2>1 DEF KeepsPromise, Throws, Holds, ReadAs, AwsId!Verdict,
      AwsId!GuardDutyEnabled, AwsId!Finding, AwsId!Held
<1>22. CASE f = "GuardDutyHasResponse"
  <2>1. /\ Holds(Scan, "rulesWithTargets", c, v)
        /\ (Told(K, v) <=> v.ok.rulesWithTargets) /\ Uncut(K, c, v)
    BY <1>22 DEF MayHold, Told, Uncut, MayEndEarly, AwsId!Reads, AwsId!Of, AwsId!IamSus
  <2> QED BY <1>22, <2>1 DEF KeepsPromise, Throws, Holds, ReadAs, AwsId!Verdict,
      AwsId!GuardDutyHasResponse, AwsId!Finding, AwsId!Held
<1>23. CASE f = "NoCriticalIamFindings"
  <2>1. /\ Holds(Page, "criticalFindings", c, v)
        /\ (Told(K, v) <=> v.ok.criticalFindings)
        /\ (Uncut(K, c, v) <=> (v.ok.criticalFindings => v.n.criticalFindings = c.n.criticalFindings))
    BY <1>23 DEF MayHold, Told, Uncut, MayEndEarly, AwsId!Reads, AwsId!Of, AwsId!IamSus
  <2> QED BY <1>23, <2>1 DEF KeepsPromise, Throws, Holds, ReadAs, AwsId!Verdict,
      AwsId!NoCriticalIamFindings, AwsId!Finding, AwsId!None
<1>24. CASE f = "DfpNoAdminWildcards"
  <2>1. /\ Holds(Skim, "policies", c, v) /\ Holds(Each("policies"), "wildcards", c, v)
        /\ (Told(K, v) <=> v.ok.policies /\ v.ok.wildcards)
        /\ (Uncut(K, c, v) <=> (v.ok.policies => v.n.policies = c.n.policies))
    BY <1>24 DEF MayHold, Told, Uncut, MayEndEarly, AwsId!Reads, AwsId!Of, AwsId!CnaDfp
  <2> QED BY <1>24, <1>u, <1>o, <2>1 DEF KeepsPromise, Throws, Holds, ReadAs, AwsId!Verdict,
      AwsId!DfpNoAdminWildcards, AwsId!Finding, AwsId!None, AwsId!Held
<1>25. CASE f = "CustomerScpsPresent"
  <2>1. /\ Holds(Scan, "customerScps", c, v) /\ (Told(K, v) <=> v.ok.customerScps)
        /\ Uncut(K, c, v)
    BY <1>25 DEF MayHold, Told, Uncut, MayEndEarly, AwsId!Reads, AwsId!Of, AwsId!CnaDfp
  <2> QED BY <1>25, <2>1 DEF KeepsPromise, Throws, Holds, ReadAs, AwsId!Verdict,
      AwsId!CustomerScpsPresent, AwsId!Finding, AwsId!Held
<1>26. CASE f = "NoExternalAccess"
  <2>1. /\ Holds(Skim, "analyzers", c, v) /\ Holds(Each("analyzers"), "external", c, v)
        /\ (Told(K, v) <=> v.ok.analyzers /\ v.ok.external)
        /\ (Uncut(K, c, v) <=> (v.ok.analyzers => v.n.analyzers = c.n.analyzers))
    BY <1>26 DEF MayHold, Told, Uncut, MayEndEarly, AwsId!Reads, AwsId!Of, AwsId!CnaDfp
  <2> QED BY <1>26, <1>o, <2>1 DEF KeepsPromise, Throws, Holds, ReadAs, AwsId!Verdict,
      AwsId!NoExternalAccess, AwsId!Finding, AwsId!Held, AwsId!None
<1> QED BY <1>1, <1>2, <1>3, <1>4, <1>5, <1>6, <1>7, <1>8, <1>9, <1>10, <1>11, <1>12, <1>13,
    <1>14, <1>15, <1>16, <1>17, <1>18, <1>19, <1>20, <1>21, <1>22, <1>23, <1>24, <1>25,
    <1>26 DEF AwsId!Reads

(* The findings of providers/aws/logging.ts.                                  *)
LEMMA AwsLoggingKeepsPromises ==
  ASSUME NEW f \in DOMAIN AwsLog!Reads, NEW c, NEW v, NEW K, K = AwsLog!Reads[f],
         MayHold(K, c, v)
  PROVE  KeepsPromise(<<"awsLog", f>>, K, c, v, AwsLog!Verdict(f, v), AwsLog!Verdict(f, c))
<1>u. \A g \in {"LogGroupsEncrypted", "NoOpenAuditBuckets"} :
         <<"awsLog", g>> \in Named(UngatedFindings)
  BY InTable DEF UngatedFindings
<1>o. \A g \in {"FindingsTriaged"} :
         <<"awsLog", g>> \in Named(OverlookingFindings)
  BY InTable DEF OverlookingFindings
<1>m. \A g \in {"AlertRouting", "FindingsTriaged", "ReviewQueriesSaved", "SiemExport"} :
         <<"awsLog", g>> \in Named(MissingFindings)
  BY InTable DEF MissingFindings
<1> USE DEF Whole, Scan, Page, Skim, Each, Part, AwsLog!Whole, AwsLog!Scan, AwsLog!Page,
  AwsLog!Skim, AwsLog!Each, AwsLog!Part
<1>1. CASE f = "OrgTrailPresent"
  <2>1. /\ Holds(Whole, "trails", c, v) /\ Holds(Each("trails"), "orgTrails", c, v)
        /\ (Told(K, v) <=> v.ok.trails /\ v.ok.orgTrails) /\ Uncut(K, c, v)
    BY <1>1 DEF MayHold, Told, Uncut, MayEndEarly, AwsLog!Reads, AwsLog!Of,
       AwsLog!FetchTrails
  <2> QED BY <1>1, <2>1 DEF KeepsPromise, Throws, Holds, ReadAs, AwsLog!Verdict,
      AwsLog!OrgTrailPresent, AwsLog!Finding, AwsLog!Held
<1>2. CASE f = "LogFileValidation"
  <2>1. /\ Holds(Whole, "trails", c, v) /\ Holds(Part("trails"), "validated", c, v)
        /\ (Told(K, v) <=> v.ok.trails /\ v.ok.validated) /\ Uncut(K, c, v)
    BY <1>2 DEF MayHold, Told, Uncut, MayEndEarly, AwsLog!Reads, AwsLog!Of,
       AwsLog!FetchTrails
  <2> QED BY <1>2, <2>1 DEF KeepsPromise, Throws, Holds, ReadAs, AwsLog!Verdict,
      AwsLog!LogFileValidation, AwsLog!Finding, AwsLog!Held
<1>3. CASE f = "TrailBucketsProtected"
  <2>1. /\ Holds(Whole, "trails", c, v) /\ Holds(Each("trails"), "protected", c, v)
        /\ (Told(K, v) <=> v.ok.trails /\ v.ok.protected) /\ Uncut(K, c, v)
    BY <1>3 DEF MayHold, Told, Uncut, MayEndEarly, AwsLog!Reads, AwsLog!Of, AwsLog!CmtLmc,
       AwsLog!FetchTrails
  <2> QED BY <1>3, <2>1 DEF KeepsPromise, Throws, Holds, ReadAs, AwsLog!Verdict,
      AwsLog!TrailBucketsProtected, AwsLog!Finding, AwsLog!GatePass
<1>4. CASE f = "InsightsEnabled"
  <2>1. /\ Holds(Whole, "trails", c, v) /\ Holds(Each("trails"), "insights", c, v)
        /\ (Told(K, v) <=> v.ok.trails /\ v.ok.insights) /\ Uncut(K, c, v)
    BY <1>4 DEF MayHold, Told, Uncut, MayEndEarly, AwsLog!Reads, AwsLog!Of,
       AwsLog!FetchTrails
  <2> QED BY <1>4, <2>1 DEF KeepsPromise, Throws, Holds, ReadAs, AwsLog!Verdict,
      AwsLog!InsightsEnabled, AwsLog!Finding, AwsLog!Held
<1>5. CASE f = "NoOpenAuditBuckets"
  <2>1. /\ Holds(Whole, "trails", c, v) /\ Holds(Each("trails"), "openBuckets", c, v)
        /\ (Told(K, v) <=> v.ok.trails /\ v.ok.openBuckets) /\ Uncut(K, c, v)
    BY <1>5 DEF MayHold, Told, Uncut, MayEndEarly, AwsLog!Reads, AwsLog!Of, AwsLog!MlaAla,
       AwsLog!FetchTrails
  <2> QED BY <1>5, <1>u, <2>1 DEF KeepsPromise, Throws, Holds, ReadAs, AwsLog!Verdict,
      AwsLog!NoOpenAuditBuckets, AwsLog!Finding, AwsLog!GatePass, AwsLog!None, AwsLog!Held
<1>6. CASE f = "LogGroupsEncrypted"
  <2>1. /\ Holds(Scan, "logGroups", c, v) /\ Holds(Part("logGroups"), "kmsGroups", c, v)
        /\ (Told(K, v) <=> v.ok.logGroups /\ v.ok.kmsGroups) /\ Uncut(K, c, v)
    BY <1>6 DEF MayHold, Told, Uncut, MayEndEarly, AwsLog!Reads, AwsLog!Of, AwsLog!MlaAla,
       AwsLog!FetchTrails
  <2> QED BY <1>6, <1>u, <2>1 DEF KeepsPromise, Throws, Holds, ReadAs, AwsLog!Verdict,
      AwsLog!LogGroupsEncrypted, AwsLog!Finding, AwsLog!Held
<1>7. CASE f = "FindingsTriaged"
  <2>1. /\ Holds(Skim, "active", c, v) /\ Holds(Part("active"), "notified", c, v)
        /\ (Told(K, v) <=> v.ok.active /\ v.ok.notified)
        /\ (Uncut(K, c, v) <=> (v.ok.active => v.n.active = c.n.active))
    BY <1>7 DEF MayHold, Told, Uncut, MayEndEarly, AwsLog!Reads, AwsLog!Of, AwsLog!MlaEvc
  <2> QED BY <1>7, <1>o, <1>m, <2>1 DEF KeepsPromise, Throws, Holds, ReadAs, AwsLog!Verdict,
      AwsLog!FindingsTriaged, AwsLog!None, AwsLog!Percent, AwsLog!Finding
<1>8. CASE f = "BuildProjectsPresent"
  <2>1. /\ Holds(Whole, "projects", c, v) /\ (Told(K, v) <=> v.ok.projects)
        /\ Uncut(K, c, v)
    BY <1>8 DEF MayHold, Told, Uncut, MayEndEarly, AwsLog!Reads, AwsLog!Of, AwsLog!MlaEvc
  <2> QED BY <1>8, <2>1 DEF KeepsPromise, Throws, Holds, ReadAs, AwsLog!Verdict,
      AwsLog!BuildProjectsPresent, AwsLog!Finding, AwsLog!Held
<1>9. CASE f = "ManagementEventsLogged"
  <2>1. /\ Holds(Whole, "trails", c, v) /\ Holds(Each("trails"), "management", c, v)
        /\ (Told(K, v) <=> v.ok.trails /\ v.ok.management) /\ Uncut(K, c, v)
    BY <1>9 DEF MayHold, Told, Uncut, MayEndEarly, AwsLog!Reads, AwsLog!Of,
       AwsLog!FetchTrails
  <2> QED BY <1>9, <2>1 DEF KeepsPromise, Throws, Holds, ReadAs, AwsLog!Verdict,
      AwsLog!ManagementEventsLogged, AwsLog!Finding, AwsLog!GatePass, AwsLog!Held,
      AwsLog!None
<1>10. CASE f = "DataEventsLogged"
  <2>1. /\ Holds(Whole, "trails", c, v) /\ Holds(Each("trails"), "dataEvents", c, v)
        /\ (Told(K, v) <=> v.ok.trails /\ v.ok.dataEvents) /\ Uncut(K, c, v)
    BY <1>10 DEF MayHold, Told, Uncut, MayEndEarly, AwsLog!Reads, AwsLog!Of,
       AwsLog!FetchTrails
  <2> QED BY <1>10, <2>1 DEF KeepsPromise, Throws, Holds, ReadAs, AwsLog!Verdict,
      AwsLog!DataEventsLogged, AwsLog!Finding, AwsLog!Held
<1>11. CASE f = "SiemExport"
  <2>1. /\ DOMAIN K = {"streams", "siemStreams", "logGroups", "filters", "dataLakes"}
        /\ K.streams = Skim /\ K.siemStreams = Part("streams") /\ K.logGroups = Page
        /\ K.filters = Each("logGroups") /\ K.dataLakes = Whole
    BY <1>11 DEF AwsLog!Reads, AwsLog!Of, AwsLog!MlaOsm
  <2>2. /\ Holds(Skim, "streams", c, v) /\ Holds(Part("streams"), "siemStreams", c, v)
        /\ Holds(Page, "logGroups", c, v) /\ Holds(Each("logGroups"), "filters", c, v)
        /\ Holds(Whole, "dataLakes", c, v)
        /\ (Told(K, v) <=> v.ok.streams /\ v.ok.siemStreams /\ v.ok.logGroups
                        /\ v.ok.filters /\ v.ok.dataLakes)
        /\ (Uncut(K, c, v) <=> (v.ok.streams => v.n.streams = c.n.streams)
                            /\ (v.ok.logGroups => v.n.logGroups = c.n.logGroups))
    BY <2>1 DEF MayHold, Told, Uncut, MayEndEarly
  <2>3. KeepsPromise(<<"awsLog", f>>, K, c, v, AwsLog!SiemExport(v), AwsLog!SiemExport(c))
    BY <1>11, <1>m, <2>2 DEF KeepsPromise, Throws, Holds, ReadAs, AwsLog!SiemExport,
       AwsLog!Finding, AwsLog!Held
  <2> QED BY <1>11, <2>3 DEF AwsLog!Verdict
<1>12. CASE f = "ReviewQueriesSaved"
  <2>1. /\ Holds(Page, "workgroups", c, v)
        /\ Holds(Each("workgroups"), "savedQueries", c, v)
        /\ (Told(K, v) <=> v.ok.workgroups /\ v.ok.savedQueries)
        /\ (Uncut(K, c, v) <=> (v.ok.workgroups => v.n.workgroups = c.n.workgroups))
    BY <1>12 DEF MayHold, Told, Uncut, MayEndEarly, AwsLog!Reads, AwsLog!Of, AwsLog!MlaRvl
  <2> QED BY <1>12, <1>m, <2>1 DEF KeepsPromise, Throws, Holds, ReadAs, AwsLog!Verdict,
      AwsLog!ReviewQueriesSaved, AwsLog!Finding, AwsLog!Held
<1>13. CASE f = "AlertRouting"
  <2>1. /\ Holds(Page, "logGroups", c, v) /\ Holds(Each("logGroups"), "filters", c, v)
        /\ (Told(K, v) <=> v.ok.logGroups /\ v.ok.filters)
        /\ (Uncut(K, c, v) <=> (v.ok.logGroups => v.n.logGroups = c.n.logGroups))
    BY <1>13 DEF MayHold, Told, Uncut, MayEndEarly, AwsLog!Reads, AwsLog!Of, AwsLog!InrRir
  <2> QED BY <1>13, <1>m, <2>1 DEF KeepsPromise, Throws, Holds, ReadAs, AwsLog!Verdict,
      AwsLog!AlertRouting, AwsLog!Finding, AwsLog!Held
<1> QED BY <1>1, <1>2, <1>3, <1>4, <1>5, <1>6, <1>7, <1>8, <1>9, <1>10, <1>11, <1>12, <1>13
    DEF AwsLog!Reads

(* The findings of providers/aws/network.ts.                                  *)
LEMMA AwsNetworkKeepsPromises ==
  ASSUME NEW f \in DOMAIN AwsNet!Reads, NEW c, NEW v, NEW K, K = AwsNet!Reads[f],
         MayHold(K, c, v)
  PROVE  KeepsPromise(<<"awsNet", f>>, K, c, v, AwsNet!Verdict(f, v), AwsNet!Verdict(f, c))
<1>u. \A g \in {"NoPublicLambda"} :
         <<"awsNet", g>> \in Named(UngatedFindings)
  BY InTable DEF UngatedFindings
<1>o. \A g \in {"AllImdsv2", "DefaultSgClosed", "FlowLogsEverywhere", "NoHttpListeners",
              "NoOpenAdminPorts", "NoPublicEks", "NoPublicRds", "StrongTls",
              "ViewersUseHttps"} :
         <<"awsNet", g>> \in Named(OverlookingFindings)
  BY InTable DEF OverlookingFindings
<1>m. \A g \in {"ShieldOrRateRule"} :
         <<"awsNet", g>> \in Named(MissingFindings)
  BY InTable DEF MissingFindings
<1> USE DEF Whole, Scan, Page, Skim, Each, Part, AwsNet!Whole, AwsNet!Scan, AwsNet!Page,
  AwsNet!Skim, AwsNet!Each, AwsNet!Part
<1>1. CASE f = "NoOpenAdminPorts"
  <2>1. /\ Holds(Page, "securityGroups", c, v)
        /\ Holds(Part("securityGroups"), "adminOpen", c, v)
        /\ (Told(K, v) <=> v.ok.securityGroups /\ v.ok.adminOpen)
        /\ (Uncut(K, c, v) <=> (v.ok.securityGroups => v.n.securityGroups = c.n.securityGroups))
    BY <1>1 DEF MayHold, Told, Uncut, MayEndEarly, AwsNet!Reads, AwsNet!Of,
       AwsNet!Ec2Inventory
  <2> QED BY <1>1, <1>o, <2>1 DEF KeepsPromise, Throws, Holds, ReadAs, AwsNet!Verdict,
      AwsNet!NoOpenAdminPorts, AwsNet!Finding, AwsNet!GatePass, AwsNet!None, AwsNet!Held
<1>2. CASE f = "AllImdsv2"
  <2>1. /\ Holds(Page, "instances", c, v) /\ Holds(Part("instances"), "noImdsv2", c, v)
        /\ (Told(K, v) <=> v.ok.instances /\ v.ok.noImdsv2)
        /\ (Uncut(K, c, v) <=> (v.ok.instances => v.n.instances = c.n.instances))
    BY <1>2 DEF MayHold, Told, Uncut, MayEndEarly, AwsNet!Reads, AwsNet!Of,
       AwsNet!Ec2Inventory
  <2> QED BY <1>2, <1>o, <2>1 DEF KeepsPromise, Throws, Holds, ReadAs, AwsNet!Verdict,
      AwsNet!AllImdsv2, AwsNet!Finding, AwsNet!GatePass, AwsNet!None, AwsNet!Held
<1>3. CASE f = "NoPublicBuckets"
  <2>1. /\ Holds(Whole, "buckets", c, v) /\ Holds(Each("buckets"), "publicBuckets", c, v)
        /\ (Told(K, v) <=> v.ok.buckets /\ v.ok.publicBuckets) /\ Uncut(K, c, v)
    BY <1>3 DEF MayHold, Told, Uncut, MayEndEarly, AwsNet!Reads, AwsNet!Of,
       AwsNet!Ec2Inventory
  <2> QED BY <1>3, <2>1 DEF KeepsPromise, Throws, Holds, ReadAs, AwsNet!Verdict,
      AwsNet!NoPublicBuckets, AwsNet!Finding, AwsNet!GatePass, AwsNet!None, AwsNet!Held
<1>4. CASE f = "NoPublicLambda"
  <2>1. /\ Holds(Scan, "functions", c, v)
        /\ Holds(Each("functions"), "publicFunctions", c, v)
        /\ (Told(K, v) <=> v.ok.functions /\ v.ok.publicFunctions) /\ Uncut(K, c, v)
    BY <1>4 DEF MayHold, Told, Uncut, MayEndEarly, AwsNet!Reads, AwsNet!Of,
       AwsNet!ServiceInventory
  <2> QED BY <1>4, <1>u, <2>1 DEF KeepsPromise, Throws, Holds, ReadAs, AwsNet!Verdict,
      AwsNet!NoPublicLambda, AwsNet!Finding, AwsNet!GatePass, AwsNet!None, AwsNet!Held
<1>5. CASE f = "NoPublicRds"
  <2>1. /\ Holds(Skim, "rds", c, v) /\ Holds(Part("rds"), "publicRds", c, v)
        /\ (Told(K, v) <=> v.ok.rds /\ v.ok.publicRds)
        /\ (Uncut(K, c, v) <=> (v.ok.rds => v.n.rds = c.n.rds))
    BY <1>5 DEF MayHold, Told, Uncut, MayEndEarly, AwsNet!Reads, AwsNet!Of,
       AwsNet!ServiceInventory
  <2> QED BY <1>5, <1>o, <2>1 DEF KeepsPromise, Throws, Holds, ReadAs, AwsNet!Verdict,
      AwsNet!NoPublicRds, AwsNet!Finding, AwsNet!GatePass, AwsNet!None, AwsNet!Held
<1>6. CASE f = "NoPublicEks"
  <2>1. /\ Holds(Skim, "eks", c, v) /\ Holds(Part("eks"), "publicEks", c, v)
        /\ (Told(K, v) <=> v.ok.eks /\ v.ok.publicEks)
        /\ (Uncut(K, c, v) <=> (v.ok.eks => v.n.eks = c.n.eks))
    BY <1>6 DEF MayHold, Told, Uncut, MayEndEarly, AwsNet!Reads, AwsNet!Of,
       AwsNet!ServiceInventory
  <2> QED BY <1>6, <1>o, <2>1 DEF KeepsPromise, Throws, Holds, ReadAs, AwsNet!Verdict,
      AwsNet!NoPublicEks, AwsNet!Finding, AwsNet!GatePass, AwsNet!None, AwsNet!Held
<1>7. CASE f = "DefaultSgClosed"
  <2>1. /\ Holds(Page, "securityGroups", c, v)
        /\ Holds(Part("securityGroups"), "defaultEgress", c, v)
        /\ (Told(K, v) <=> v.ok.securityGroups /\ v.ok.defaultEgress)
        /\ (Uncut(K, c, v) <=> (v.ok.securityGroups => v.n.securityGroups = c.n.securityGroups))
    BY <1>7 DEF MayHold, Told, Uncut, MayEndEarly, AwsNet!Reads, AwsNet!Of,
       AwsNet!Ec2Inventory
  <2> QED BY <1>7, <1>o, <2>1 DEF KeepsPromise, Throws, Holds, ReadAs, AwsNet!Verdict,
      AwsNet!DefaultSgClosed, AwsNet!Finding, AwsNet!GatePass, AwsNet!None, AwsNet!Held
<1>8. CASE f = "FirewallPresent"
  <2>1. /\ Holds(Page, "firewalls", c, v) /\ (Told(K, v) <=> v.ok.firewalls)
        /\ (Uncut(K, c, v) <=> (v.ok.firewalls => v.n.firewalls = c.n.firewalls))
    BY <1>8 DEF MayHold, Told, Uncut, MayEndEarly, AwsNet!Reads, AwsNet!Of,
       AwsNet!ServiceInventory
  <2> QED BY <1>8, <2>1 DEF KeepsPromise, Throws, Holds, ReadAs, AwsNet!Verdict,
      AwsNet!FirewallPresent, AwsNet!Finding, AwsNet!Held
<1>9. CASE f = "FlowLogsEverywhere"
  <2>1. /\ Holds(Page, "vpcs", c, v) /\ Holds(Each("vpcs"), "logged", c, v)
        /\ (Told(K, v) <=> v.ok.vpcs /\ v.ok.logged)
        /\ (Uncut(K, c, v) <=> (v.ok.vpcs => v.n.vpcs = c.n.vpcs))
    BY <1>9 DEF MayHold, Told, Uncut, MayEndEarly, AwsNet!Reads, AwsNet!Of,
       AwsNet!Ec2Inventory
  <2> QED BY <1>9, <1>o, <2>1 DEF KeepsPromise, Throws, Holds, ReadAs, AwsNet!Verdict,
      AwsNet!FlowLogsEverywhere, AwsNet!Finding, AwsNet!GatePass
<1>10. CASE f = "VpcPresent"
  <2>1. /\ Holds(Page, "vpcs", c, v) /\ (Told(K, v) <=> v.ok.vpcs)
        /\ (Uncut(K, c, v) <=> (v.ok.vpcs => v.n.vpcs = c.n.vpcs))
    BY <1>10 DEF MayHold, Told, Uncut, MayEndEarly, AwsNet!Reads, AwsNet!Of,
       AwsNet!Ec2Inventory
  <2> QED BY <1>10, <2>1 DEF KeepsPromise, Throws, Holds, ReadAs, AwsNet!Verdict,
      AwsNet!VpcPresent, AwsNet!Finding, AwsNet!Held
<1>11. CASE f = "EndpointsPresent"
  <2>1. /\ Holds(Page, "allEndpoints", c, v) /\ (Told(K, v) <=> v.ok.allEndpoints)
        /\ (Uncut(K, c, v) <=> (v.ok.allEndpoints => v.n.allEndpoints = c.n.allEndpoints))
    BY <1>11 DEF MayHold, Told, Uncut, MayEndEarly, AwsNet!Reads, AwsNet!Of,
       AwsNet!Ec2Inventory
  <2> QED BY <1>11, <2>1 DEF KeepsPromise, Throws, Holds, ReadAs, AwsNet!Verdict,
      AwsNet!EndpointsPresent, AwsNet!Finding, AwsNet!Held, AwsNet!None
<1>12. CASE f = "ShieldOrRateRule"
  <2>1. /\ Holds(Page, "wafs", c, v) /\ Holds(Each("wafs"), "rateWafs", c, v)
        /\ Holds(Whole, "shield", c, v)
        /\ (Told(K, v) <=> v.ok.wafs /\ v.ok.rateWafs /\ v.ok.shield)
        /\ (Uncut(K, c, v) <=> (v.ok.wafs => v.n.wafs = c.n.wafs))
    BY <1>12 DEF MayHold, Told, Uncut, MayEndEarly, AwsNet!Reads, AwsNet!Of,
       AwsNet!ServiceInventory
  <2> QED BY <1>12, <1>m, <2>1 DEF KeepsPromise, Throws, Holds, ReadAs, AwsNet!Verdict,
      AwsNet!ShieldOrRateRule, AwsNet!Finding, AwsNet!Held
<1>13. CASE f = "NoHttpListeners"
  <2>1. /\ Holds(Page, "loadBalancers", c, v)
        /\ Holds(Each("loadBalancers"), "httpListeners", c, v)
        /\ (Told(K, v) <=> v.ok.loadBalancers /\ v.ok.httpListeners)
        /\ (Uncut(K, c, v) <=> (v.ok.loadBalancers => v.n.loadBalancers = c.n.loadBalancers))
    BY <1>13 DEF MayHold, Told, Uncut, MayEndEarly, AwsNet!Reads, AwsNet!Of, AwsNet!SvcSnt,
       AwsNet!Ec2Inventory
  <2> QED BY <1>13, <1>o, <2>1 DEF KeepsPromise, Throws, Holds, ReadAs, AwsNet!Verdict,
      AwsNet!NoHttpListeners, AwsNet!Finding, AwsNet!None, AwsNet!Held
<1>14. CASE f = "StrongTls"
  <2>1. /\ Holds(Page, "loadBalancers", c, v)
        /\ Holds(Each("loadBalancers"), "weakTls", c, v)
        /\ (Told(K, v) <=> v.ok.loadBalancers /\ v.ok.weakTls)
        /\ (Uncut(K, c, v) <=> (v.ok.loadBalancers => v.n.loadBalancers = c.n.loadBalancers))
    BY <1>14 DEF MayHold, Told, Uncut, MayEndEarly, AwsNet!Reads, AwsNet!Of, AwsNet!SvcSnt,
       AwsNet!Ec2Inventory
  <2> QED BY <1>14, <1>o, <2>1 DEF KeepsPromise, Throws, Holds, ReadAs, AwsNet!Verdict,
      AwsNet!StrongTls, AwsNet!Finding, AwsNet!None, AwsNet!Held
<1>15. CASE f = "ViewersUseHttps"
  <2>1. /\ Holds(Page, "distributions", c, v)
        /\ Holds(Each("distributions"), "plainDistributions", c, v)
        /\ (Told(K, v) <=> v.ok.distributions /\ v.ok.plainDistributions)
        /\ (Uncut(K, c, v) <=> (v.ok.distributions => v.n.distributions = c.n.distributions))
    BY <1>15 DEF MayHold, Told, Uncut, MayEndEarly, AwsNet!Reads, AwsNet!Of, AwsNet!SvcSnt,
       AwsNet!Ec2Inventory
  <2> QED BY <1>15, <1>o, <2>1 DEF KeepsPromise, Throws, Holds, ReadAs, AwsNet!Verdict,
      AwsNet!ViewersUseHttps, AwsNet!Finding, AwsNet!None
<1> QED BY <1>1, <1>2, <1>3, <1>4, <1>5, <1>6, <1>7, <1>8, <1>9, <1>10, <1>11, <1>12, <1>13,
    <1>14, <1>15 DEF AwsNet!Reads

(* The findings of providers/aws/config.ts, backup.ts and the others.         *)
LEMMA AwsPlatformKeepsPromises ==
  ASSUME NEW f \in DOMAIN AwsPlat!Reads, NEW c, NEW v, NEW K, K = AwsPlat!Reads[f],
         MayHold(K, c, v)
  PROVE  KeepsPromise(<<"awsPlat", f>>, K, c, v,
                      AwsPlat!Verdict(f, v), AwsPlat!Verdict(f, c))
<1>u. \A g \in {"AgencyCryptoDefaults", "FunctionUrlsUseIam", "ValidatedModules"} :
         <<"awsPlat", g>> \in Named(UngatedFindings)
  BY InTable DEF UngatedFindings
<1>o. \A g \in {"AgencyCryptoDefaults", "BackupsSucceed", "BalancersMultiAz", "CodeSigned",
              "FindingsImproving", "FunctionUrlsUseIam", "GroupsMultiAz", "InstancesImdsv2",
              "MeshMtlsStrict", "NoStackDrift", "PacksCompliant", "RdsMultiAz",
              "RdsRetention", "StacksWithoutDrift", "TablesHavePitr", "ValidatedModules"} :
         <<"awsPlat", g>> \in Named(OverlookingFindings)
  BY InTable DEF OverlookingFindings
<1>m. \A g \in {"AutoRemediation", "CodeSigned", "FindingsImproving", "RestoreTested",
              "StandardsEnabled"} :
         <<"awsPlat", g>> \in Named(MissingFindings)
  BY InTable DEF MissingFindings
<1> USE DEF Given, Whole, Page, Skim, Each, Part, AwsPlat!Given, AwsPlat!Whole,
  AwsPlat!Page, AwsPlat!Skim, AwsPlat!Each, AwsPlat!Part
<1>1. CASE f = "RecorderHealthy"
  <2>1. /\ Holds(Whole, "recorder", c, v) /\ (Told(K, v) <=> v.ok.recorder)
        /\ Uncut(K, c, v)
    BY <1>1 DEF MayHold, Told, Uncut, MayEndEarly, AwsPlat!Reads, AwsPlat!Of, AwsPlat!CnaEis
  <2> QED BY <1>1, <2>1 DEF KeepsPromise, Throws, Holds, ReadAs, AwsPlat!Verdict,
      AwsPlat!RecorderHealthy, AwsPlat!Finding, AwsPlat!Held
<1>2. CASE f = "PacksCompliant"
  <2>1. /\ Holds(Page, "packs", c, v) /\ Holds(Each("packs"), "failingPacks", c, v)
        /\ (Told(K, v) <=> v.ok.packs /\ v.ok.failingPacks)
        /\ (Uncut(K, c, v) <=> (v.ok.packs => v.n.packs = c.n.packs))
    BY <1>2 DEF MayHold, Told, Uncut, MayEndEarly, AwsPlat!Reads, AwsPlat!Of, AwsPlat!CnaEis
  <2> QED BY <1>2, <1>o, <2>1 DEF KeepsPromise, Throws, Holds, ReadAs, AwsPlat!Verdict,
      AwsPlat!PacksCompliant, AwsPlat!Held, AwsPlat!None, AwsPlat!Finding
<1>3. CASE f = "AutoRemediation"
  <2>1. /\ Holds(Page, "configRules", c, v)
        /\ Holds(Each("configRules"), "remediations", c, v)
        /\ (Told(K, v) <=> v.ok.configRules /\ v.ok.remediations)
        /\ (Uncut(K, c, v) <=> (v.ok.configRules => v.n.configRules = c.n.configRules))
    BY <1>3 DEF MayHold, Told, Uncut, MayEndEarly, AwsPlat!Reads, AwsPlat!Of, AwsPlat!CnaEis
  <2> QED BY <1>3, <1>m, <2>1 DEF KeepsPromise, Throws, Holds, ReadAs, AwsPlat!Verdict,
      AwsPlat!AutoRemediation, AwsPlat!Finding, AwsPlat!Held
<1>4. CASE f = "NoStackDrift"
  <2>1. /\ Holds(Page, "stacks", c, v) /\ Holds(Part("stacks"), "drifted", c, v)
        /\ (Told(K, v) <=> v.ok.stacks /\ v.ok.drifted)
        /\ (Uncut(K, c, v) <=> (v.ok.stacks => v.n.stacks = c.n.stacks))
    BY <1>4 DEF MayHold, Told, Uncut, MayEndEarly, AwsPlat!Reads, AwsPlat!Of, AwsPlat!CnaEis
  <2> QED BY <1>4, <1>o, <2>1 DEF KeepsPromise, Throws, Holds, ReadAs, AwsPlat!Verdict,
      AwsPlat!NoStackDrift, AwsPlat!Finding, AwsPlat!None, AwsPlat!Held
<1>5. CASE f = "StandardsEnabled"
  <2>1. /\ Holds(Page, "standards", c, v)
        /\ Holds(Part("standards"), "bothStandards", c, v)
        /\ (Told(K, v) <=> v.ok.standards /\ v.ok.bothStandards)
        /\ (Uncut(K, c, v) <=> (v.ok.standards => v.n.standards = c.n.standards))
    BY <1>5 DEF MayHold, Told, Uncut, MayEndEarly, AwsPlat!Reads, AwsPlat!Of, AwsPlat!CnaIbp
  <2> QED BY <1>5, <1>m, <2>1 DEF KeepsPromise, Throws, Holds, ReadAs, AwsPlat!Verdict,
      AwsPlat!StandardsEnabled, AwsPlat!Finding, AwsPlat!Held
<1>6. CASE f = "NoCriticalFindings"
  <2>1. /\ Holds(Skim, "critical", c, v) /\ (Told(K, v) <=> v.ok.critical)
        /\ (Uncut(K, c, v) <=> (v.ok.critical => v.n.critical = c.n.critical))
    BY <1>6 DEF MayHold, Told, Uncut, MayEndEarly, AwsPlat!Reads, AwsPlat!Of, AwsPlat!CnaIbp
  <2> QED BY <1>6, <2>1 DEF KeepsPromise, Throws, Holds, ReadAs, AwsPlat!Verdict,
      AwsPlat!NoCriticalFindings, AwsPlat!Finding, AwsPlat!None, AwsPlat!Held
<1>7. CASE f = "IacInUse"
  <2>1. /\ Holds(Page, "stacks", c, v) /\ Holds(Page, "configRules", c, v)
        /\ (Told(K, v) <=> v.ok.stacks /\ v.ok.configRules)
        /\ (Uncut(K, c, v) <=> (v.ok.stacks => v.n.stacks = c.n.stacks)
                            /\ (v.ok.configRules => v.n.configRules = c.n.configRules))
    BY <1>7 DEF MayHold, Told, Uncut, MayEndEarly, AwsPlat!Reads, AwsPlat!Of, AwsPlat!SvcAcm
  <2> QED BY <1>7, <2>1 DEF KeepsPromise, Throws, Holds, ReadAs, AwsPlat!Verdict,
      AwsPlat!IacInUse, AwsPlat!Finding, AwsPlat!Held
<1>8. CASE f = "StacksWithoutDrift"
  <2>1. /\ Holds(Page, "stacks", c, v) /\ Holds(Part("stacks"), "drifted", c, v)
        /\ (Told(K, v) <=> v.ok.stacks /\ v.ok.drifted)
        /\ (Uncut(K, c, v) <=> (v.ok.stacks => v.n.stacks = c.n.stacks))
    BY <1>8 DEF MayHold, Told, Uncut, MayEndEarly, AwsPlat!Reads, AwsPlat!Of, AwsPlat!SvcAcm
  <2> QED BY <1>8, <1>o, <2>1 DEF KeepsPromise, Throws, Holds, ReadAs, AwsPlat!Verdict,
      AwsPlat!StacksWithoutDrift, AwsPlat!None, AwsPlat!Finding
<1>9. CASE f = "FindingsImproving"
  <2>1. /\ Holds(Skim, "lifecycle", c, v) /\ Holds(Part("lifecycle"), "resolved", c, v)
        /\ (Told(K, v) <=> v.ok.lifecycle /\ v.ok.resolved)
        /\ (Uncut(K, c, v) <=> (v.ok.lifecycle => v.n.lifecycle = c.n.lifecycle))
    BY <1>9 DEF MayHold, Told, Uncut, MayEndEarly, AwsPlat!Reads, AwsPlat!Of, AwsPlat!SvcEis
  <2> QED BY <1>9, <1>o, <1>m, <2>1 DEF KeepsPromise, Throws, Holds, ReadAs,
      AwsPlat!Verdict, AwsPlat!FindingsImproving, AwsPlat!None, AwsPlat!Finding
<1>10. CASE f = "GroupsMultiAz"
  <2>1. /\ Holds(Page, "groups", c, v) /\ Holds(Part("groups"), "singleAzGroups", c, v)
        /\ (Told(K, v) <=> v.ok.groups /\ v.ok.singleAzGroups)
        /\ (Uncut(K, c, v) <=> (v.ok.groups => v.n.groups = c.n.groups))
    BY <1>10 DEF MayHold, Told, Uncut, MayEndEarly, AwsPlat!Reads, AwsPlat!Of,
       AwsPlat!CnaOfa
  <2> QED BY <1>10, <1>o, <2>1 DEF KeepsPromise, Throws, Holds, ReadAs, AwsPlat!Verdict,
      AwsPlat!GroupsMultiAz, AwsPlat!Finding, AwsPlat!None, AwsPlat!Held
<1>11. CASE f = "BalancersMultiAz"
  <2>1. /\ Holds(Page, "balancers", c, v)
        /\ Holds(Part("balancers"), "singleAzBalancers", c, v)
        /\ (Told(K, v) <=> v.ok.balancers /\ v.ok.singleAzBalancers)
        /\ (Uncut(K, c, v) <=> (v.ok.balancers => v.n.balancers = c.n.balancers))
    BY <1>11 DEF MayHold, Told, Uncut, MayEndEarly, AwsPlat!Reads, AwsPlat!Of,
       AwsPlat!CnaOfa
  <2> QED BY <1>11, <1>o, <2>1 DEF KeepsPromise, Throws, Holds, ReadAs, AwsPlat!Verdict,
      AwsPlat!BalancersMultiAz, AwsPlat!Finding, AwsPlat!None, AwsPlat!Held
<1>12. CASE f = "RdsMultiAz"
  <2>1. /\ Holds(Skim, "rds", c, v) /\ Holds(Part("rds"), "singleAzRds", c, v)
        /\ (Told(K, v) <=> v.ok.rds /\ v.ok.singleAzRds)
        /\ (Uncut(K, c, v) <=> (v.ok.rds => v.n.rds = c.n.rds))
    BY <1>12 DEF MayHold, Told, Uncut, MayEndEarly, AwsPlat!Reads, AwsPlat!Of,
       AwsPlat!CnaOfa
  <2> QED BY <1>12, <1>o, <2>1 DEF KeepsPromise, Throws, Holds, ReadAs, AwsPlat!Verdict,
      AwsPlat!RdsMultiAz, AwsPlat!Finding, AwsPlat!None, AwsPlat!Held
<1>13. CASE f = "TablesListed"
  <2>1. Told(K, v) /\ Uncut(K, c, v)
    BY <1>13 DEF MayHold, Told, Uncut, MayEndEarly, AwsPlat!Reads, AwsPlat!Of,
       AwsPlat!CnaOfa
  <2> QED BY <1>13, <2>1 DEF KeepsPromise, Throws, Holds, ReadAs, AwsPlat!Verdict,
      AwsPlat!TablesListed, AwsPlat!Finding
<1>14. CASE f = "BackupsSucceed"
  <2>1. /\ Holds(Page, "plans", c, v) /\ Holds(Page, "jobs", c, v)
        /\ Holds(Part("jobs"), "failedJobs", c, v)
        /\ (Told(K, v) <=> v.ok.plans /\ v.ok.jobs /\ v.ok.failedJobs)
        /\ (Uncut(K, c, v) <=> (v.ok.plans => v.n.plans = c.n.plans)
                            /\ (v.ok.jobs => v.n.jobs = c.n.jobs))
    BY <1>14 DEF MayHold, Told, Uncut, MayEndEarly, AwsPlat!Reads, AwsPlat!Of,
       AwsPlat!RplAbo
  <2> QED BY <1>14, <1>o, <2>1 DEF KeepsPromise, Throws, Holds, ReadAs, AwsPlat!Verdict,
      AwsPlat!BackupsSucceed, AwsPlat!Held, AwsPlat!None, AwsPlat!Finding
<1>15. CASE f = "RdsRetention"
  <2>1. /\ Holds(Page, "rds", c, v) /\ Holds(Part("rds"), "shortRetention", c, v)
        /\ (Told(K, v) <=> v.ok.rds /\ v.ok.shortRetention)
        /\ (Uncut(K, c, v) <=> (v.ok.rds => v.n.rds = c.n.rds))
    BY <1>15 DEF MayHold, Told, Uncut, MayEndEarly, AwsPlat!Reads, AwsPlat!Of,
       AwsPlat!RplAbo
  <2> QED BY <1>15, <1>o, <2>1 DEF KeepsPromise, Throws, Holds, ReadAs, AwsPlat!Verdict,
      AwsPlat!RdsRetention, AwsPlat!Finding, AwsPlat!None, AwsPlat!Held
<1>16. CASE f = "TablesHavePitr"
  <2>1. /\ Holds(Page, "tables", c, v) /\ Holds(Each("tables"), "noPitr", c, v)
        /\ (Told(K, v) <=> v.ok.tables /\ v.ok.noPitr)
        /\ (Uncut(K, c, v) <=> (v.ok.tables => v.n.tables = c.n.tables))
    BY <1>16 DEF MayHold, Told, Uncut, MayEndEarly, AwsPlat!Reads, AwsPlat!Of,
       AwsPlat!RplAbo
  <2> QED BY <1>16, <1>o, <2>1 DEF KeepsPromise, Throws, Holds, ReadAs, AwsPlat!Verdict,
      AwsPlat!TablesHavePitr, AwsPlat!Finding, AwsPlat!None, AwsPlat!Held
<1>17. CASE f = "RestoreTested"
  <2>1. /\ Holds(Page, "restores", c, v) /\ Holds(Part("restores"), "completed", c, v)
        /\ (Told(K, v) <=> v.ok.restores /\ v.ok.completed)
        /\ (Uncut(K, c, v) <=> (v.ok.restores => v.n.restores = c.n.restores))
    BY <1>17 DEF MayHold, Told, Uncut, MayEndEarly, AwsPlat!Reads, AwsPlat!Of,
       AwsPlat!RplTrc
  <2> QED BY <1>17, <1>m, <2>1 DEF KeepsPromise, Throws, Holds, ReadAs, AwsPlat!Verdict,
      AwsPlat!RestoreTested, AwsPlat!Finding, AwsPlat!Held
<1>18. CASE f = "BucketsExpire"
  <2>1. /\ Holds(Whole, "buckets", c, v) /\ Holds(Each("buckets"), "expiring", c, v)
        /\ (Told(K, v) <=> v.ok.buckets /\ v.ok.expiring) /\ Uncut(K, c, v)
    BY <1>18 DEF MayHold, Told, Uncut, MayEndEarly, AwsPlat!Reads, AwsPlat!Of,
       AwsPlat!SvcRud
  <2> QED BY <1>18, <2>1 DEF KeepsPromise, Throws, Holds, ReadAs, AwsPlat!Verdict,
      AwsPlat!BucketsExpire, AwsPlat!Finding
<1>19. CASE f = "KeyDeletion"
  <2>1. Told(K, v) /\ Uncut(K, c, v)
    BY <1>19 DEF MayHold, Told, Uncut, MayEndEarly, AwsPlat!Reads, AwsPlat!Of,
       AwsPlat!SvcRud
  <2> QED BY <1>19, <2>1 DEF KeepsPromise, Throws, Holds, ReadAs, AwsPlat!Verdict,
      AwsPlat!KeyDeletion, AwsPlat!Finding
<1>20. CASE f = "MeshMtlsStrict"
  <2>1. /\ Holds(Skim, "nodes", c, v) /\ Holds(Part("nodes"), "looseNodes", c, v)
        /\ (Told(K, v) <=> v.ok.nodes /\ v.ok.looseNodes)
        /\ (Uncut(K, c, v) <=> (v.ok.nodes => v.n.nodes = c.n.nodes))
    BY <1>20 DEF MayHold, Told, Uncut, MayEndEarly, AwsPlat!Reads, AwsPlat!Of,
       AwsPlat!SvcVcm
  <2> QED BY <1>20, <1>o, <2>1 DEF KeepsPromise, Throws, Holds, ReadAs, AwsPlat!Verdict,
      AwsPlat!MeshMtlsStrict, AwsPlat!Finding, AwsPlat!None
<1>21. CASE f = "FunctionUrlsUseIam"
  <2>1. /\ Holds(Skim, "functions", c, v) /\ Holds(Each("functions"), "openUrls", c, v)
        /\ (Told(K, v) <=> v.ok.functions /\ v.ok.openUrls)
        /\ (Uncut(K, c, v) <=> (v.ok.functions => v.n.functions = c.n.functions))
    BY <1>21 DEF MayHold, Told, Uncut, MayEndEarly, AwsPlat!Reads, AwsPlat!Of,
       AwsPlat!SvcVcm
  <2> QED BY <1>21, <1>u, <1>o, <2>1 DEF KeepsPromise, Throws, Holds, ReadAs,
      AwsPlat!Verdict, AwsPlat!FunctionUrlsUseIam, AwsPlat!Finding, AwsPlat!None,
      AwsPlat!Held
<1>22. CASE f = "SigningProfiles"
  <2>1. /\ Holds(Page, "profiles", c, v) /\ (Told(K, v) <=> v.ok.profiles)
        /\ (Uncut(K, c, v) <=> (v.ok.profiles => v.n.profiles = c.n.profiles))
    BY <1>22 DEF MayHold, Told, Uncut, MayEndEarly, AwsPlat!Reads, AwsPlat!Of,
       AwsPlat!SvcVri
  <2> QED BY <1>22, <2>1 DEF KeepsPromise, Throws, Holds, ReadAs, AwsPlat!Verdict,
      AwsPlat!SigningProfiles, AwsPlat!Finding, AwsPlat!Held
<1>23. CASE f = "CodeSigned"
  <2>1. /\ Holds(Skim, "functions", c, v) /\ Holds(Each("functions"), "signed", c, v)
        /\ (Told(K, v) <=> v.ok.functions /\ v.ok.signed)
        /\ (Uncut(K, c, v) <=> (v.ok.functions => v.n.functions = c.n.functions))
    BY <1>23 DEF MayHold, Told, Uncut, MayEndEarly, AwsPlat!Reads, AwsPlat!Of,
       AwsPlat!SvcVri
  <2> QED BY <1>23, <1>o, <1>m, <2>1 DEF KeepsPromise, Throws, Holds, ReadAs,
      AwsPlat!Verdict, AwsPlat!CodeSigned, AwsPlat!None, AwsPlat!Finding
<1>24. CASE f = "PatchBaselines"
  <2>1. /\ Holds(Page, "baselines", c, v) /\ (Told(K, v) <=> v.ok.baselines)
        /\ (Uncut(K, c, v) <=> (v.ok.baselines => v.n.baselines = c.n.baselines))
    BY <1>24 DEF MayHold, Told, Uncut, MayEndEarly, AwsPlat!Reads, AwsPlat!Of,
       AwsPlat!SvcVri
  <2> QED BY <1>24, <2>1 DEF KeepsPromise, Throws, Holds, ReadAs, AwsPlat!Verdict,
      AwsPlat!PatchBaselines, AwsPlat!Finding, AwsPlat!Held
<1>25. CASE f = "InstancesImdsv2"
  <2>1. /\ Holds(Page, "instances", c, v) /\ Holds(Part("instances"), "noImdsv2", c, v)
        /\ (Told(K, v) <=> v.ok.instances /\ v.ok.noImdsv2)
        /\ (Uncut(K, c, v) <=> (v.ok.instances => v.n.instances = c.n.instances))
    BY <1>25 DEF MayHold, Told, Uncut, MayEndEarly, AwsPlat!Reads, AwsPlat!Of,
       AwsPlat!SvcVri
  <2> QED BY <1>25, <1>o, <2>1 DEF KeepsPromise, Throws, Holds, ReadAs, AwsPlat!Verdict,
      AwsPlat!InstancesImdsv2, AwsPlat!Finding, AwsPlat!None, AwsPlat!Held
<1>26. CASE f = "CryptoInventoryBuilt"
  <2>1. /\ Holds(Skim, "keys", c, v) /\ Holds(Skim, "certs", c, v)
        /\ Holds(Skim, "balancers", c, v) /\ Holds(Skim, "distributions", c, v)
        /\ (Told(K, v) <=> v.ok.keys /\ v.ok.certs /\ v.ok.balancers /\ v.ok.distributions)
        /\ (Uncut(K, c, v) <=> (v.ok.keys => v.n.keys = c.n.keys)
                            /\ (v.ok.certs => v.n.certs = c.n.certs)
                            /\ (v.ok.balancers => v.n.balancers = c.n.balancers)
                            /\ (v.ok.distributions => v.n.distributions = c.n.distributions))
    BY <1>26 DEF MayHold, Told, Uncut, MayEndEarly, AwsPlat!Reads, AwsPlat!Of, AwsPlat!Ucm,
       AwsPlat!UcmKeys, AwsPlat!UcmTransport
  <2> QED BY <1>26, <2>1 DEF KeepsPromise, Throws, Holds, ReadAs, AwsPlat!Verdict,
      AwsPlat!CryptoInventoryBuilt, AwsPlat!Finding, AwsPlat!Held
<1>27. CASE f = "AgencyCryptoDefaults"
  <2>1. /\ DOMAIN K = {"keys", "externalKeys", "certs", "weakCerts", "sslPolicies",
                        "fipsPolicy", "balancers", "plainListeners"}
        /\ K.keys = Skim /\ K.externalKeys = Each("keys") /\ K.certs = Skim
        /\ K.weakCerts = Each("certs") /\ K.sslPolicies = Page
        /\ K.fipsPolicy = Part("sslPolicies") /\ K.balancers = Skim
        /\ K.plainListeners = Each("balancers")
    BY <1>27 DEF AwsPlat!Reads, AwsPlat!Of, AwsPlat!Ucm, AwsPlat!UcmKeys,
       AwsPlat!UcmTransport
  <2>2. /\ Holds(Skim, "keys", c, v) /\ Holds(Each("keys"), "externalKeys", c, v)
        /\ Holds(Skim, "certs", c, v) /\ Holds(Each("certs"), "weakCerts", c, v)
        /\ Holds(Page, "sslPolicies", c, v)
        /\ Holds(Part("sslPolicies"), "fipsPolicy", c, v)
        /\ Holds(Skim, "balancers", c, v)
        /\ Holds(Each("balancers"), "plainListeners", c, v)
        /\ (Told(K, v) <=> v.ok.keys /\ v.ok.externalKeys /\ v.ok.certs /\ v.ok.weakCerts
                        /\ v.ok.sslPolicies /\ v.ok.fipsPolicy /\ v.ok.balancers
                        /\ v.ok.plainListeners)
        /\ (Uncut(K, c, v) <=> (v.ok.keys => v.n.keys = c.n.keys)
                            /\ (v.ok.certs => v.n.certs = c.n.certs)
                            /\ (v.ok.sslPolicies => v.n.sslPolicies = c.n.sslPolicies)
                            /\ (v.ok.balancers => v.n.balancers = c.n.balancers))
    BY <2>1 DEF MayHold, Told, Uncut, MayEndEarly
  <2>3. KeepsPromise(<<"awsPlat", f>>, K, c, v,
                     AwsPlat!AgencyCryptoDefaults(v), AwsPlat!AgencyCryptoDefaults(c))
    BY <1>27, <1>u, <1>o, <2>2 DEF KeepsPromise, Throws, Holds, ReadAs,
       AwsPlat!AgencyCryptoDefaults, AwsPlat!Complete, AwsPlat!NonFips, AwsPlat!Finding,
       AwsPlat!None, AwsPlat!Held
  <2> QED BY <1>27, <2>3 DEF AwsPlat!Verdict
<1>28. CASE f = "ValidatedModules"
  <2>1. /\ DOMAIN K = {"impact", "keys", "externalKeys", "certs", "weakCerts", "sslPolicies",
                        "fipsPolicy", "balancers", "plainListeners"}
        /\ K.impact = Given /\ K.keys = Skim /\ K.externalKeys = Each("keys")
        /\ K.certs = Skim /\ K.weakCerts = Each("certs") /\ K.sslPolicies = Page
        /\ K.fipsPolicy = Part("sslPolicies") /\ K.balancers = Skim
        /\ K.plainListeners = Each("balancers")
    BY <1>28 DEF AwsPlat!Reads, AwsPlat!Of, AwsPlat!Ucm, AwsPlat!UcmKeys,
       AwsPlat!UcmTransport
  <2>2. /\ Holds(Given, "impact", c, v) /\ Holds(Skim, "keys", c, v)
        /\ Holds(Each("keys"), "externalKeys", c, v) /\ Holds(Skim, "certs", c, v)
        /\ Holds(Each("certs"), "weakCerts", c, v) /\ Holds(Page, "sslPolicies", c, v)
        /\ Holds(Part("sslPolicies"), "fipsPolicy", c, v)
        /\ Holds(Skim, "balancers", c, v)
        /\ Holds(Each("balancers"), "plainListeners", c, v)
        /\ (Told(K, v) <=> v.ok.impact /\ v.ok.keys /\ v.ok.externalKeys /\ v.ok.certs
                        /\ v.ok.weakCerts /\ v.ok.sslPolicies /\ v.ok.fipsPolicy
                        /\ v.ok.balancers /\ v.ok.plainListeners)
        /\ (Uncut(K, c, v) <=> (v.ok.keys => v.n.keys = c.n.keys)
                            /\ (v.ok.certs => v.n.certs = c.n.certs)
                            /\ (v.ok.sslPolicies => v.n.sslPolicies = c.n.sslPolicies)
                            /\ (v.ok.balancers => v.n.balancers = c.n.balancers))
    BY <2>1 DEF MayHold, Told, Uncut, MayEndEarly
  <2>3. KeepsPromise(<<"awsPlat", f>>, K, c, v,
                     AwsPlat!ValidatedModules(v), AwsPlat!ValidatedModules(c))
    BY <1>28, <1>u, <1>o, <2>2 DEF KeepsPromise, Throws, Holds, ReadAs,
       AwsPlat!ValidatedModules, AwsPlat!Complete, AwsPlat!NonFips, AwsPlat!Finding,
       AwsPlat!None, AwsPlat!Held
  <2> QED BY <1>28, <2>3 DEF AwsPlat!Verdict
<1> QED BY <1>1, <1>2, <1>3, <1>4, <1>5, <1>6, <1>7, <1>8, <1>9, <1>10, <1>11, <1>12, <1>13,
    <1>14, <1>15, <1>16, <1>17, <1>18, <1>19, <1>20, <1>21, <1>22, <1>23, <1>24, <1>25,
    <1>26, <1>27, <1>28 DEF AwsPlat!Reads

(* The findings of providers/aws/secrets.ts, supplychain.ts and the others.   *)
LEMMA AwsOperationsKeepsPromises ==
  ASSUME NEW f \in DOMAIN AwsOps!Reads, NEW c, NEW v, NEW K, K = AwsOps!Reads[f],
         MayHold(K, c, v)
  PROVE  KeepsPromise(<<"awsOps", f>>, K, c, v, AwsOps!Verdict(f, v), AwsOps!Verdict(f, c))
<1>u. \A g \in {"AlternateSite", "KeysRotate", "NoResidualExposure", "NoSlaBreaches",
              "PipelinesScan", "PipelinesTest", "RotationOnTime"} :
         <<"awsOps", g>> \in Named(UngatedFindings)
  BY InTable DEF UngatedFindings
<1>o. \A g \in {"AlternateSite", "ApprovedImages", "NoResidualExposure", "NoSlaBreaches",
              "PipelinesScan", "PipelinesTest", "ScanOnPush", "VersionsPinned"} :
         <<"awsOps", g>> \in Named(OverlookingFindings)
  BY InTable DEF OverlookingFindings
<1>m. \A g \in {"AlertingAutomated", "BackupsScheduled", "CustomerKeys", "RefFlowLogs",
              "RefScps", "RefStandards", "SelectionCoverage", "ServicesTrusted",
              "StateIntegrity"} :
         <<"awsOps", g>> \in Named(MissingFindings)
  BY InTable DEF MissingFindings
<1> USE DEF Given, Whole, Scan, Page, Skim, Bare, Peek, Each, Part, AwsOps!Given,
  AwsOps!Whole, AwsOps!Scan, AwsOps!Page, AwsOps!Skim, AwsOps!Bare, AwsOps!Peek,
  AwsOps!Each, AwsOps!Part
<1>1. CASE f = "SecretStoreUsed"
  <2>1. /\ Holds(Scan, "secrets", c, v) /\ Holds(Scan, "parameters", c, v)
        /\ (Told(K, v) <=> v.ok.secrets /\ v.ok.parameters) /\ Uncut(K, c, v)
    BY <1>1 DEF MayHold, Told, Uncut, MayEndEarly, AwsOps!Reads, AwsOps!Of, AwsOps!SvcAsm
  <2> QED BY <1>1, <2>1 DEF KeepsPromise, Throws, Holds, ReadAs, AwsOps!Verdict,
      AwsOps!SecretStoreUsed, AwsOps!Finding, AwsOps!Held
<1>2. CASE f = "SecretsRotate"
  <2>1. /\ Holds(Scan, "secrets", c, v) /\ Holds(Each("secrets"), "rotating", c, v)
        /\ (Told(K, v) <=> v.ok.secrets /\ v.ok.rotating) /\ Uncut(K, c, v)
    BY <1>2 DEF MayHold, Told, Uncut, MayEndEarly, AwsOps!Reads, AwsOps!Of, AwsOps!SvcAsm
  <2> QED BY <1>2, <2>1 DEF KeepsPromise, Throws, Holds, ReadAs, AwsOps!Verdict,
      AwsOps!SecretsRotate, AwsOps!Finding, AwsOps!None
<1>3. CASE f = "RotationOnTime"
  <2>1. /\ Holds(Scan, "secrets", c, v) /\ Holds(Each("secrets"), "stale", c, v)
        /\ (Told(K, v) <=> v.ok.secrets /\ v.ok.stale) /\ Uncut(K, c, v)
    BY <1>3 DEF MayHold, Told, Uncut, MayEndEarly, AwsOps!Reads, AwsOps!Of, AwsOps!SvcAsm
  <2> QED BY <1>3, <1>u, <2>1 DEF KeepsPromise, Throws, Holds, ReadAs, AwsOps!Verdict,
      AwsOps!RotationOnTime, AwsOps!Finding, AwsOps!None, AwsOps!Held
<1>4. CASE f = "KeysRotate"
  <2>1. /\ Holds(Scan, "keys", c, v) /\ Holds(Each("keys"), "customer", c, v)
        /\ Holds(Each("customer"), "rotationOff", c, v)
        /\ (Told(K, v) <=> v.ok.keys /\ v.ok.customer /\ v.ok.rotationOff)
        /\ Uncut(K, c, v)
    BY <1>4 DEF MayHold, Told, Uncut, MayEndEarly, AwsOps!Reads, AwsOps!Of, AwsOps!SvcAsm
  <2> QED BY <1>4, <1>u, <2>1 DEF KeepsPromise, Throws, Holds, ReadAs, AwsOps!Verdict,
      AwsOps!KeysRotate, AwsOps!Finding, AwsOps!None, AwsOps!Held
<1>5. CASE f = "CertsRenew"
  <2>1. /\ Holds(Scan, "certs", c, v) /\ Holds(Each("certs"), "expiring", c, v)
        /\ (Told(K, v) <=> v.ok.certs /\ v.ok.expiring) /\ Uncut(K, c, v)
    BY <1>5 DEF MayHold, Told, Uncut, MayEndEarly, AwsOps!Reads, AwsOps!Of, AwsOps!SvcAsm
  <2> QED BY <1>5, <2>1 DEF KeepsPromise, Throws, Holds, ReadAs, AwsOps!Verdict,
      AwsOps!CertsRenew, AwsOps!Finding, AwsOps!None, AwsOps!Held
<1>6. CASE f = "ParametersUseOwnKey"
  <2>1. /\ Holds(Scan, "parameters", c, v)
        /\ Holds(Part("parameters"), "defaultKey", c, v)
        /\ (Told(K, v) <=> v.ok.parameters /\ v.ok.defaultKey) /\ Uncut(K, c, v)
    BY <1>6 DEF MayHold, Told, Uncut, MayEndEarly, AwsOps!Reads, AwsOps!Of, AwsOps!SvcAsm
  <2> QED BY <1>6, <2>1 DEF KeepsPromise, Throws, Holds, ReadAs, AwsOps!Verdict,
      AwsOps!ParametersUseOwnKey, AwsOps!Finding, AwsOps!None
<1>7. CASE f = "TagsImmutable"
  <2>1. /\ Holds(Scan, "repos", c, v) /\ Holds(Part("repos"), "mutable", c, v)
        /\ (Told(K, v) <=> v.ok.repos /\ v.ok.mutable) /\ Uncut(K, c, v)
    BY <1>7 DEF MayHold, Told, Uncut, MayEndEarly, AwsOps!Reads, AwsOps!Of, AwsOps!CmtRmv
  <2> QED BY <1>7, <2>1 DEF KeepsPromise, Throws, Holds, ReadAs, AwsOps!Verdict,
      AwsOps!TagsImmutable, AwsOps!Finding, AwsOps!None, AwsOps!Held
<1>8. CASE f = "VersionsPinned"
  <2>1. /\ Holds(Page, "groups", c, v) /\ Holds(Part("groups"), "onLatest", c, v)
        /\ (Told(K, v) <=> v.ok.groups /\ v.ok.onLatest)
        /\ (Uncut(K, c, v) <=> (v.ok.groups => v.n.groups = c.n.groups))
    BY <1>8 DEF MayHold, Told, Uncut, MayEndEarly, AwsOps!Reads, AwsOps!Of, AwsOps!CmtRmv
  <2> QED BY <1>8, <1>o, <2>1 DEF KeepsPromise, Throws, Holds, ReadAs, AwsOps!Verdict,
      AwsOps!VersionsPinned, AwsOps!Finding, AwsOps!None, AwsOps!Held
<1>9. CASE f = "LambdaSigned"
  <2>1. /\ Holds(Scan, "functions", c, v) /\ Holds(Each("functions"), "signed", c, v)
        /\ (Told(K, v) <=> v.ok.functions /\ v.ok.signed) /\ Uncut(K, c, v)
    BY <1>9 DEF MayHold, Told, Uncut, MayEndEarly, AwsOps!Reads, AwsOps!Of, AwsOps!CmtRmv
  <2> QED BY <1>9, <2>1 DEF KeepsPromise, Throws, Holds, ReadAs, AwsOps!Verdict,
      AwsOps!LambdaSigned, AwsOps!None, AwsOps!Held, AwsOps!Finding
<1>10. CASE f = "PipelinesTest"
  <2>1. /\ Holds(Page, "pipelines", c, v) /\ Holds(Each("pipelines"), "noTest", c, v)
        /\ (Told(K, v) <=> v.ok.pipelines /\ v.ok.noTest)
        /\ (Uncut(K, c, v) <=> (v.ok.pipelines => v.n.pipelines = c.n.pipelines))
    BY <1>10 DEF MayHold, Told, Uncut, MayEndEarly, AwsOps!Reads, AwsOps!Of, AwsOps!CmtVtd
  <2> QED BY <1>10, <1>u, <1>o, <2>1 DEF KeepsPromise, Throws, Holds, ReadAs,
      AwsOps!Verdict, AwsOps!PipelinesTest, AwsOps!Finding, AwsOps!None, AwsOps!Held
<1>11. CASE f = "PipelinesScan"
  <2>1. /\ Holds(Page, "pipelines", c, v) /\ Holds(Each("pipelines"), "noScan", c, v)
        /\ (Told(K, v) <=> v.ok.pipelines /\ v.ok.noScan)
        /\ (Uncut(K, c, v) <=> (v.ok.pipelines => v.n.pipelines = c.n.pipelines))
    BY <1>11 DEF MayHold, Told, Uncut, MayEndEarly, AwsOps!Reads, AwsOps!Of, AwsOps!CmtVtd
  <2> QED BY <1>11, <1>u, <1>o, <2>1 DEF KeepsPromise, Throws, Holds, ReadAs,
      AwsOps!Verdict, AwsOps!PipelinesScan, AwsOps!Finding, AwsOps!None, AwsOps!Held
<1>12. CASE f = "InspectorOnForChanges"
  <2>1. /\ Holds(Whole, "inspector", c, v) /\ (Told(K, v) <=> v.ok.inspector)
        /\ Uncut(K, c, v)
    BY <1>12 DEF MayHold, Told, Uncut, MayEndEarly, AwsOps!Reads, AwsOps!Of, AwsOps!CmtVtd
  <2> QED BY <1>12, <2>1 DEF KeepsPromise, Throws, Holds, ReadAs, AwsOps!Verdict,
      AwsOps!InspectorOnForChanges, AwsOps!Finding, AwsOps!Held
<1>13. CASE f = "InspectorOn"
  <2>1. /\ Holds(Whole, "inspector", c, v) /\ (Told(K, v) <=> v.ok.inspector)
        /\ Uncut(K, c, v)
    BY <1>13 DEF MayHold, Told, Uncut, MayEndEarly, AwsOps!Reads, AwsOps!Of, AwsOps!ScrMon
  <2> QED BY <1>13, <2>1 DEF KeepsPromise, Throws, Holds, ReadAs, AwsOps!Verdict,
      AwsOps!InspectorOn, AwsOps!Finding, AwsOps!Held
<1>14. CASE f = "ScanOnPush"
  <2>1. /\ Holds(Page, "repos", c, v) /\ Holds(Part("repos"), "scanned", c, v)
        /\ (Told(K, v) <=> v.ok.repos /\ v.ok.scanned)
        /\ (Uncut(K, c, v) <=> (v.ok.repos => v.n.repos = c.n.repos))
    BY <1>14 DEF MayHold, Told, Uncut, MayEndEarly, AwsOps!Reads, AwsOps!Of, AwsOps!ScrMon
  <2> QED BY <1>14, <1>o, <2>1 DEF KeepsPromise, Throws, Holds, ReadAs, AwsOps!Verdict,
      AwsOps!ScanOnPush, AwsOps!Finding
<1>15. CASE f = "InventoryAggregated"
  <2>1. /\ Holds(Page, "aggregators", c, v) /\ Holds(Whole, "recorder", c, v)
        /\ (Told(K, v) <=> v.ok.aggregators /\ v.ok.recorder)
        /\ (Uncut(K, c, v) <=> (v.ok.aggregators => v.n.aggregators = c.n.aggregators))
    BY <1>15 DEF MayHold, Told, Uncut, MayEndEarly, AwsOps!Reads, AwsOps!Of, AwsOps!PiyGiv
  <2> QED BY <1>15, <2>1 DEF KeepsPromise, Throws, Holds, ReadAs, AwsOps!Verdict,
      AwsOps!InventoryAggregated, AwsOps!Finding, AwsOps!Held
<1>16. CASE f = "ChangesEnforced"
  <2>1. /\ Holds(Page, "configRules", c, v) /\ (Told(K, v) <=> v.ok.configRules)
        /\ (Uncut(K, c, v) <=> (v.ok.configRules => v.n.configRules = c.n.configRules))
    BY <1>16 DEF MayHold, Told, Uncut, MayEndEarly, AwsOps!Reads, AwsOps!Of, AwsOps!CmtRvp
  <2> QED BY <1>16, <2>1 DEF KeepsPromise, Throws, Holds, ReadAs, AwsOps!Verdict,
      AwsOps!ChangesEnforced, AwsOps!Finding, AwsOps!Held
<1>17. CASE f = "AlertingAutomated"
  <2>1. /\ Holds(Page, "detectors", c, v) /\ Holds(Each("detectors"), "enabled", c, v)
        /\ Holds(Skim, "rules", c, v) /\ Holds(Each("rules"), "withTargets", c, v)
        /\ (Told(K, v) <=> v.ok.detectors /\ v.ok.enabled /\ v.ok.rules /\ v.ok.withTargets)
        /\ (Uncut(K, c, v) <=> (v.ok.detectors => v.n.detectors = c.n.detectors)
                            /\ (v.ok.rules => v.n.rules = c.n.rules))
    BY <1>17 DEF MayHold, Told, Uncut, MayEndEarly, AwsOps!Reads, AwsOps!Of, AwsOps!InrAar
  <2> QED BY <1>17, <1>m, <2>1 DEF KeepsPromise, Throws, Holds, ReadAs, AwsOps!Verdict,
      AwsOps!AlertingAutomated, AwsOps!Finding, AwsOps!Held
<1>18. CASE f = "HistoryDurable"
  <2>1. /\ Holds(Whole, "trails", c, v) /\ Holds(Part("trails"), "multiRegion", c, v)
        /\ (Told(K, v) <=> v.ok.trails /\ v.ok.multiRegion) /\ Uncut(K, c, v)
    BY <1>18 DEF MayHold, Told, Uncut, MayEndEarly, AwsOps!Reads, AwsOps!Of, AwsOps!InrRpi
  <2> QED BY <1>18, <2>1 DEF KeepsPromise, Throws, Holds, ReadAs, AwsOps!Verdict,
      AwsOps!HistoryDurable, AwsOps!Finding, AwsOps!Held
<1>19. CASE f = "AlternateSite"
  <2>1. /\ Holds(Skim, "rds", c, v) /\ Holds(Part("rds"), "singleAz", c, v)
        /\ (Told(K, v) <=> v.ok.rds /\ v.ok.singleAz)
        /\ (Uncut(K, c, v) <=> (v.ok.rds => v.n.rds = c.n.rds))
    BY <1>19 DEF MayHold, Told, Uncut, MayEndEarly, AwsOps!Reads, AwsOps!Of, AwsOps!RplArp
  <2> QED BY <1>19, <1>u, <1>o, <2>1 DEF KeepsPromise, Throws, Holds, ReadAs,
      AwsOps!Verdict, AwsOps!AlternateSite, AwsOps!Finding, AwsOps!None, AwsOps!Held
<1>20. CASE f = "BackupsScheduled"
  <2>1. /\ Holds(Skim, "plans", c, v) /\ Holds(Each("plans"), "scheduled", c, v)
        /\ (Told(K, v) <=> v.ok.plans /\ v.ok.scheduled)
        /\ (Uncut(K, c, v) <=> (v.ok.plans => v.n.plans = c.n.plans))
    BY <1>20 DEF MayHold, Told, Uncut, MayEndEarly, AwsOps!Reads, AwsOps!Of, AwsOps!RplRro
  <2> QED BY <1>20, <1>m, <2>1 DEF KeepsPromise, Throws, Holds, ReadAs, AwsOps!Verdict,
      AwsOps!BackupsScheduled, AwsOps!Finding, AwsOps!Held
<1>21. CASE f = "ImagesScanned"
  <2>1. /\ Holds(Whole, "registry", c, v) /\ Holds(Page, "repos", c, v)
        /\ (Told(K, v) <=> v.ok.registry /\ v.ok.repos)
        /\ (Uncut(K, c, v) <=> (v.ok.repos => v.n.repos = c.n.repos))
    BY <1>21 DEF MayHold, Told, Uncut, MayEndEarly, AwsOps!Reads, AwsOps!Of, AwsOps!ScrMit
  <2> QED BY <1>21, <2>1 DEF KeepsPromise, Throws, Holds, ReadAs, AwsOps!Verdict,
      AwsOps!ImagesScanned, AwsOps!Finding, AwsOps!Held
<1>22. CASE f = "NoResidualExposure"
  <2>1. /\ DOMAIN K = {"buckets", "noBlock", "rds", "publicDbs"} /\ K.buckets = Whole
        /\ K.noBlock = Each("buckets") /\ K.rds = Page /\ K.publicDbs = Part("rds")
    BY <1>22 DEF AwsOps!Reads, AwsOps!Of, AwsOps!SvcPrr
  <2>2. /\ Holds(Whole, "buckets", c, v) /\ Holds(Each("buckets"), "noBlock", c, v)
        /\ Holds(Page, "rds", c, v) /\ Holds(Part("rds"), "publicDbs", c, v)
        /\ (Told(K, v) <=> v.ok.buckets /\ v.ok.noBlock /\ v.ok.rds /\ v.ok.publicDbs)
        /\ (Uncut(K, c, v) <=> (v.ok.rds => v.n.rds = c.n.rds))
    BY <2>1 DEF MayHold, Told, Uncut, MayEndEarly
  <2>3. KeepsPromise(<<"awsOps", f>>, K, c, v,
                     AwsOps!NoResidualExposure(v), AwsOps!NoResidualExposure(c))
    BY <1>22, <1>u, <1>o, <2>2 DEF KeepsPromise, Throws, Holds, ReadAs,
       AwsOps!NoResidualExposure, AwsOps!Held, AwsOps!Finding
  <2> QED BY <1>22, <2>3 DEF AwsOps!Verdict
<1>23. CASE f = "DetectionEnabled"
  <2>1. /\ Holds(Whole, "inspector", c, v) /\ Holds(Page, "active", c, v)
        /\ (Told(K, v) <=> v.ok.inspector /\ v.ok.active)
        /\ (Uncut(K, c, v) <=> (v.ok.active => v.n.active = c.n.active))
    BY <1>23 DEF MayHold, Told, Uncut, MayEndEarly, AwsOps!Reads, AwsOps!Of, AwsOps!VdrScan
  <2> QED BY <1>23, <2>1 DEF KeepsPromise, Throws, Holds, ReadAs, AwsOps!Verdict,
      AwsOps!DetectionEnabled, AwsOps!Detects, AwsOps!Finding, AwsOps!Held
<1>24. CASE f = "NoSlaBreaches"
  <2>1. /\ Holds(Whole, "inspector", c, v) /\ Holds(Page, "active", c, v)
        /\ Holds(Each("active"), "overdue", c, v)
        /\ (Told(K, v) <=> v.ok.inspector /\ v.ok.active /\ v.ok.overdue)
        /\ (Uncut(K, c, v) <=> (v.ok.active => v.n.active = c.n.active))
    BY <1>24 DEF MayHold, Told, Uncut, MayEndEarly, AwsOps!Reads, AwsOps!Of, AwsOps!VdrScan
  <2> QED BY <1>24, <1>u, <1>o, <2>1 DEF KeepsPromise, Throws, Holds, ReadAs,
      AwsOps!Verdict, AwsOps!NoSlaBreaches, AwsOps!Detects, AwsOps!Finding, AwsOps!Held,
      AwsOps!None
<1>25. CASE f = "CustomerKeys"
  <2>1. /\ Holds(Peek, "keys", c, v) /\ Holds(Each("keys"), "customerKeys", c, v)
        /\ (Told(K, v) <=> v.ok.keys /\ v.ok.customerKeys)
        /\ (Uncut(K, c, v) <=> (v.ok.keys => v.n.keys = c.n.keys))
    BY <1>25 DEF MayHold, Told, Uncut, MayEndEarly, AwsOps!Reads, AwsOps!Of, AwsOps!RefArch
  <2> QED BY <1>25, <1>m, <2>1 DEF KeepsPromise, Throws, Holds, ReadAs, AwsOps!Verdict,
      AwsOps!CustomerKeys, AwsOps!Finding, AwsOps!Held
<1>26. CASE f = "RefStandards"
  <2>1. /\ Holds(Peek, "standards", c, v)
        /\ Holds(Part("standards"), "bothStandards", c, v)
        /\ (Told(K, v) <=> v.ok.standards /\ v.ok.bothStandards)
        /\ (Uncut(K, c, v) <=> (v.ok.standards => v.n.standards = c.n.standards))
    BY <1>26 DEF MayHold, Told, Uncut, MayEndEarly, AwsOps!Reads, AwsOps!Of, AwsOps!RefArch
  <2> QED BY <1>26, <1>m, <2>1 DEF KeepsPromise, Throws, Holds, ReadAs, AwsOps!Verdict,
      AwsOps!RefStandards, AwsOps!Finding, AwsOps!Held
<1>27. CASE f = "RefFirewall"
  <2>1. /\ Holds(Peek, "firewalls", c, v) /\ (Told(K, v) <=> v.ok.firewalls)
        /\ (Uncut(K, c, v) <=> (v.ok.firewalls => v.n.firewalls = c.n.firewalls))
    BY <1>27 DEF MayHold, Told, Uncut, MayEndEarly, AwsOps!Reads, AwsOps!Of, AwsOps!RefArch
  <2> QED BY <1>27, <2>1 DEF KeepsPromise, Throws, Holds, ReadAs, AwsOps!Verdict,
      AwsOps!RefFirewall, AwsOps!Finding, AwsOps!Held
<1>28. CASE f = "RefFlowLogs"
  <2>1. /\ Holds(Peek, "flowLogs", c, v) /\ Holds(Part("flowLogs"), "activeLogs", c, v)
        /\ (Told(K, v) <=> v.ok.flowLogs /\ v.ok.activeLogs)
        /\ (Uncut(K, c, v) <=> (v.ok.flowLogs => v.n.flowLogs = c.n.flowLogs))
    BY <1>28 DEF MayHold, Told, Uncut, MayEndEarly, AwsOps!Reads, AwsOps!Of, AwsOps!RefArch
  <2> QED BY <1>28, <1>m, <2>1 DEF KeepsPromise, Throws, Holds, ReadAs, AwsOps!Verdict,
      AwsOps!RefFlowLogs, AwsOps!Finding, AwsOps!Held
<1>29. CASE f = "RefScps"
  <2>1. /\ Holds(Peek, "policies", c, v) /\ Holds(Part("policies"), "scps", c, v)
        /\ (Told(K, v) <=> v.ok.policies /\ v.ok.scps)
        /\ (Uncut(K, c, v) <=> (v.ok.policies => v.n.policies = c.n.policies))
    BY <1>29 DEF MayHold, Told, Uncut, MayEndEarly, AwsOps!Reads, AwsOps!Of, AwsOps!RefArch
  <2> QED BY <1>29, <1>m, <2>1 DEF KeepsPromise, Throws, Holds, ReadAs, AwsOps!Verdict,
      AwsOps!RefScps, AwsOps!Finding, AwsOps!Held
<1>30. CASE f = "ServicesTrusted"
  <2>1. /\ Holds(Peek, "services", c, v) /\ Holds(Part("services"), "allTrusted", c, v)
        /\ (Told(K, v) <=> v.ok.services /\ v.ok.allTrusted)
        /\ (Uncut(K, c, v) <=> (v.ok.services => v.n.services = c.n.services))
    BY <1>30 DEF MayHold, Told, Uncut, MayEndEarly, AwsOps!Reads, AwsOps!Of, AwsOps!RefArch
  <2> QED BY <1>30, <1>m, <2>1 DEF KeepsPromise, Throws, Holds, ReadAs, AwsOps!Verdict,
      AwsOps!ServicesTrusted, AwsOps!Finding, AwsOps!Held, AwsOps!None
<1>31. CASE f = "TrailsToLogs"
  <2>1. /\ Holds(Bare, "trailsToLogs", c, v) /\ (Told(K, v) <=> v.ok.trailsToLogs)
        /\ Uncut(K, c, v)
    BY <1>31 DEF MayHold, Told, Uncut, MayEndEarly, AwsOps!Reads, AwsOps!Of, AwsOps!RefArch
  <2> QED BY <1>31, <2>1 DEF KeepsPromise, Throws, Holds, ReadAs, AwsOps!Verdict,
      AwsOps!TrailsToLogs, AwsOps!Finding, AwsOps!Held
<1>32. CASE f = "SelectionCoverage"
  <2>1. /\ Holds(Peek, "plans", c, v) /\ Holds(Each("plans"), "selections", c, v)
        /\ (Told(K, v) <=> v.ok.plans /\ v.ok.selections)
        /\ (Uncut(K, c, v) <=> (v.ok.plans => v.n.plans = c.n.plans))
    BY <1>32 DEF MayHold, Told, Uncut, MayEndEarly, AwsOps!Reads, AwsOps!Of, AwsOps!RefArch
  <2> QED BY <1>32, <1>m, <2>1 DEF KeepsPromise, Throws, Holds, ReadAs, AwsOps!Verdict,
      AwsOps!SelectionCoverage, AwsOps!Finding, AwsOps!Held
<1>33. CASE f = "StateIntegrity"
  <2>1. /\ Holds(Bare, "stateBuckets", c, v)
        /\ Holds(Each("stateBuckets"), "encrypted", c, v) /\ Holds(Page, "tables", c, v)
        /\ Holds(Part("tables"), "lockTables", c, v)
        /\ (Told(K, v) <=> v.ok.stateBuckets /\ v.ok.encrypted /\ v.ok.tables
                        /\ v.ok.lockTables)
        /\ (Uncut(K, c, v) <=> (v.ok.tables => v.n.tables = c.n.tables))
    BY <1>33 DEF MayHold, Told, Uncut, MayEndEarly, AwsOps!Reads, AwsOps!Of,
       AwsOps!RefArchState
  <2> QED BY <1>33, <1>m, <2>1 DEF KeepsPromise, Throws, Holds, ReadAs, AwsOps!Verdict,
      AwsOps!StateIntegrity, AwsOps!Finding, AwsOps!None, AwsOps!Held
<1>34. CASE f = "ApprovedImages"
  <2>1. /\ Holds(Given, "pattern", c, v) /\ Holds(Peek, "running", c, v)
        /\ Holds(Part("running"), "offPattern", c, v)
        /\ (Told(K, v) <=> v.ok.pattern /\ v.ok.running /\ v.ok.offPattern)
        /\ (Uncut(K, c, v) <=> (v.ok.running => v.n.running = c.n.running))
    BY <1>34 DEF MayHold, Told, Uncut, MayEndEarly, AwsOps!Reads, AwsOps!Of,
       AwsOps!RefArchImages
  <2> QED BY <1>34, <1>o, <2>1 DEF KeepsPromise, Throws, Holds, ReadAs, AwsOps!Verdict,
      AwsOps!ApprovedImages, AwsOps!Held, AwsOps!Finding
<1> QED BY <1>1, <1>2, <1>3, <1>4, <1>5, <1>6, <1>7, <1>8, <1>9, <1>10, <1>11, <1>12, <1>13,
    <1>14, <1>15, <1>16, <1>17, <1>18, <1>19, <1>20, <1>21, <1>22, <1>23, <1>24, <1>25,
    <1>26, <1>27, <1>28, <1>29, <1>30, <1>31, <1>32, <1>33, <1>34 DEF AwsOps!Reads

(* The findings of providers/gcp/iam.ts.                                      *)
LEMMA GcpIdentityKeepsPromises ==
  ASSUME NEW f \in DOMAIN GcpId!Reads, NEW c, NEW v, NEW K, K = GcpId!Reads[f],
         MayHold(K, c, v)
  PROVE  KeepsPromise(<<"gcpId", f>>, K, c, v, GcpId!Verdict(f, v), GcpId!Verdict(f, c))
<1>u. \A g \in {"ConstraintsEnforced", "IdleAccountsManaged", "NoDirectUsers",
              "NoPrimitiveRoles", "NoUserManagedKeys", "NoWildcardRoles",
              "PrivilegesManaged", "RecommendationsManaged", "SnuNoUserManagedKeys",
              "TenantsEnforceMfa", "TenantsRequireMfa"} :
         <<"gcpId", g>> \in Named(UngatedFindings)
  BY InTable DEF UngatedFindings
<1>o. \A g \in {"IdleAccountsManaged", "NoUserManagedKeys", "NoWildcardRoles",
              "PrivilegesManaged", "RecommendationsManaged", "SnuNoUserManagedKeys",
              "TenantsEnforceMfa", "TenantsRequireMfa"} :
         <<"gcpId", g>> \in Named(OverlookingFindings)
  BY InTable DEF OverlookingFindings
<1>m. \A g \in {"AccessLevelsPresent", "PerimeterPresent", "SecurityTriggers"} :
         <<"gcpId", g>> \in Named(MissingFindings)
  BY InTable DEF MissingFindings
<1> USE DEF Given, Whole, Page, Each, Part, GcpId!Given, GcpId!Whole, GcpId!Page,
  GcpId!Each, GcpId!Part
<1>1. CASE f = "NoUserManagedKeys"
  <2>1. /\ Holds(Page, "accounts", c, v) /\ Holds(Each("accounts"), "userKeys", c, v)
        /\ (Told(K, v) <=> v.ok.accounts /\ v.ok.userKeys)
        /\ (Uncut(K, c, v) <=> (v.ok.accounts => v.n.accounts = c.n.accounts))
    BY <1>1 DEF MayHold, Told, Uncut, MayEndEarly, GcpId!Reads, GcpId!Of, GcpId!IamAam
  <2> QED BY <1>1, <1>u, <1>o, <2>1 DEF KeepsPromise, Throws, Holds, ReadAs, GcpId!Verdict,
      GcpId!NoUserManagedKeys, GcpId!Finding, GcpId!None, GcpId!Held
<1>2. CASE f = "KeyCreationDisabled"
  <2>1. /\ Holds(Whole, "noKeysPolicy", c, v) /\ (Told(K, v) <=> v.ok.noKeysPolicy)
        /\ Uncut(K, c, v)
    BY <1>2 DEF MayHold, Told, Uncut, MayEndEarly, GcpId!Reads, GcpId!Of, GcpId!IamAam
  <2> QED BY <1>2, <2>1 DEF KeepsPromise, Throws, Holds, ReadAs, GcpId!Verdict,
      GcpId!KeyCreationDisabled, GcpId!Finding, GcpId!Held
<1>3. CASE f = "IdleAccountsManaged"
  <2>1. /\ Holds(Page, "idle", c, v) /\ Holds(Part("idle"), "idleOver10", c, v)
        /\ (Told(K, v) <=> v.ok.idle /\ v.ok.idleOver10)
        /\ (Uncut(K, c, v) <=> (v.ok.idle => v.n.idle = c.n.idle))
    BY <1>3 DEF MayHold, Told, Uncut, MayEndEarly, GcpId!Reads, GcpId!Of, GcpId!IamAam
  <2> QED BY <1>3, <1>u, <1>o, <2>1 DEF KeepsPromise, Throws, Holds, ReadAs, GcpId!Verdict,
      GcpId!IdleAccountsManaged, GcpId!Finding, GcpId!None
<1>4. CASE f = "PrivilegesManaged"
  <2>1. /\ Holds(Page, "overPrivileged", c, v)
        /\ Holds(Part("overPrivileged"), "overPrivilegedOver25", c, v)
        /\ (Told(K, v) <=> v.ok.overPrivileged /\ v.ok.overPrivilegedOver25)
        /\ (Uncut(K, c, v) <=> (v.ok.overPrivileged => v.n.overPrivileged = c.n.overPrivileged))
    BY <1>4 DEF MayHold, Told, Uncut, MayEndEarly, GcpId!Reads, GcpId!Of, GcpId!IamAam
  <2> QED BY <1>4, <1>u, <1>o, <2>1 DEF KeepsPromise, Throws, Holds, ReadAs, GcpId!Verdict,
      GcpId!PrivilegesManaged, GcpId!Finding, GcpId!None
<1>5. CASE f = "WorkforceFederated"
  <2>1. /\ Holds(Given, "organization", c, v) /\ Holds(Page, "workforcePools", c, v)
        /\ (Told(K, v) <=> v.ok.organization /\ v.ok.workforcePools)
        /\ (Uncut(K, c, v) <=> (v.ok.workforcePools => v.n.workforcePools = c.n.workforcePools))
    BY <1>5 DEF MayHold, Told, Uncut, MayEndEarly, GcpId!Reads, GcpId!Of, GcpId!IamAam
  <2> QED BY <1>5, <2>1 DEF KeepsPromise, Throws, Holds, ReadAs, GcpId!Verdict,
      GcpId!WorkforceFederated, GcpId!Finding, GcpId!Held
<1>6. CASE f = "DomainsRestricted"
  <2>1. /\ Holds(Whole, "domainsPolicy", c, v) /\ (Told(K, v) <=> v.ok.domainsPolicy)
        /\ Uncut(K, c, v)
    BY <1>6 DEF MayHold, Told, Uncut, MayEndEarly, GcpId!Reads, GcpId!Of, GcpId!IamApm
  <2> QED BY <1>6, <2>1 DEF KeepsPromise, Throws, Holds, ReadAs, GcpId!Verdict,
      GcpId!DomainsRestricted, GcpId!Finding, GcpId!Held
<1>7. CASE f = "TenantsRequireMfa"
  <2>1. /\ Holds(Page, "tenants", c, v) /\ Holds(Part("tenants"), "noMfa", c, v)
        /\ (Told(K, v) <=> v.ok.tenants /\ v.ok.noMfa)
        /\ (Uncut(K, c, v) <=> (v.ok.tenants => v.n.tenants = c.n.tenants))
    BY <1>7 DEF MayHold, Told, Uncut, MayEndEarly, GcpId!Reads, GcpId!Of, GcpId!IamApm
  <2> QED BY <1>7, <1>u, <1>o, <2>1 DEF KeepsPromise, Throws, Holds, ReadAs, GcpId!Verdict,
      GcpId!TenantsRequireMfa, GcpId!Finding, GcpId!None, GcpId!Held
<1>8. CASE f = "NoPrimitiveRoles"
  <2>1. /\ Holds(Whole, "primitiveRoles", c, v) /\ (Told(K, v) <=> v.ok.primitiveRoles)
        /\ Uncut(K, c, v)
    BY <1>8 DEF MayHold, Told, Uncut, MayEndEarly, GcpId!Reads, GcpId!Of, GcpId!IamElp
  <2> QED BY <1>8, <1>u, <2>1 DEF KeepsPromise, Throws, Holds, ReadAs, GcpId!Verdict,
      GcpId!NoPrimitiveRoles, GcpId!Finding, GcpId!None, GcpId!Held
<1>9. CASE f = "RecommendationsManaged"
  <2>1. /\ Holds(Page, "overPrivileged", c, v)
        /\ Holds(Part("overPrivileged"), "overPrivilegedOver25", c, v)
        /\ (Told(K, v) <=> v.ok.overPrivileged /\ v.ok.overPrivilegedOver25)
        /\ (Uncut(K, c, v) <=> (v.ok.overPrivileged => v.n.overPrivileged = c.n.overPrivileged))
    BY <1>9 DEF MayHold, Told, Uncut, MayEndEarly, GcpId!Reads, GcpId!Of, GcpId!IamElp
  <2> QED BY <1>9, <1>u, <1>o, <2>1 DEF KeepsPromise, Throws, Holds, ReadAs, GcpId!Verdict,
      GcpId!RecommendationsManaged, GcpId!Finding, GcpId!None
<1>10. CASE f = "EntitlementsPresent"
  <2>1. /\ Holds(Page, "entitlements", c, v) /\ (Told(K, v) <=> v.ok.entitlements)
        /\ (Uncut(K, c, v) <=> (v.ok.entitlements => v.n.entitlements = c.n.entitlements))
    BY <1>10 DEF MayHold, Told, Uncut, MayEndEarly, GcpId!Reads, GcpId!Of, GcpId!IamJit
  <2> QED BY <1>10, <2>1 DEF KeepsPromise, Throws, Holds, ReadAs, GcpId!Verdict,
      GcpId!EntitlementsPresent, GcpId!Finding, GcpId!Held
<1>11. CASE f = "ConditionalBindings"
  <2>1. /\ Holds(Whole, "conditionalBindings", c, v)
        /\ (Told(K, v) <=> v.ok.conditionalBindings) /\ Uncut(K, c, v)
    BY <1>11 DEF MayHold, Told, Uncut, MayEndEarly, GcpId!Reads, GcpId!Of, GcpId!IamJit
  <2> QED BY <1>11, <2>1 DEF KeepsPromise, Throws, Holds, ReadAs, GcpId!Verdict,
      GcpId!ConditionalBindings, GcpId!Finding, GcpId!Held
<1>12. CASE f = "MfaDomainsRestricted"
  <2>1. /\ Holds(Whole, "domainsPolicy", c, v) /\ (Told(K, v) <=> v.ok.domainsPolicy)
        /\ Uncut(K, c, v)
    BY <1>12 DEF MayHold, Told, Uncut, MayEndEarly, GcpId!Reads, GcpId!Of, GcpId!IamMfa
  <2> QED BY <1>12, <2>1 DEF KeepsPromise, Throws, Holds, ReadAs, GcpId!Verdict,
      GcpId!MfaDomainsRestricted, GcpId!Finding, GcpId!Held
<1>13. CASE f = "NoDirectUsers"
  <2>1. /\ Holds(Whole, "directUsers", c, v) /\ (Told(K, v) <=> v.ok.directUsers)
        /\ Uncut(K, c, v)
    BY <1>13 DEF MayHold, Told, Uncut, MayEndEarly, GcpId!Reads, GcpId!Of, GcpId!IamMfa
  <2> QED BY <1>13, <1>u, <2>1 DEF KeepsPromise, Throws, Holds, ReadAs, GcpId!Verdict,
      GcpId!NoDirectUsers, GcpId!Finding, GcpId!None, GcpId!Held
<1>14. CASE f = "AccessLevelsPresent"
  <2>1. /\ Holds(Page, "accessPolicies", c, v)
        /\ Holds(Each("accessPolicies"), "accessLevels", c, v)
        /\ (Told(K, v) <=> v.ok.accessPolicies /\ v.ok.accessLevels)
        /\ (Uncut(K, c, v) <=> (v.ok.accessPolicies => v.n.accessPolicies = c.n.accessPolicies))
    BY <1>14 DEF MayHold, Told, Uncut, MayEndEarly, GcpId!Reads, GcpId!Of, GcpId!IamMfa
  <2> QED BY <1>14, <1>m, <2>1 DEF KeepsPromise, Throws, Holds, ReadAs, GcpId!Verdict,
      GcpId!AccessLevelsPresent, GcpId!Finding, GcpId!Held
<1>15. CASE f = "TenantsEnforceMfa"
  <2>1. /\ Holds(Page, "tenants", c, v) /\ Holds(Part("tenants"), "noMfa", c, v)
        /\ (Told(K, v) <=> v.ok.tenants /\ v.ok.noMfa)
        /\ (Uncut(K, c, v) <=> (v.ok.tenants => v.n.tenants = c.n.tenants))
    BY <1>15 DEF MayHold, Told, Uncut, MayEndEarly, GcpId!Reads, GcpId!Of, GcpId!IamMfa
  <2> QED BY <1>15, <1>u, <1>o, <2>1 DEF KeepsPromise, Throws, Holds, ReadAs, GcpId!Verdict,
      GcpId!TenantsEnforceMfa, GcpId!Finding, GcpId!None, GcpId!Held
<1>16. CASE f = "SnuNoUserManagedKeys"
  <2>1. /\ Holds(Page, "accounts", c, v) /\ Holds(Each("accounts"), "userKeys", c, v)
        /\ (Told(K, v) <=> v.ok.accounts /\ v.ok.userKeys)
        /\ (Uncut(K, c, v) <=> (v.ok.accounts => v.n.accounts = c.n.accounts))
    BY <1>16 DEF MayHold, Told, Uncut, MayEndEarly, GcpId!Reads, GcpId!Of, GcpId!IamSnu
  <2> QED BY <1>16, <1>u, <1>o, <2>1 DEF KeepsPromise, Throws, Holds, ReadAs, GcpId!Verdict,
      GcpId!SnuNoUserManagedKeys, GcpId!Finding, GcpId!None, GcpId!Held
<1>17. CASE f = "WorkloadsFederated"
  <2>1. /\ Holds(Page, "workloadPools", c, v) /\ (Told(K, v) <=> v.ok.workloadPools)
        /\ (Uncut(K, c, v) <=> (v.ok.workloadPools => v.n.workloadPools = c.n.workloadPools))
    BY <1>17 DEF MayHold, Told, Uncut, MayEndEarly, GcpId!Reads, GcpId!Of, GcpId!IamSnu
  <2> QED BY <1>17, <2>1 DEF KeepsPromise, Throws, Holds, ReadAs, GcpId!Verdict,
      GcpId!WorkloadsFederated, GcpId!Finding, GcpId!Held
<1>18. CASE f = "SecurityTriggers"
  <2>1. /\ Holds(Page, "triggers", c, v)
        /\ Holds(Part("triggers"), "securityTriggers", c, v)
        /\ (Told(K, v) <=> v.ok.triggers /\ v.ok.securityTriggers)
        /\ (Uncut(K, c, v) <=> (v.ok.triggers => v.n.triggers = c.n.triggers))
    BY <1>18 DEF MayHold, Told, Uncut, MayEndEarly, GcpId!Reads, GcpId!Of, GcpId!IamSus
  <2> QED BY <1>18, <1>m, <2>1 DEF KeepsPromise, Throws, Holds, ReadAs, GcpId!Verdict,
      GcpId!SecurityTriggers, GcpId!Finding, GcpId!Held
<1>19. CASE f = "DataAccessLogged"
  <2>1. /\ Holds(Whole, "dataAccessLogged", c, v)
        /\ (Told(K, v) <=> v.ok.dataAccessLogged) /\ Uncut(K, c, v)
    BY <1>19 DEF MayHold, Told, Uncut, MayEndEarly, GcpId!Reads, GcpId!Of, GcpId!IamSus
  <2> QED BY <1>19, <2>1 DEF KeepsPromise, Throws, Holds, ReadAs, GcpId!Verdict,
      GcpId!DataAccessLogged, GcpId!Finding, GcpId!Held
<1>20. CASE f = "ConstraintsEnforced"
  <2>1. /\ Holds(Whole, "constraints", c, v)
        /\ Holds(Each("constraints"), "enforced", c, v)
        /\ (Told(K, v) <=> v.ok.constraints /\ v.ok.enforced) /\ Uncut(K, c, v)
    BY <1>20 DEF MayHold, Told, Uncut, MayEndEarly, GcpId!Reads, GcpId!Of, GcpId!CnaDfp
  <2> QED BY <1>20, <1>u, <2>1 DEF KeepsPromise, Throws, Holds, ReadAs, GcpId!Verdict,
      GcpId!ConstraintsEnforced, GcpId!Finding
<1>21. CASE f = "PerimeterPresent"
  <2>1. /\ Holds(Page, "accessPolicies", c, v)
        /\ Holds(Each("accessPolicies"), "perimeters", c, v)
        /\ (Told(K, v) <=> v.ok.accessPolicies /\ v.ok.perimeters)
        /\ (Uncut(K, c, v) <=> (v.ok.accessPolicies => v.n.accessPolicies = c.n.accessPolicies))
    BY <1>21 DEF MayHold, Told, Uncut, MayEndEarly, GcpId!Reads, GcpId!Of, GcpId!CnaDfp
  <2> QED BY <1>21, <1>m, <2>1 DEF KeepsPromise, Throws, Holds, ReadAs, GcpId!Verdict,
      GcpId!PerimeterPresent, GcpId!Finding, GcpId!Held
<1>22. CASE f = "NoWildcardRoles"
  <2>1. /\ Holds(Page, "roles", c, v) /\ Holds(Part("roles"), "wildcardRoles", c, v)
        /\ (Told(K, v) <=> v.ok.roles /\ v.ok.wildcardRoles)
        /\ (Uncut(K, c, v) <=> (v.ok.roles => v.n.roles = c.n.roles))
    BY <1>22 DEF MayHold, Told, Uncut, MayEndEarly, GcpId!Reads, GcpId!Of, GcpId!CnaDfp
  <2> QED BY <1>22, <1>u, <1>o, <2>1 DEF KeepsPromise, Throws, Holds, ReadAs, GcpId!Verdict,
      GcpId!NoWildcardRoles, GcpId!Finding, GcpId!None, GcpId!Held
<1> QED BY <1>1, <1>2, <1>3, <1>4, <1>5, <1>6, <1>7, <1>8, <1>9, <1>10, <1>11, <1>12, <1>13,
    <1>14, <1>15, <1>16, <1>17, <1>18, <1>19, <1>20, <1>21, <1>22 DEF GcpId!Reads

(* The findings of providers/gcp/logging.ts and network.ts.                   *)
LEMMA GcpNetworkKeepsPromises ==
  ASSUME NEW f \in DOMAIN GcpNet!Reads, NEW c, NEW v, NEW K, K = GcpNet!Reads[f],
         MayHold(K, c, v)
  PROVE  KeepsPromise(<<"gcpNet", f>>, K, c, v, GcpNet!Verdict(f, v), GcpNet!Verdict(f, c))
<1>u. \A g \in {"BucketsPreventPublic", "ClusterNetworkPolicy", "ClustersPrivate",
              "FindingsTriaged", "InstancesShielded", "NoOpenAdminFirewalls",
              "NoOpenLogBuckets", "NoOpenLogDatasets", "NoWeakPolicy", "ProxiesHavePolicy",
              "RunServicesPrivate", "SqlPrivate", "SqlRequiresSsl", "SubnetsLogged",
              "WorkloadIdentity"} :
         <<"gcpNet", g>> \in Named(UngatedFindings)
  BY InTable DEF UngatedFindings
<1>o. \A g \in {"BucketsPreventPublic", "FindingsTriaged", "InstancesShielded",
              "LogBucketsCmek", "NoOpenAdminFirewalls", "NoOpenLogBuckets",
              "NoOpenLogDatasets", "NoWeakPolicy", "ProxiesHavePolicy",
              "RunServicesPrivate", "SqlPrivate", "SqlRequiresSsl", "SubnetsLogged"} :
         <<"gcpNet", g>> \in Named(OverlookingFindings)
  BY InTable DEF OverlookingFindings
<1>m. \A g \in {"AdminActivitySink", "FindingsTriaged", "RateLimitedArmor",
              "RequiredBucketLocked", "SiemExport"} :
         <<"gcpNet", g>> \in Named(MissingFindings)
  BY InTable DEF MissingFindings
<1> USE DEF Given, Whole, Page, Each, Part, GcpNet!Given, GcpNet!Whole, GcpNet!Page,
  GcpNet!Each, GcpNet!Part
<1>1. CASE f = "RequiredBucketLocked"
  <2>1. /\ Holds(Page, "logBuckets", c, v) /\ Holds(Part("logBuckets"), "locked", c, v)
        /\ (Told(K, v) <=> v.ok.logBuckets /\ v.ok.locked)
        /\ (Uncut(K, c, v) <=> (v.ok.logBuckets => v.n.logBuckets = c.n.logBuckets))
    BY <1>1 DEF MayHold, Told, Uncut, MayEndEarly, GcpNet!Reads, GcpNet!Of,
       GcpNet!LogInventory
  <2> QED BY <1>1, <1>m, <2>1 DEF KeepsPromise, Throws, Holds, ReadAs, GcpNet!Verdict,
      GcpNet!RequiredBucketLocked, GcpNet!Finding, GcpNet!Held
<1>2. CASE f = "LogBucketsCmek"
  <2>1. /\ Holds(Page, "logBuckets", c, v) /\ Holds(Part("logBuckets"), "cmek", c, v)
        /\ (Told(K, v) <=> v.ok.logBuckets /\ v.ok.cmek)
        /\ (Uncut(K, c, v) <=> (v.ok.logBuckets => v.n.logBuckets = c.n.logBuckets))
    BY <1>2 DEF MayHold, Told, Uncut, MayEndEarly, GcpNet!Reads, GcpNet!Of,
       GcpNet!LogInventory
  <2> QED BY <1>2, <1>o, <2>1 DEF KeepsPromise, Throws, Holds, ReadAs, GcpNet!Verdict,
      GcpNet!LogBucketsCmek, GcpNet!Finding, GcpNet!Held
<1>3. CASE f = "AdminActivitySink"
  <2>1. /\ Holds(Page, "sinks", c, v) /\ Holds(Part("sinks"), "adminSinks", c, v)
        /\ (Told(K, v) <=> v.ok.sinks /\ v.ok.adminSinks)
        /\ (Uncut(K, c, v) <=> (v.ok.sinks => v.n.sinks = c.n.sinks))
    BY <1>3 DEF MayHold, Told, Uncut, MayEndEarly, GcpNet!Reads, GcpNet!Of,
       GcpNet!LogInventory
  <2> QED BY <1>3, <1>m, <2>1 DEF KeepsPromise, Throws, Holds, ReadAs, GcpNet!Verdict,
      GcpNet!AdminActivitySink, GcpNet!Finding, GcpNet!Held
<1>4. CASE f = "NoOpenLogBuckets"
  <2>1. /\ Holds(Page, "logBuckets", c, v)
        /\ Holds(Each("logBuckets"), "openBuckets", c, v)
        /\ (Told(K, v) <=> v.ok.logBuckets /\ v.ok.openBuckets)
        /\ (Uncut(K, c, v) <=> (v.ok.logBuckets => v.n.logBuckets = c.n.logBuckets))
    BY <1>4 DEF MayHold, Told, Uncut, MayEndEarly, GcpNet!Reads, GcpNet!Of, GcpNet!MlaAla,
       GcpNet!LogInventory
  <2> QED BY <1>4, <1>u, <1>o, <2>1 DEF KeepsPromise, Throws, Holds, ReadAs, GcpNet!Verdict,
      GcpNet!NoOpenLogBuckets, GcpNet!Finding, GcpNet!None, GcpNet!Held
<1>5. CASE f = "NoOpenLogDatasets"
  <2>1. /\ Holds(Page, "sinks", c, v) /\ Holds(Part("sinks"), "bqSinks", c, v)
        /\ Holds(Each("bqSinks"), "openDatasets", c, v)
        /\ (Told(K, v) <=> v.ok.sinks /\ v.ok.bqSinks /\ v.ok.openDatasets)
        /\ (Uncut(K, c, v) <=> (v.ok.sinks => v.n.sinks = c.n.sinks))
    BY <1>5 DEF MayHold, Told, Uncut, MayEndEarly, GcpNet!Reads, GcpNet!Of, GcpNet!MlaAla,
       GcpNet!LogInventory
  <2> QED BY <1>5, <1>u, <1>o, <2>1 DEF KeepsPromise, Throws, Holds, ReadAs, GcpNet!Verdict,
      GcpNet!NoOpenLogDatasets, GcpNet!Finding, GcpNet!None, GcpNet!Held
<1>6. CASE f = "FindingsTriaged"
  <2>1. /\ Holds(Page, "active", c, v) /\ Holds(Each("active"), "muted", c, v)
        /\ (Told(K, v) <=> v.ok.active /\ v.ok.muted)
        /\ (Uncut(K, c, v) <=> (v.ok.active => v.n.active = c.n.active))
    BY <1>6 DEF MayHold, Told, Uncut, MayEndEarly, GcpNet!Reads, GcpNet!Of, GcpNet!MlaEvc
  <2> QED BY <1>6, <1>u, <1>o, <1>m, <2>1 DEF KeepsPromise, Throws, Holds, ReadAs,
      GcpNet!Verdict, GcpNet!FindingsTriaged, GcpNet!Finding, GcpNet!None
<1>7. CASE f = "DataAccessServices"
  <2>1. /\ Holds(Given, "expected", c, v) /\ Holds(Whole, "logged", c, v)
        /\ (Told(K, v) <=> v.ok.expected /\ v.ok.logged) /\ Uncut(K, c, v)
    BY <1>7 DEF MayHold, Told, Uncut, MayEndEarly, GcpNet!Reads, GcpNet!Of,
       GcpNet!LogInventory
  <2> QED BY <1>7, <2>1 DEF KeepsPromise, Throws, Holds, ReadAs, GcpNet!Verdict,
      GcpNet!DataAccessServices, GcpNet!Finding
<1>8. CASE f = "SiemExport"
  <2>1. /\ Holds(Page, "sinks", c, v) /\ Holds(Part("sinks"), "bqSinks", c, v)
        /\ Holds(Part("sinks"), "pubsubSinks", c, v)
        /\ (Told(K, v) <=> v.ok.sinks /\ v.ok.bqSinks /\ v.ok.pubsubSinks)
        /\ (Uncut(K, c, v) <=> (v.ok.sinks => v.n.sinks = c.n.sinks))
    BY <1>8 DEF MayHold, Told, Uncut, MayEndEarly, GcpNet!Reads, GcpNet!Of,
       GcpNet!LogInventory
  <2> QED BY <1>8, <1>m, <2>1 DEF KeepsPromise, Throws, Holds, ReadAs, GcpNet!Verdict,
      GcpNet!SiemExport, GcpNet!Finding, GcpNet!Held
<1>9. CASE f = "ReviewTooling"
  <2>1. /\ Holds(Page, "datasets", c, v) /\ Holds(Page, "dashboards", c, v)
        /\ (Told(K, v) <=> v.ok.datasets /\ v.ok.dashboards)
        /\ (Uncut(K, c, v) <=> (v.ok.datasets => v.n.datasets = c.n.datasets)
                            /\ (v.ok.dashboards => v.n.dashboards = c.n.dashboards))
    BY <1>9 DEF MayHold, Told, Uncut, MayEndEarly, GcpNet!Reads, GcpNet!Of, GcpNet!MlaRvl
  <2> QED BY <1>9, <2>1 DEF KeepsPromise, Throws, Holds, ReadAs, GcpNet!Verdict,
      GcpNet!ReviewTooling, GcpNet!Finding, GcpNet!Held
<1>10. CASE f = "AlertRouting"
  <2>1. /\ Holds(Page, "alertPolicies", c, v) /\ Holds(Page, "channels", c, v)
        /\ (Told(K, v) <=> v.ok.alertPolicies /\ v.ok.channels)
        /\ (Uncut(K, c, v) <=> (v.ok.alertPolicies => v.n.alertPolicies = c.n.alertPolicies)
                            /\ (v.ok.channels => v.n.channels = c.n.channels))
    BY <1>10 DEF MayHold, Told, Uncut, MayEndEarly, GcpNet!Reads, GcpNet!Of, GcpNet!InrRir
  <2> QED BY <1>10, <2>1 DEF KeepsPromise, Throws, Holds, ReadAs, GcpNet!Verdict,
      GcpNet!AlertRouting, GcpNet!Finding, GcpNet!Held
<1>11. CASE f = "NoOpenAdminFirewalls"
  <2>1. /\ Holds(Page, "firewalls", c, v) /\ Holds(Part("firewalls"), "adminOpen", c, v)
        /\ (Told(K, v) <=> v.ok.firewalls /\ v.ok.adminOpen)
        /\ (Uncut(K, c, v) <=> (v.ok.firewalls => v.n.firewalls = c.n.firewalls))
    BY <1>11 DEF MayHold, Told, Uncut, MayEndEarly, GcpNet!Reads, GcpNet!Of,
       GcpNet!Inventory
  <2> QED BY <1>11, <1>u, <1>o, <2>1 DEF KeepsPromise, Throws, Holds, ReadAs,
      GcpNet!Verdict, GcpNet!NoOpenAdminFirewalls, GcpNet!Finding, GcpNet!None, GcpNet!Held
<1>12. CASE f = "InstancesShielded"
  <2>1. /\ Holds(Page, "instances", c, v) /\ Holds(Part("instances"), "unshielded", c, v)
        /\ (Told(K, v) <=> v.ok.instances /\ v.ok.unshielded)
        /\ (Uncut(K, c, v) <=> (v.ok.instances => v.n.instances = c.n.instances))
    BY <1>12 DEF MayHold, Told, Uncut, MayEndEarly, GcpNet!Reads, GcpNet!Of,
       GcpNet!Inventory
  <2> QED BY <1>12, <1>u, <1>o, <2>1 DEF KeepsPromise, Throws, Holds, ReadAs,
      GcpNet!Verdict, GcpNet!InstancesShielded, GcpNet!Finding, GcpNet!None, GcpNet!Held
<1>13. CASE f = "BucketsPreventPublic"
  <2>1. /\ Holds(Page, "buckets", c, v) /\ Holds(Part("buckets"), "openBuckets", c, v)
        /\ (Told(K, v) <=> v.ok.buckets /\ v.ok.openBuckets)
        /\ (Uncut(K, c, v) <=> (v.ok.buckets => v.n.buckets = c.n.buckets))
    BY <1>13 DEF MayHold, Told, Uncut, MayEndEarly, GcpNet!Reads, GcpNet!Of,
       GcpNet!Inventory
  <2> QED BY <1>13, <1>u, <1>o, <2>1 DEF KeepsPromise, Throws, Holds, ReadAs,
      GcpNet!Verdict, GcpNet!BucketsPreventPublic, GcpNet!Finding, GcpNet!None, GcpNet!Held
<1>14. CASE f = "SqlPrivate"
  <2>1. /\ Holds(Page, "sql", c, v) /\ Holds(Part("sql"), "publicSql", c, v)
        /\ (Told(K, v) <=> v.ok.sql /\ v.ok.publicSql)
        /\ (Uncut(K, c, v) <=> (v.ok.sql => v.n.sql = c.n.sql))
    BY <1>14 DEF MayHold, Told, Uncut, MayEndEarly, GcpNet!Reads, GcpNet!Of,
       GcpNet!Inventory
  <2> QED BY <1>14, <1>u, <1>o, <2>1 DEF KeepsPromise, Throws, Holds, ReadAs,
      GcpNet!Verdict, GcpNet!SqlPrivate, GcpNet!Finding, GcpNet!None, GcpNet!Held
<1>15. CASE f = "ClustersPrivate"
  <2>1. /\ Holds(Whole, "clusters", c, v)
        /\ Holds(Part("clusters"), "publicClusters", c, v)
        /\ (Told(K, v) <=> v.ok.clusters /\ v.ok.publicClusters) /\ Uncut(K, c, v)
    BY <1>15 DEF MayHold, Told, Uncut, MayEndEarly, GcpNet!Reads, GcpNet!Of,
       GcpNet!Inventory
  <2> QED BY <1>15, <1>u, <2>1 DEF KeepsPromise, Throws, Holds, ReadAs, GcpNet!Verdict,
      GcpNet!ClustersPrivate, GcpNet!Finding, GcpNet!None, GcpNet!Held
<1>16. CASE f = "RunServicesPrivate"
  <2>1. /\ Holds(Page, "runServices", c, v)
        /\ Holds(Part("runServices"), "publicRun", c, v)
        /\ (Told(K, v) <=> v.ok.runServices /\ v.ok.publicRun)
        /\ (Uncut(K, c, v) <=> (v.ok.runServices => v.n.runServices = c.n.runServices))
    BY <1>16 DEF MayHold, Told, Uncut, MayEndEarly, GcpNet!Reads, GcpNet!Of,
       GcpNet!Inventory
  <2> QED BY <1>16, <1>u, <1>o, <2>1 DEF KeepsPromise, Throws, Holds, ReadAs,
      GcpNet!Verdict, GcpNet!RunServicesPrivate, GcpNet!Finding, GcpNet!None, GcpNet!Held
<1>17. CASE f = "SubnetsLogged"
  <2>1. /\ Holds(Page, "subnets", c, v)
        /\ Holds(Part("subnets"), "unloggedSubnets", c, v)
        /\ (Told(K, v) <=> v.ok.subnets /\ v.ok.unloggedSubnets)
        /\ (Uncut(K, c, v) <=> (v.ok.subnets => v.n.subnets = c.n.subnets))
    BY <1>17 DEF MayHold, Told, Uncut, MayEndEarly, GcpNet!Reads, GcpNet!Of,
       GcpNet!Inventory
  <2> QED BY <1>17, <1>u, <1>o, <2>1 DEF KeepsPromise, Throws, Holds, ReadAs,
      GcpNet!Verdict, GcpNet!SubnetsLogged, GcpNet!Finding, GcpNet!None, GcpNet!Held
<1>18. CASE f = "ClusterNetworkPolicy"
  <2>1. /\ Holds(Whole, "clusters", c, v)
        /\ Holds(Part("clusters"), "noNetworkPolicy", c, v)
        /\ (Told(K, v) <=> v.ok.clusters /\ v.ok.noNetworkPolicy) /\ Uncut(K, c, v)
    BY <1>18 DEF MayHold, Told, Uncut, MayEndEarly, GcpNet!Reads, GcpNet!Of,
       GcpNet!Inventory
  <2> QED BY <1>18, <1>u, <2>1 DEF KeepsPromise, Throws, Holds, ReadAs, GcpNet!Verdict,
      GcpNet!ClusterNetworkPolicy, GcpNet!Finding, GcpNet!None, GcpNet!Held
<1>19. CASE f = "NetworkPresent"
  <2>1. /\ Holds(Page, "networks", c, v) /\ (Told(K, v) <=> v.ok.networks)
        /\ (Uncut(K, c, v) <=> (v.ok.networks => v.n.networks = c.n.networks))
    BY <1>19 DEF MayHold, Told, Uncut, MayEndEarly, GcpNet!Reads, GcpNet!Of,
       GcpNet!Inventory
  <2> QED BY <1>19, <2>1 DEF KeepsPromise, Throws, Holds, ReadAs, GcpNet!Verdict,
      GcpNet!NetworkPresent, GcpNet!Finding, GcpNet!Held
<1>20. CASE f = "WorkloadIdentity"
  <2>1. /\ Holds(Whole, "clusters", c, v)
        /\ Holds(Part("clusters"), "noWorkloadIdentity", c, v)
        /\ (Told(K, v) <=> v.ok.clusters /\ v.ok.noWorkloadIdentity) /\ Uncut(K, c, v)
    BY <1>20 DEF MayHold, Told, Uncut, MayEndEarly, GcpNet!Reads, GcpNet!Of,
       GcpNet!Inventory
  <2> QED BY <1>20, <1>u, <2>1 DEF KeepsPromise, Throws, Holds, ReadAs, GcpNet!Verdict,
      GcpNet!WorkloadIdentity, GcpNet!Finding, GcpNet!None, GcpNet!Held
<1>21. CASE f = "RateLimitedArmor"
  <2>1. /\ Holds(Page, "armor", c, v) /\ Holds(Part("armor"), "rateArmor", c, v)
        /\ (Told(K, v) <=> v.ok.armor /\ v.ok.rateArmor)
        /\ (Uncut(K, c, v) <=> (v.ok.armor => v.n.armor = c.n.armor))
    BY <1>21 DEF MayHold, Told, Uncut, MayEndEarly, GcpNet!Reads, GcpNet!Of,
       GcpNet!Inventory
  <2> QED BY <1>21, <1>m, <2>1 DEF KeepsPromise, Throws, Holds, ReadAs, GcpNet!Verdict,
      GcpNet!RateLimitedArmor, GcpNet!Finding, GcpNet!Held
<1>22. CASE f = "ProxiesHavePolicy"
  <2>1. /\ Holds(Page, "proxies", c, v) /\ Holds(Part("proxies"), "noPolicy", c, v)
        /\ (Told(K, v) <=> v.ok.proxies /\ v.ok.noPolicy)
        /\ (Uncut(K, c, v) <=> (v.ok.proxies => v.n.proxies = c.n.proxies))
    BY <1>22 DEF MayHold, Told, Uncut, MayEndEarly, GcpNet!Reads, GcpNet!Of, GcpNet!SvcSnt
  <2> QED BY <1>22, <1>u, <1>o, <2>1 DEF KeepsPromise, Throws, Holds, ReadAs,
      GcpNet!Verdict, GcpNet!ProxiesHavePolicy, GcpNet!Finding, GcpNet!None, GcpNet!Held
<1>23. CASE f = "NoWeakPolicy"
  <2>1. /\ Holds(Page, "proxies", c, v) /\ Holds(Each("proxies"), "weakPolicy", c, v)
        /\ (Told(K, v) <=> v.ok.proxies /\ v.ok.weakPolicy)
        /\ (Uncut(K, c, v) <=> (v.ok.proxies => v.n.proxies = c.n.proxies))
    BY <1>23 DEF MayHold, Told, Uncut, MayEndEarly, GcpNet!Reads, GcpNet!Of, GcpNet!SvcSnt
  <2> QED BY <1>23, <1>u, <1>o, <2>1 DEF KeepsPromise, Throws, Holds, ReadAs,
      GcpNet!Verdict, GcpNet!NoWeakPolicy, GcpNet!Finding, GcpNet!None, GcpNet!Held
<1>24. CASE f = "SqlRequiresSsl"
  <2>1. /\ Holds(Page, "sql", c, v) /\ Holds(Part("sql"), "noSsl", c, v)
        /\ (Told(K, v) <=> v.ok.sql /\ v.ok.noSsl)
        /\ (Uncut(K, c, v) <=> (v.ok.sql => v.n.sql = c.n.sql))
    BY <1>24 DEF MayHold, Told, Uncut, MayEndEarly, GcpNet!Reads, GcpNet!Of, GcpNet!SvcSnt
  <2> QED BY <1>24, <1>u, <1>o, <2>1 DEF KeepsPromise, Throws, Holds, ReadAs,
      GcpNet!Verdict, GcpNet!SqlRequiresSsl, GcpNet!Finding, GcpNet!None, GcpNet!Held
<1> QED BY <1>1, <1>2, <1>3, <1>4, <1>5, <1>6, <1>7, <1>8, <1>9, <1>10, <1>11, <1>12, <1>13,
    <1>14, <1>15, <1>16, <1>17, <1>18, <1>19, <1>20, <1>21, <1>22, <1>23, <1>24
    DEF GcpNet!Reads

(* The findings of providers/gcp/config.ts, crypto.ts and the others.         *)
LEMMA GcpPlatformKeepsPromises ==
  ASSUME NEW f \in DOMAIN GcpPlat!Reads, NEW c, NEW v, NEW K, K = GcpPlat!Reads[f],
         MayHold(K, c, v)
  PROVE  KeepsPromise(<<"gcpPlat", f>>, K, c, v,
                      GcpPlat!Verdict(f, v), GcpPlat!Verdict(f, c))
<1>u. \A g \in {"AgencyCryptoDefaults", "BucketsExpire", "BucketsMultiRegion", "CertsRenew",
              "DatasetsExpire", "FindingsImproving", "GroupsRegional", "KeysRotate",
              "NoCriticalFindings", "NodesShielded", "RecommendationsManaged",
              "RotationOnTime", "RunIngressInternal", "SecretsRotate", "SqlPitr",
              "SqlRegional", "ValidatedModules"} :
         <<"gcpPlat", g>> \in Named(UngatedFindings)
  BY InTable DEF UngatedFindings
<1>o. \A g \in {"AgencyCryptoDefaults", "BucketsExpire", "BucketsMultiRegion", "CertsRenew",
              "ControllerInstalled", "DatasetsExpire", "FindingsImproving",
              "GroupsRegional", "KeysRotate", "NoCriticalFindings",
              "RecommendationsManaged", "RunIngressInternal", "SqlPitr", "SqlRegional",
              "ValidatedModules"} :
         <<"gcpPlat", g>> \in Named(OverlookingFindings)
  BY InTable DEF OverlookingFindings
<1>m. \A g \in {"ControllerInstalled", "FindingsImproving", "IacPipeline", "MeshEnabled",
              "RecentBackups", "SnapshotsScheduled"} :
         <<"gcpPlat", g>> \in Named(MissingFindings)
  BY InTable DEF MissingFindings
<1>n. \A g \in {"DatasetsExpire", "RunIngressInternal"} :
         <<"gcpPlat", g>> \in Named(NamelessFindings)
  BY InTable DEF NamelessFindings
<1> USE DEF Given, Whole, Scan, Page, Skim, Each, Part, GcpPlat!Given, GcpPlat!Whole,
  GcpPlat!Scan, GcpPlat!Page, GcpPlat!Skim, GcpPlat!Each, GcpPlat!Part
<1>1. CASE f = "FeedsActive"
  <2>1. Holds(Whole, "feeds", c, v) /\ (Told(K, v) <=> v.ok.feeds) /\ Uncut(K, c, v)
    BY <1>1 DEF MayHold, Told, Uncut, MayEndEarly, GcpPlat!Reads, GcpPlat!Of, GcpPlat!CnaEis
  <2> QED BY <1>1, <2>1 DEF KeepsPromise, Throws, Holds, ReadAs, GcpPlat!Verdict,
      GcpPlat!FeedsActive, GcpPlat!Finding, GcpPlat!Held
<1>2. CASE f = "ControllerInstalled"
  <2>1. /\ Holds(Page, "features", c, v) /\ Holds(Part("features"), "controller", c, v)
        /\ Holds(Part("controller"), "uninstalled", c, v)
        /\ (Told(K, v) <=> v.ok.features /\ v.ok.controller /\ v.ok.uninstalled)
        /\ (Uncut(K, c, v) <=> (v.ok.features => v.n.features = c.n.features))
    BY <1>2 DEF MayHold, Told, Uncut, MayEndEarly, GcpPlat!Reads, GcpPlat!Of, GcpPlat!CnaEis
  <2> QED BY <1>2, <1>o, <1>m, <2>1 DEF KeepsPromise, Throws, Holds, ReadAs,
      GcpPlat!Verdict, GcpPlat!ControllerInstalled, GcpPlat!Finding, GcpPlat!Held,
      GcpPlat!None
<1>3. CASE f = "NotificationsConfigured"
  <2>1. /\ Holds(Page, "notifications", c, v) /\ (Told(K, v) <=> v.ok.notifications)
        /\ (Uncut(K, c, v) <=> (v.ok.notifications => v.n.notifications = c.n.notifications))
    BY <1>3 DEF MayHold, Told, Uncut, MayEndEarly, GcpPlat!Reads, GcpPlat!Of, GcpPlat!CnaEis
  <2> QED BY <1>3, <2>1 DEF KeepsPromise, Throws, Holds, ReadAs, GcpPlat!Verdict,
      GcpPlat!NotificationsConfigured, GcpPlat!Finding, GcpPlat!Held
<1>4. CASE f = "NoCriticalFindings"
  <2>1. /\ Holds(Page, "healthFindings", c, v)
        /\ Holds(Part("healthFindings"), "critical", c, v)
        /\ (Told(K, v) <=> v.ok.healthFindings /\ v.ok.critical)
        /\ (Uncut(K, c, v) <=> (v.ok.healthFindings => v.n.healthFindings = c.n.healthFindings))
    BY <1>4 DEF MayHold, Told, Uncut, MayEndEarly, GcpPlat!Reads, GcpPlat!Of, GcpPlat!CnaIbp
  <2> QED BY <1>4, <1>u, <1>o, <2>1 DEF KeepsPromise, Throws, Holds, ReadAs,
      GcpPlat!Verdict, GcpPlat!NoCriticalFindings, GcpPlat!Finding, GcpPlat!None
<1>5. CASE f = "RecommendationsManaged"
  <2>1. /\ Holds(Skim, "recommendations", c, v)
        /\ Holds(Part("recommendations"), "recommendationsOver25", c, v)
        /\ (Told(K, v) <=> v.ok.recommendations /\ v.ok.recommendationsOver25)
        /\ (Uncut(K, c, v) <=> (v.ok.recommendations => v.n.recommendations = c.n.recommendations))
    BY <1>5 DEF MayHold, Told, Uncut, MayEndEarly, GcpPlat!Reads, GcpPlat!Of, GcpPlat!CnaIbp
  <2> QED BY <1>5, <1>u, <1>o, <2>1 DEF KeepsPromise, Throws, Holds, ReadAs,
      GcpPlat!Verdict, GcpPlat!RecommendationsManaged, GcpPlat!Finding, GcpPlat!None
<1>6. CASE f = "IacPipeline"
  <2>1. /\ Holds(Page, "triggers", c, v) /\ Holds(Page, "features", c, v)
        /\ Holds(Part("features"), "controller", c, v)
        /\ (Told(K, v) <=> v.ok.triggers /\ v.ok.features /\ v.ok.controller)
        /\ (Uncut(K, c, v) <=> (v.ok.triggers => v.n.triggers = c.n.triggers)
                            /\ (v.ok.features => v.n.features = c.n.features))
    BY <1>6 DEF MayHold, Told, Uncut, MayEndEarly, GcpPlat!Reads, GcpPlat!Of, GcpPlat!SvcAcm
  <2> QED BY <1>6, <1>m, <2>1 DEF KeepsPromise, Throws, Holds, ReadAs, GcpPlat!Verdict,
      GcpPlat!IacPipeline, GcpPlat!Finding, GcpPlat!Held
<1>7. CASE f = "FindingsImproving"
  <2>1. /\ Holds(Page, "active", c, v) /\ Holds(Page, "inactive", c, v)
        /\ (Told(K, v) <=> v.ok.active /\ v.ok.inactive)
        /\ (Uncut(K, c, v) <=> (v.ok.active => v.n.active = c.n.active)
                            /\ (v.ok.inactive => v.n.inactive = c.n.inactive))
    BY <1>7 DEF MayHold, Told, Uncut, MayEndEarly, GcpPlat!Reads, GcpPlat!Of, GcpPlat!SvcEis
  <2> QED BY <1>7, <1>u, <1>o, <1>m, <2>1 DEF KeepsPromise, Throws, Holds, ReadAs,
      GcpPlat!Verdict, GcpPlat!FindingsImproving, GcpPlat!Finding
<1>8. CASE f = "CryptoInventoryBuilt"
  <2>1. /\ Holds(Skim, "keys", c, v) /\ Holds(Page, "policies", c, v)
        /\ (Told(K, v) <=> v.ok.keys /\ v.ok.policies)
        /\ (Uncut(K, c, v) <=> (v.ok.keys => v.n.keys = c.n.keys)
                            /\ (v.ok.policies => v.n.policies = c.n.policies))
    BY <1>8 DEF MayHold, Told, Uncut, MayEndEarly, GcpPlat!Reads, GcpPlat!Of, GcpPlat!Ucm
  <2> QED BY <1>8, <2>1 DEF KeepsPromise, Throws, Holds, ReadAs, GcpPlat!Verdict,
      GcpPlat!CryptoInventoryBuilt, GcpPlat!Finding, GcpPlat!Held
<1>9. CASE f = "AgencyCryptoDefaults"
  <2>1. /\ Holds(Skim, "keys", c, v) /\ Holds(Part("keys"), "externalKeys", c, v)
        /\ Holds(Page, "policies", c, v) /\ Holds(Part("policies"), "weakPolicies", c, v)
        /\ (Told(K, v) <=> v.ok.keys /\ v.ok.externalKeys /\ v.ok.policies
                        /\ v.ok.weakPolicies)
        /\ (Uncut(K, c, v) <=> (v.ok.keys => v.n.keys = c.n.keys)
                            /\ (v.ok.policies => v.n.policies = c.n.policies))
    BY <1>9 DEF MayHold, Told, Uncut, MayEndEarly, GcpPlat!Reads, GcpPlat!Of, GcpPlat!Ucm
  <2> QED BY <1>9, <1>u, <1>o, <2>1 DEF KeepsPromise, Throws, Holds, ReadAs,
      GcpPlat!Verdict, GcpPlat!AgencyCryptoDefaults, GcpPlat!Held, GcpPlat!Finding
<1>10. CASE f = "ValidatedModules"
  <2>1. /\ DOMAIN K = {"impact", "keys", "externalKeys", "policies", "weakPolicies"}
        /\ K.impact = Given /\ K.keys = Skim /\ K.externalKeys = Part("keys")
        /\ K.policies = Page /\ K.weakPolicies = Part("policies")
    BY <1>10 DEF GcpPlat!Reads, GcpPlat!Of, GcpPlat!Ucm
  <2>2. /\ Holds(Given, "impact", c, v) /\ Holds(Skim, "keys", c, v)
        /\ Holds(Part("keys"), "externalKeys", c, v) /\ Holds(Page, "policies", c, v)
        /\ Holds(Part("policies"), "weakPolicies", c, v)
        /\ (Told(K, v) <=> v.ok.impact /\ v.ok.keys /\ v.ok.externalKeys /\ v.ok.policies
                        /\ v.ok.weakPolicies)
        /\ (Uncut(K, c, v) <=> (v.ok.keys => v.n.keys = c.n.keys)
                            /\ (v.ok.policies => v.n.policies = c.n.policies))
    BY <2>1 DEF MayHold, Told, Uncut, MayEndEarly
  <2>3. KeepsPromise(<<"gcpPlat", f>>, K, c, v,
                     GcpPlat!ValidatedModules(v), GcpPlat!ValidatedModules(c))
    BY <1>10, <1>u, <1>o, <2>2 DEF KeepsPromise, Throws, Holds, ReadAs,
       GcpPlat!ValidatedModules, GcpPlat!Held, GcpPlat!Finding
  <2> QED BY <1>10, <2>3 DEF GcpPlat!Verdict
<1>11. CASE f = "BucketsExpire"
  <2>1. /\ Holds(Page, "buckets", c, v) /\ Holds(Part("buckets"), "noLifecycle", c, v)
        /\ (Told(K, v) <=> v.ok.buckets /\ v.ok.noLifecycle)
        /\ (Uncut(K, c, v) <=> (v.ok.buckets => v.n.buckets = c.n.buckets))
    BY <1>11 DEF MayHold, Told, Uncut, MayEndEarly, GcpPlat!Reads, GcpPlat!Of,
       GcpPlat!SvcRud
  <2> QED BY <1>11, <1>u, <1>o, <2>1 DEF KeepsPromise, Throws, Holds, ReadAs,
      GcpPlat!Verdict, GcpPlat!BucketsExpire, GcpPlat!Finding, GcpPlat!None, GcpPlat!Held
<1>12. CASE f = "DatasetsExpire"
  <2>1. /\ Holds(Page, "datasets", c, v) /\ Holds(Each("datasets"), "noExpiration", c, v)
        /\ (Told(K, v) <=> v.ok.datasets /\ v.ok.noExpiration)
        /\ (Uncut(K, c, v) <=> (v.ok.datasets => v.n.datasets = c.n.datasets))
    BY <1>12 DEF MayHold, Told, Uncut, MayEndEarly, GcpPlat!Reads, GcpPlat!Of,
       GcpPlat!SvcRud
  <2> QED BY <1>12, <1>u, <1>o, <1>n, <2>1 DEF KeepsPromise, Throws, Holds, ReadAs,
      GcpPlat!Verdict, GcpPlat!DatasetsExpire, GcpPlat!Finding, GcpPlat!None
<1>13. CASE f = "DeletionDemonstrated"
  <2>1. Told(K, v) /\ Uncut(K, c, v)
    BY <1>13 DEF MayHold, Told, Uncut, MayEndEarly, GcpPlat!Reads, GcpPlat!Of,
       GcpPlat!SvcRud
  <2> QED BY <1>13, <2>1 DEF KeepsPromise, Throws, Holds, ReadAs, GcpPlat!Verdict,
      GcpPlat!DeletionDemonstrated, GcpPlat!Finding
<1>14. CASE f = "MeshEnabled"
  <2>1. /\ Holds(Page, "features", c, v) /\ Holds(Part("features"), "mesh", c, v)
        /\ (Told(K, v) <=> v.ok.features /\ v.ok.mesh)
        /\ (Uncut(K, c, v) <=> (v.ok.features => v.n.features = c.n.features))
    BY <1>14 DEF MayHold, Told, Uncut, MayEndEarly, GcpPlat!Reads, GcpPlat!Of,
       GcpPlat!SvcVcm
  <2> QED BY <1>14, <1>m, <2>1 DEF KeepsPromise, Throws, Holds, ReadAs, GcpPlat!Verdict,
      GcpPlat!MeshEnabled, GcpPlat!Finding, GcpPlat!Held
<1>15. CASE f = "RunIngressInternal"
  <2>1. /\ Holds(Page, "runServices", c, v)
        /\ Holds(Part("runServices"), "internal", c, v)
        /\ (Told(K, v) <=> v.ok.runServices /\ v.ok.internal)
        /\ (Uncut(K, c, v) <=> (v.ok.runServices => v.n.runServices = c.n.runServices))
    BY <1>15 DEF MayHold, Told, Uncut, MayEndEarly, GcpPlat!Reads, GcpPlat!Of,
       GcpPlat!SvcVcm
  <2> QED BY <1>15, <1>u, <1>o, <1>n, <2>1 DEF KeepsPromise, Throws, Holds, ReadAs,
      GcpPlat!Verdict, GcpPlat!RunIngressInternal, GcpPlat!Finding
<1>16. CASE f = "AttestationEnforced"
  <2>1. /\ Holds(Whole, "attestation", c, v) /\ Holds(Page, "attestors", c, v)
        /\ (Told(K, v) <=> v.ok.attestation /\ v.ok.attestors)
        /\ (Uncut(K, c, v) <=> (v.ok.attestors => v.n.attestors = c.n.attestors))
    BY <1>16 DEF MayHold, Told, Uncut, MayEndEarly, GcpPlat!Reads, GcpPlat!Of,
       GcpPlat!SvcVri
  <2> QED BY <1>16, <2>1 DEF KeepsPromise, Throws, Holds, ReadAs, GcpPlat!Verdict,
      GcpPlat!AttestationEnforced, GcpPlat!Finding, GcpPlat!Held
<1>17. CASE f = "NodesShielded"
  <2>1. /\ Holds(Whole, "clusters", c, v) /\ Holds(Part("clusters"), "shielded", c, v)
        /\ (Told(K, v) <=> v.ok.clusters /\ v.ok.shielded) /\ Uncut(K, c, v)
    BY <1>17 DEF MayHold, Told, Uncut, MayEndEarly, GcpPlat!Reads, GcpPlat!Of,
       GcpPlat!SvcVri
  <2> QED BY <1>17, <1>u, <2>1 DEF KeepsPromise, Throws, Holds, ReadAs, GcpPlat!Verdict,
      GcpPlat!NodesShielded, GcpPlat!Finding
<1>18. CASE f = "GroupsRegional"
  <2>1. /\ Holds(Page, "groups", c, v) /\ Holds(Part("groups"), "zonalGroups", c, v)
        /\ (Told(K, v) <=> v.ok.groups /\ v.ok.zonalGroups)
        /\ (Uncut(K, c, v) <=> (v.ok.groups => v.n.groups = c.n.groups))
    BY <1>18 DEF MayHold, Told, Uncut, MayEndEarly, GcpPlat!Reads, GcpPlat!Of,
       GcpPlat!CnaOfa
  <2> QED BY <1>18, <1>u, <1>o, <2>1 DEF KeepsPromise, Throws, Holds, ReadAs,
      GcpPlat!Verdict, GcpPlat!GroupsRegional, GcpPlat!Finding, GcpPlat!None, GcpPlat!Held
<1>19. CASE f = "SqlRegional"
  <2>1. /\ Holds(Page, "sql", c, v) /\ Holds(Part("sql"), "zonalSql", c, v)
        /\ (Told(K, v) <=> v.ok.sql /\ v.ok.zonalSql)
        /\ (Uncut(K, c, v) <=> (v.ok.sql => v.n.sql = c.n.sql))
    BY <1>19 DEF MayHold, Told, Uncut, MayEndEarly, GcpPlat!Reads, GcpPlat!Of,
       GcpPlat!CnaOfa
  <2> QED BY <1>19, <1>u, <1>o, <2>1 DEF KeepsPromise, Throws, Holds, ReadAs,
      GcpPlat!Verdict, GcpPlat!SqlRegional, GcpPlat!Finding, GcpPlat!None, GcpPlat!Held
<1>20. CASE f = "BucketsMultiRegion"
  <2>1. /\ Holds(Page, "buckets", c, v) /\ Holds(Part("buckets"), "oneRegion", c, v)
        /\ (Told(K, v) <=> v.ok.buckets /\ v.ok.oneRegion)
        /\ (Uncut(K, c, v) <=> (v.ok.buckets => v.n.buckets = c.n.buckets))
    BY <1>20 DEF MayHold, Told, Uncut, MayEndEarly, GcpPlat!Reads, GcpPlat!Of,
       GcpPlat!CnaOfa
  <2> QED BY <1>20, <1>u, <1>o, <2>1 DEF KeepsPromise, Throws, Holds, ReadAs,
      GcpPlat!Verdict, GcpPlat!BucketsMultiRegion, GcpPlat!Finding, GcpPlat!None,
      GcpPlat!Held
<1>21. CASE f = "SqlPitr"
  <2>1. /\ Holds(Page, "sql", c, v) /\ Holds(Part("sql"), "noPitr", c, v)
        /\ (Told(K, v) <=> v.ok.sql /\ v.ok.noPitr)
        /\ (Uncut(K, c, v) <=> (v.ok.sql => v.n.sql = c.n.sql))
    BY <1>21 DEF MayHold, Told, Uncut, MayEndEarly, GcpPlat!Reads, GcpPlat!Of,
       GcpPlat!RplAbo
  <2> QED BY <1>21, <1>u, <1>o, <2>1 DEF KeepsPromise, Throws, Holds, ReadAs,
      GcpPlat!Verdict, GcpPlat!SqlPitr, GcpPlat!Finding, GcpPlat!None, GcpPlat!Held
<1>22. CASE f = "SnapshotsScheduled"
  <2>1. /\ Holds(Page, "policies", c, v)
        /\ Holds(Part("policies"), "snapshotPolicies", c, v)
        /\ (Told(K, v) <=> v.ok.policies /\ v.ok.snapshotPolicies)
        /\ (Uncut(K, c, v) <=> (v.ok.policies => v.n.policies = c.n.policies))
    BY <1>22 DEF MayHold, Told, Uncut, MayEndEarly, GcpPlat!Reads, GcpPlat!Of,
       GcpPlat!RplAbo
  <2> QED BY <1>22, <1>m, <2>1 DEF KeepsPromise, Throws, Holds, ReadAs, GcpPlat!Verdict,
      GcpPlat!SnapshotsScheduled, GcpPlat!Finding, GcpPlat!Held
<1>23. CASE f = "RecentBackups"
  <2>1. /\ Holds(Page, "sql", c, v) /\ Holds(Each("sql"), "backedUp", c, v)
        /\ (Told(K, v) <=> v.ok.sql /\ v.ok.backedUp)
        /\ (Uncut(K, c, v) <=> (v.ok.sql => v.n.sql = c.n.sql))
    BY <1>23 DEF MayHold, Told, Uncut, MayEndEarly, GcpPlat!Reads, GcpPlat!Of,
       GcpPlat!RplTrc
  <2> QED BY <1>23, <1>m, <2>1 DEF KeepsPromise, Throws, Holds, ReadAs, GcpPlat!Verdict,
      GcpPlat!RecentBackups, GcpPlat!Finding, GcpPlat!Held
<1>24. CASE f = "SecretsUsed"
  <2>1. /\ Holds(Scan, "secrets", c, v) /\ (Told(K, v) <=> v.ok.secrets)
        /\ Uncut(K, c, v)
    BY <1>24 DEF MayHold, Told, Uncut, MayEndEarly, GcpPlat!Reads, GcpPlat!Of,
       GcpPlat!SvcAsm
  <2> QED BY <1>24, <2>1 DEF KeepsPromise, Throws, Holds, ReadAs, GcpPlat!Verdict,
      GcpPlat!SecretsUsed, GcpPlat!Finding, GcpPlat!Held
<1>25. CASE f = "SecretsRotate"
  <2>1. /\ Holds(Scan, "secrets", c, v) /\ Holds(Part("secrets"), "rotating", c, v)
        /\ (Told(K, v) <=> v.ok.secrets /\ v.ok.rotating) /\ Uncut(K, c, v)
    BY <1>25 DEF MayHold, Told, Uncut, MayEndEarly, GcpPlat!Reads, GcpPlat!Of,
       GcpPlat!SvcAsm
  <2> QED BY <1>25, <1>u, <2>1 DEF KeepsPromise, Throws, Holds, ReadAs, GcpPlat!Verdict,
      GcpPlat!SecretsRotate, GcpPlat!Finding
<1>26. CASE f = "RotationOnTime"
  <2>1. /\ Holds(Scan, "secrets", c, v) /\ Holds(Part("secrets"), "overdue", c, v)
        /\ (Told(K, v) <=> v.ok.secrets /\ v.ok.overdue) /\ Uncut(K, c, v)
    BY <1>26 DEF MayHold, Told, Uncut, MayEndEarly, GcpPlat!Reads, GcpPlat!Of,
       GcpPlat!SvcAsm
  <2> QED BY <1>26, <1>u, <2>1 DEF KeepsPromise, Throws, Holds, ReadAs, GcpPlat!Verdict,
      GcpPlat!RotationOnTime, GcpPlat!Finding, GcpPlat!None, GcpPlat!Held
<1>27. CASE f = "KeysRotate"
  <2>1. /\ Holds(Skim, "keys", c, v) /\ Holds(Part("keys"), "noRotation", c, v)
        /\ Holds(Part("keys"), "slowRotation", c, v)
        /\ (Told(K, v) <=> v.ok.keys /\ v.ok.noRotation /\ v.ok.slowRotation)
        /\ (Uncut(K, c, v) <=> (v.ok.keys => v.n.keys = c.n.keys))
    BY <1>27 DEF MayHold, Told, Uncut, MayEndEarly, GcpPlat!Reads, GcpPlat!Of,
       GcpPlat!SvcAsm
  <2> QED BY <1>27, <1>u, <1>o, <2>1 DEF KeepsPromise, Throws, Holds, ReadAs,
      GcpPlat!Verdict, GcpPlat!KeysRotate, GcpPlat!Held, GcpPlat!Finding
<1>28. CASE f = "CertsRenew"
  <2>1. /\ Holds(Skim, "certs", c, v) /\ Holds(Part("certs"), "expiring", c, v)
        /\ (Told(K, v) <=> v.ok.certs /\ v.ok.expiring)
        /\ (Uncut(K, c, v) <=> (v.ok.certs => v.n.certs = c.n.certs))
    BY <1>28 DEF MayHold, Told, Uncut, MayEndEarly, GcpPlat!Reads, GcpPlat!Of,
       GcpPlat!SvcAsm
  <2> QED BY <1>28, <1>u, <1>o, <2>1 DEF KeepsPromise, Throws, Holds, ReadAs,
      GcpPlat!Verdict, GcpPlat!CertsRenew, GcpPlat!Finding, GcpPlat!None, GcpPlat!Held
<1> QED BY <1>1, <1>2, <1>3, <1>4, <1>5, <1>6, <1>7, <1>8, <1>9, <1>10, <1>11, <1>12, <1>13,
    <1>14, <1>15, <1>16, <1>17, <1>18, <1>19, <1>20, <1>21, <1>22, <1>23, <1>24, <1>25,
    <1>26, <1>27, <1>28 DEF GcpPlat!Reads

(* The findings of providers/gcp/supplychain.ts and the others.               *)
LEMMA GcpOperationsKeepsPromises ==
  ASSUME NEW f \in DOMAIN GcpOps!Reads, NEW c, NEW v, NEW K, K = GcpOps!Reads[f],
         MayHold(K, c, v)
  PROVE  KeepsPromise(<<"gcpOps", f>>, K, c, v, GcpOps!Verdict(f, v), GcpOps!Verdict(f, c))
<1>u. \A g \in {"AlternateSite", "BuildsScan", "CustomerKeys", "NoResidualExposure",
              "NoSlaBreaches", "RevisionsPinned"} :
         <<"gcpOps", g>> \in Named(UngatedFindings)
  BY InTable DEF UngatedFindings
<1>o. \A g \in {"AlternateSite", "BackupsEnabled", "CuratedApis", "NoResidualExposure",
              "NoSlaBreaches", "PrivateEgress", "RevisionsPinned", "SqlPrivateOnly",
              "StateIntegrity"} :
         <<"gcpOps", g>> \in Named(OverlookingFindings)
  BY InTable DEF OverlookingFindings
<1>m. \A g \in {"AlertingAutomated", "AssuredWorkloads", "BaselinePolicies", "BuildsScan",
              "CustomerKeys", "DnsLogged", "HistoryDurable", "ServicePerimeters"} :
         <<"gcpOps", g>> \in Named(MissingFindings)
  BY InTable DEF MissingFindings
<1> USE DEF Given, Whole, Page, Skim, Bare, Peek, Each, Part, GcpOps!Given, GcpOps!Whole,
  GcpOps!Page, GcpOps!Skim, GcpOps!Bare, GcpOps!Peek, GcpOps!Each, GcpOps!Part
<1>1. CASE f = "RegistryPresent"
  <2>1. /\ Holds(Skim, "repos", c, v) /\ (Told(K, v) <=> v.ok.repos)
        /\ (Uncut(K, c, v) <=> (v.ok.repos => v.n.repos = c.n.repos))
    BY <1>1 DEF MayHold, Told, Uncut, MayEndEarly, GcpOps!Reads, GcpOps!Of, GcpOps!CmtRmv
  <2> QED BY <1>1, <2>1 DEF KeepsPromise, Throws, Holds, ReadAs, GcpOps!Verdict,
      GcpOps!RegistryPresent, GcpOps!Finding, GcpOps!Held
<1>2. CASE f = "RevisionsPinned"
  <2>1. /\ Holds(Page, "runServices", c, v)
        /\ Holds(Part("runServices"), "onLatest", c, v)
        /\ (Told(K, v) <=> v.ok.runServices /\ v.ok.onLatest)
        /\ (Uncut(K, c, v) <=> (v.ok.runServices => v.n.runServices = c.n.runServices))
    BY <1>2 DEF MayHold, Told, Uncut, MayEndEarly, GcpOps!Reads, GcpOps!Of, GcpOps!CmtRmv
  <2> QED BY <1>2, <1>u, <1>o, <2>1 DEF KeepsPromise, Throws, Holds, ReadAs, GcpOps!Verdict,
      GcpOps!RevisionsPinned, GcpOps!Finding, GcpOps!None, GcpOps!Held
<1>3. CASE f = "AttestationRequired"
  <2>1. /\ Holds(Whole, "attestation", c, v) /\ (Told(K, v) <=> v.ok.attestation)
        /\ Uncut(K, c, v)
    BY <1>3 DEF MayHold, Told, Uncut, MayEndEarly, GcpOps!Reads, GcpOps!Of, GcpOps!CmtRmv
  <2> QED BY <1>3, <2>1 DEF KeepsPromise, Throws, Holds, ReadAs, GcpOps!Verdict,
      GcpOps!AttestationRequired, GcpOps!Finding, GcpOps!Held
<1>4. CASE f = "BuildsScan"
  <2>1. /\ Holds(Page, "triggers", c, v) /\ Holds(Part("triggers"), "scanning", c, v)
        /\ (Told(K, v) <=> v.ok.triggers /\ v.ok.scanning)
        /\ (Uncut(K, c, v) <=> (v.ok.triggers => v.n.triggers = c.n.triggers))
    BY <1>4 DEF MayHold, Told, Uncut, MayEndEarly, GcpOps!Reads, GcpOps!Of, GcpOps!CmtVtd
  <2> QED BY <1>4, <1>u, <1>m, <2>1 DEF KeepsPromise, Throws, Holds, ReadAs, GcpOps!Verdict,
      GcpOps!BuildsScan, GcpOps!Finding, GcpOps!None, GcpOps!Held
<1>5. CASE f = "AttestorsPresent"
  <2>1. /\ Holds(Page, "attestors", c, v) /\ (Told(K, v) <=> v.ok.attestors)
        /\ (Uncut(K, c, v) <=> (v.ok.attestors => v.n.attestors = c.n.attestors))
    BY <1>5 DEF MayHold, Told, Uncut, MayEndEarly, GcpOps!Reads, GcpOps!Of, GcpOps!CmtVtd
  <2> QED BY <1>5, <2>1 DEF KeepsPromise, Throws, Holds, ReadAs, GcpOps!Verdict,
      GcpOps!AttestorsPresent, GcpOps!Finding, GcpOps!Held
<1>6. CASE f = "ScanningSurfaced"
  <2>1. /\ Holds(Page, "vulnerabilities", c, v) /\ (Told(K, v) <=> v.ok.vulnerabilities)
        /\ (Uncut(K, c, v) <=> (v.ok.vulnerabilities => v.n.vulnerabilities = c.n.vulnerabilities))
    BY <1>6 DEF MayHold, Told, Uncut, MayEndEarly, GcpOps!Reads, GcpOps!Of, GcpOps!CmtVtd
  <2> QED BY <1>6, <2>1 DEF KeepsPromise, Throws, Holds, ReadAs, GcpOps!Verdict,
      GcpOps!ScanningSurfaced, GcpOps!Finding
<1>7. CASE f = "ScanningActive"
  <2>1. /\ Holds(Page, "vulnerabilities", c, v) /\ (Told(K, v) <=> v.ok.vulnerabilities)
        /\ (Uncut(K, c, v) <=> (v.ok.vulnerabilities => v.n.vulnerabilities = c.n.vulnerabilities))
    BY <1>7 DEF MayHold, Told, Uncut, MayEndEarly, GcpOps!Reads, GcpOps!Of, GcpOps!ScrMon
  <2> QED BY <1>7, <2>1 DEF KeepsPromise, Throws, Holds, ReadAs, GcpOps!Verdict,
      GcpOps!ScanningActive, GcpOps!Finding
<1>8. CASE f = "AssetApiReachable"
  <2>1. /\ Holds(Page, "assets", c, v) /\ (Told(K, v) <=> v.ok.assets)
        /\ (Uncut(K, c, v) <=> (v.ok.assets => v.n.assets = c.n.assets))
    BY <1>8 DEF MayHold, Told, Uncut, MayEndEarly, GcpOps!Reads, GcpOps!Of, GcpOps!PiyGiv
  <2> QED BY <1>8, <2>1 DEF KeepsPromise, Throws, Holds, ReadAs, GcpOps!Verdict,
      GcpOps!AssetApiReachable, GcpOps!Finding
<1>9. CASE f = "ChangesMonitored"
  <2>1. Holds(Whole, "feeds", c, v) /\ (Told(K, v) <=> v.ok.feeds) /\ Uncut(K, c, v)
    BY <1>9 DEF MayHold, Told, Uncut, MayEndEarly, GcpOps!Reads, GcpOps!Of, GcpOps!CmtRvp
  <2> QED BY <1>9, <2>1 DEF KeepsPromise, Throws, Holds, ReadAs, GcpOps!Verdict,
      GcpOps!ChangesMonitored, GcpOps!Finding, GcpOps!Held
<1>10. CASE f = "AlertingAutomated"
  <2>1. /\ Holds(Page, "alertPolicies", c, v)
        /\ Holds(Part("alertPolicies"), "enabled", c, v)
        /\ (Told(K, v) <=> v.ok.alertPolicies /\ v.ok.enabled)
        /\ (Uncut(K, c, v) <=> (v.ok.alertPolicies => v.n.alertPolicies = c.n.alertPolicies))
    BY <1>10 DEF MayHold, Told, Uncut, MayEndEarly, GcpOps!Reads, GcpOps!Of, GcpOps!InrAar
  <2> QED BY <1>10, <1>m, <2>1 DEF KeepsPromise, Throws, Holds, ReadAs, GcpOps!Verdict,
      GcpOps!AlertingAutomated, GcpOps!Finding, GcpOps!Held
<1>11. CASE f = "HistoryDurable"
  <2>1. /\ Holds(Page, "sinks", c, v) /\ Holds(Part("sinks"), "durable", c, v)
        /\ (Told(K, v) <=> v.ok.sinks /\ v.ok.durable)
        /\ (Uncut(K, c, v) <=> (v.ok.sinks => v.n.sinks = c.n.sinks))
    BY <1>11 DEF MayHold, Told, Uncut, MayEndEarly, GcpOps!Reads, GcpOps!Of, GcpOps!InrRpi
  <2> QED BY <1>11, <1>m, <2>1 DEF KeepsPromise, Throws, Holds, ReadAs, GcpOps!Verdict,
      GcpOps!HistoryDurable, GcpOps!Finding, GcpOps!Held
<1>12. CASE f = "AlternateSite"
  <2>1. /\ Holds(Page, "sql", c, v) /\ Holds(Part("sql"), "zonal", c, v)
        /\ (Told(K, v) <=> v.ok.sql /\ v.ok.zonal)
        /\ (Uncut(K, c, v) <=> (v.ok.sql => v.n.sql = c.n.sql))
    BY <1>12 DEF MayHold, Told, Uncut, MayEndEarly, GcpOps!Reads, GcpOps!Of, GcpOps!RplArp
  <2> QED BY <1>12, <1>u, <1>o, <2>1 DEF KeepsPromise, Throws, Holds, ReadAs,
      GcpOps!Verdict, GcpOps!AlternateSite, GcpOps!Finding, GcpOps!None, GcpOps!Held
<1>13. CASE f = "BackupsEnabled"
  <2>1. /\ Holds(Page, "sql", c, v) /\ Holds(Part("sql"), "noBackup", c, v)
        /\ (Told(K, v) <=> v.ok.sql /\ v.ok.noBackup)
        /\ (Uncut(K, c, v) <=> (v.ok.sql => v.n.sql = c.n.sql))
    BY <1>13 DEF MayHold, Told, Uncut, MayEndEarly, GcpOps!Reads, GcpOps!Of, GcpOps!RplRro
  <2> QED BY <1>13, <1>o, <2>1 DEF KeepsPromise, Throws, Holds, ReadAs, GcpOps!Verdict,
      GcpOps!BackupsEnabled, GcpOps!Finding, GcpOps!Held, GcpOps!None
<1>14. CASE f = "ImagesAdmitted"
  <2>1. /\ Holds(Whole, "admission", c, v) /\ (Told(K, v) <=> v.ok.admission)
        /\ Uncut(K, c, v)
    BY <1>14 DEF MayHold, Told, Uncut, MayEndEarly, GcpOps!Reads, GcpOps!Of, GcpOps!ScrMit
  <2> QED BY <1>14, <2>1 DEF KeepsPromise, Throws, Holds, ReadAs, GcpOps!Verdict,
      GcpOps!ImagesAdmitted, GcpOps!Finding, GcpOps!Held
<1>15. CASE f = "NoResidualExposure"
  <2>1. /\ Holds(Page, "buckets", c, v) /\ Holds(Part("buckets"), "notPrevented", c, v)
        /\ Holds(Page, "sql", c, v) /\ Holds(Part("sql"), "publicSql", c, v)
        /\ (Told(K, v) <=> v.ok.buckets /\ v.ok.notPrevented /\ v.ok.sql /\ v.ok.publicSql)
        /\ (Uncut(K, c, v) <=> (v.ok.buckets => v.n.buckets = c.n.buckets)
                            /\ (v.ok.sql => v.n.sql = c.n.sql))
    BY <1>15 DEF MayHold, Told, Uncut, MayEndEarly, GcpOps!Reads, GcpOps!Of, GcpOps!SvcPrr
  <2> QED BY <1>15, <1>u, <1>o, <2>1 DEF KeepsPromise, Throws, Holds, ReadAs,
      GcpOps!Verdict, GcpOps!NoResidualExposure, GcpOps!Held, GcpOps!Finding
<1>16. CASE f = "DetectionEnabled"
  <2>1. /\ Holds(Skim, "occurrences", c, v) /\ (Told(K, v) <=> v.ok.occurrences)
        /\ (Uncut(K, c, v) <=> (v.ok.occurrences => v.n.occurrences = c.n.occurrences))
    BY <1>16 DEF MayHold, Told, Uncut, MayEndEarly, GcpOps!Reads, GcpOps!Of, GcpOps!VdrScan
  <2> QED BY <1>16, <2>1 DEF KeepsPromise, Throws, Holds, ReadAs, GcpOps!Verdict,
      GcpOps!DetectionEnabled, GcpOps!Answered, GcpOps!Finding, GcpOps!Held
<1>17. CASE f = "NoSlaBreaches"
  <2>1. /\ Holds(Skim, "occurrences", c, v)
        /\ Holds(Each("occurrences"), "overdue", c, v)
        /\ (Told(K, v) <=> v.ok.occurrences /\ v.ok.overdue)
        /\ (Uncut(K, c, v) <=> (v.ok.occurrences => v.n.occurrences = c.n.occurrences))
    BY <1>17 DEF MayHold, Told, Uncut, MayEndEarly, GcpOps!Reads, GcpOps!Of, GcpOps!VdrScan
  <2> QED BY <1>17, <1>u, <1>o, <2>1 DEF KeepsPromise, Throws, Holds, ReadAs,
      GcpOps!Verdict, GcpOps!NoSlaBreaches, GcpOps!Answered, GcpOps!Finding, GcpOps!Held,
      GcpOps!None
<1>18. CASE f = "AssuredWorkloads"
  <2>1. /\ Holds(Peek, "workloads", c, v) /\ Holds(Part("workloads"), "fedramp", c, v)
        /\ (Told(K, v) <=> v.ok.workloads /\ v.ok.fedramp)
        /\ (Uncut(K, c, v) <=> (v.ok.workloads => v.n.workloads = c.n.workloads))
    BY <1>18 DEF MayHold, Told, Uncut, MayEndEarly, GcpOps!Reads, GcpOps!Of, GcpOps!RefArch
  <2> QED BY <1>18, <1>m, <2>1 DEF KeepsPromise, Throws, Holds, ReadAs, GcpOps!Verdict,
      GcpOps!AssuredWorkloads, GcpOps!Finding, GcpOps!Held
<1>19. CASE f = "BaselinePolicies"
  <2>1. /\ Holds(Peek, "constraints", c, v)
        /\ Holds(Part("constraints"), "constraintsFrom3", c, v)
        /\ (Told(K, v) <=> v.ok.constraints /\ v.ok.constraintsFrom3)
        /\ (Uncut(K, c, v) <=> (v.ok.constraints => v.n.constraints = c.n.constraints))
    BY <1>19 DEF MayHold, Told, Uncut, MayEndEarly, GcpOps!Reads, GcpOps!Of, GcpOps!RefArch
  <2> QED BY <1>19, <1>m, <2>1 DEF KeepsPromise, Throws, Holds, ReadAs, GcpOps!Verdict,
      GcpOps!BaselinePolicies, GcpOps!Finding, GcpOps!Held
<1>20. CASE f = "ServicePerimeters"
  <2>1. /\ Holds(Peek, "policies", c, v) /\ Holds(Each("policies"), "perimeters", c, v)
        /\ (Told(K, v) <=> v.ok.policies /\ v.ok.perimeters)
        /\ (Uncut(K, c, v) <=> (v.ok.policies => v.n.policies = c.n.policies))
    BY <1>20 DEF MayHold, Told, Uncut, MayEndEarly, GcpOps!Reads, GcpOps!Of, GcpOps!RefArch
  <2> QED BY <1>20, <1>m, <2>1 DEF KeepsPromise, Throws, Holds, ReadAs, GcpOps!Verdict,
      GcpOps!ServicePerimeters, GcpOps!Finding, GcpOps!Held
<1>21. CASE f = "CustomerKeys"
  <2>1. /\ DOMAIN K = {"disks", "cmekDisks", "buckets", "cmekBuckets"} /\ K.disks = Peek
        /\ K.cmekDisks = Part("disks") /\ K.buckets = Page
        /\ K.cmekBuckets = Part("buckets")
    BY <1>21 DEF GcpOps!Reads, GcpOps!Of, GcpOps!RefCmek
  <2>2. /\ Holds(Peek, "disks", c, v) /\ Holds(Part("disks"), "cmekDisks", c, v)
        /\ Holds(Page, "buckets", c, v) /\ Holds(Part("buckets"), "cmekBuckets", c, v)
        /\ (Told(K, v) <=> v.ok.disks /\ v.ok.cmekDisks /\ v.ok.buckets /\ v.ok.cmekBuckets)
        /\ (Uncut(K, c, v) <=> (v.ok.disks => v.n.disks = c.n.disks)
                            /\ (v.ok.buckets => v.n.buckets = c.n.buckets))
    BY <2>1 DEF MayHold, Told, Uncut, MayEndEarly
  <2>3. KeepsPromise(<<"gcpOps", f>>, K, c, v,
                     GcpOps!CustomerKeys(v), GcpOps!CustomerKeys(c))
    BY <1>21, <1>u, <1>m, <2>2 DEF KeepsPromise, Throws, Holds, ReadAs, GcpOps!CustomerKeys,
       GcpOps!Finding, GcpOps!None, GcpOps!Held
  <2> QED BY <1>21, <2>3 DEF GcpOps!Verdict
<1>22. CASE f = "DataAccessAudit"
  <2>1. /\ Holds(Bare, "dataAccess", c, v) /\ (Told(K, v) <=> v.ok.dataAccess)
        /\ Uncut(K, c, v)
    BY <1>22 DEF MayHold, Told, Uncut, MayEndEarly, GcpOps!Reads, GcpOps!Of, GcpOps!RefArch
  <2> QED BY <1>22, <2>1 DEF KeepsPromise, Throws, Holds, ReadAs, GcpOps!Verdict,
      GcpOps!DataAccessAudit, GcpOps!Finding, GcpOps!Held
<1>23. CASE f = "CommandCenterOn"
  <2>1. /\ Holds(Peek, "sources", c, v) /\ (Told(K, v) <=> v.ok.sources)
        /\ (Uncut(K, c, v) <=> (v.ok.sources => v.n.sources = c.n.sources))
    BY <1>23 DEF MayHold, Told, Uncut, MayEndEarly, GcpOps!Reads, GcpOps!Of, GcpOps!RefArch
  <2> QED BY <1>23, <2>1 DEF KeepsPromise, Throws, Holds, ReadAs, GcpOps!Verdict,
      GcpOps!CommandCenterOn, GcpOps!Finding, GcpOps!Held
<1>24. CASE f = "PrivateEgress"
  <2>1. /\ Holds(Peek, "nats", c, v) /\ Holds(Peek, "instances", c, v)
        /\ Holds(Part("instances"), "external", c, v)
        /\ (Told(K, v) <=> v.ok.nats /\ v.ok.instances /\ v.ok.external)
        /\ (Uncut(K, c, v) <=> (v.ok.nats => v.n.nats = c.n.nats)
                            /\ (v.ok.instances => v.n.instances = c.n.instances))
    BY <1>24 DEF MayHold, Told, Uncut, MayEndEarly, GcpOps!Reads, GcpOps!Of,
       GcpOps!RefEgress
  <2> QED BY <1>24, <1>o, <2>1 DEF KeepsPromise, Throws, Holds, ReadAs, GcpOps!Verdict,
      GcpOps!PrivateEgress, GcpOps!Finding, GcpOps!None, GcpOps!Held
<1>25. CASE f = "NoPrimitiveAccounts"
  <2>1. /\ Holds(Bare, "primitiveAccounts", c, v)
        /\ (Told(K, v) <=> v.ok.primitiveAccounts) /\ Uncut(K, c, v)
    BY <1>25 DEF MayHold, Told, Uncut, MayEndEarly, GcpOps!Reads, GcpOps!Of, GcpOps!RefArch
  <2> QED BY <1>25, <2>1 DEF KeepsPromise, Throws, Holds, ReadAs, GcpOps!Verdict,
      GcpOps!NoPrimitiveAccounts, GcpOps!Finding, GcpOps!None, GcpOps!Held
<1>26. CASE f = "DnsLogged"
  <2>1. /\ Holds(Peek, "dns", c, v) /\ Holds(Part("dns"), "logged", c, v)
        /\ (Told(K, v) <=> v.ok.dns /\ v.ok.logged)
        /\ (Uncut(K, c, v) <=> (v.ok.dns => v.n.dns = c.n.dns))
    BY <1>26 DEF MayHold, Told, Uncut, MayEndEarly, GcpOps!Reads, GcpOps!Of, GcpOps!RefArch
  <2> QED BY <1>26, <1>m, <2>1 DEF KeepsPromise, Throws, Holds, ReadAs, GcpOps!Verdict,
      GcpOps!DnsLogged, GcpOps!Finding, GcpOps!None, GcpOps!Held
<1>27. CASE f = "CuratedApis"
  <2>1. /\ Holds(Given, "allowList", c, v) /\ Holds(Peek, "apis", c, v)
        /\ Holds(Part("apis"), "unexpected", c, v)
        /\ (Told(K, v) <=> v.ok.allowList /\ v.ok.apis /\ v.ok.unexpected)
        /\ (Uncut(K, c, v) <=> (v.ok.apis => v.n.apis = c.n.apis))
    BY <1>27 DEF MayHold, Told, Uncut, MayEndEarly, GcpOps!Reads, GcpOps!Of, GcpOps!RefApis
  <2> QED BY <1>27, <1>o, <2>1 DEF KeepsPromise, Throws, Holds, ReadAs, GcpOps!Verdict,
      GcpOps!CuratedApis, GcpOps!Held, GcpOps!Finding
<1>28. CASE f = "SqlPrivateOnly"
  <2>1. /\ Holds(Peek, "sql", c, v) /\ Holds(Part("sql"), "publicSql", c, v)
        /\ (Told(K, v) <=> v.ok.sql /\ v.ok.publicSql)
        /\ (Uncut(K, c, v) <=> (v.ok.sql => v.n.sql = c.n.sql))
    BY <1>28 DEF MayHold, Told, Uncut, MayEndEarly, GcpOps!Reads, GcpOps!Of, GcpOps!RefArch
  <2> QED BY <1>28, <1>o, <2>1 DEF KeepsPromise, Throws, Holds, ReadAs, GcpOps!Verdict,
      GcpOps!SqlPrivateOnly, GcpOps!Finding, GcpOps!None
<1>29. CASE f = "GroupOrgAdmins"
  <2>1. /\ Holds(Bare, "userAdmins", c, v) /\ (Told(K, v) <=> v.ok.userAdmins)
        /\ Uncut(K, c, v)
    BY <1>29 DEF MayHold, Told, Uncut, MayEndEarly, GcpOps!Reads, GcpOps!Of, GcpOps!RefArch
  <2> QED BY <1>29, <2>1 DEF KeepsPromise, Throws, Holds, ReadAs, GcpOps!Verdict,
      GcpOps!GroupOrgAdmins, GcpOps!Finding, GcpOps!None
<1>30. CASE f = "StateIntegrity"
  <2>1. /\ Holds(Peek, "buckets", c, v) /\ Holds(Part("buckets"), "stateBuckets", c, v)
        /\ Holds(Part("stateBuckets"), "good", c, v)
        /\ (Told(K, v) <=> v.ok.buckets /\ v.ok.stateBuckets /\ v.ok.good)
        /\ (Uncut(K, c, v) <=> (v.ok.buckets => v.n.buckets = c.n.buckets))
    BY <1>30 DEF MayHold, Told, Uncut, MayEndEarly, GcpOps!Reads, GcpOps!Of, GcpOps!RefArch
  <2> QED BY <1>30, <1>o, <2>1 DEF KeepsPromise, Throws, Holds, ReadAs, GcpOps!Verdict,
      GcpOps!StateIntegrity, GcpOps!Finding, GcpOps!None, GcpOps!Held
<1> QED BY <1>1, <1>2, <1>3, <1>4, <1>5, <1>6, <1>7, <1>8, <1>9, <1>10, <1>11, <1>12, <1>13,
    <1>14, <1>15, <1>16, <1>17, <1>18, <1>19, <1>20, <1>21, <1>22, <1>23, <1>24, <1>25,
    <1>26, <1>27, <1>28, <1>29, <1>30 DEF GcpOps!Reads

(* The findings of providers/azure/iam.ts, logging.ts and network.ts.         *)
LEMMA AzureIdentityKeepsPromises ==
  ASSUME NEW f \in DOMAIN AzureId!Reads, NEW c, NEW v, NEW K, K = AzureId!Reads[f],
         MayHold(K, c, v)
  PROVE  KeepsPromise(<<"azureId", f>>, K, c, v,
                      AzureId!Verdict(f, v), AzureId!Verdict(f, c))
<1>u. \A g \in {"AccountsHttpsOnly", "CredentialsRotated", "FewGlobalAdmins",
              "GatewayHttpsOnly", "NoAllowAllRules", "NoBroadAdmins", "NoDormantMembers",
              "NoExpiredCredentials", "NoOpenEgress", "NoOpenIngress", "NoSeverelyDormant",
              "SubnetsHaveGroups"} :
         <<"azureId", g>> \in Named(UngatedFindings)
  BY InTable DEF UngatedFindings
<1>o. \A g \in {"AccountsHttpsOnly", "GatewayHttpsOnly", "NoBroadAdmins", "NoOpenEgress",
              "NoOpenIngress", "SubnetsHaveGroups"} :
         <<"azureId", g>> \in Named(OverlookingFindings)
  BY InTable DEF OverlookingFindings
<1>m. \A g \in {"AlertsAreRouted", "FlowLogsEnabled", "ReaderAssigned", "RetentionAtFloor",
              "WafPresent"} :
         <<"azureId", g>> \in Named(MissingFindings)
  BY InTable DEF MissingFindings
<1> USE DEF Given, Whole, Scan, Skim, Each, Part, AzureId!Given, AzureId!Whole,
  AzureId!Scan, AzureId!Skim, AzureId!Each, AzureId!Part
<1>1. CASE f = "MfaForAll"
  <2>1. /\ Holds(Whole, "securityDefaults", c, v) /\ Holds(Scan, "policies", c, v)
        /\ Holds(Part("policies"), "allUsersMfa", c, v)
        /\ (Told(K, v) <=> v.ok.securityDefaults /\ v.ok.policies /\ v.ok.allUsersMfa)
        /\ Uncut(K, c, v)
    BY <1>1 DEF MayHold, Told, Uncut, MayEndEarly, AzureId!Reads, AzureId!Of, AzureId!IamMfa
  <2> QED BY <1>1, <2>1 DEF KeepsPromise, Throws, Holds, ReadAs, AzureId!Verdict,
      AzureId!MfaForAll, AzureId!Finding, AzureId!Held
<1>2. CASE f = "MfaForAdmins"
  <2>1. /\ Holds(Scan, "policies", c, v) /\ Holds(Part("policies"), "adminMfa", c, v)
        /\ (Told(K, v) <=> v.ok.policies /\ v.ok.adminMfa) /\ Uncut(K, c, v)
    BY <1>2 DEF MayHold, Told, Uncut, MayEndEarly, AzureId!Reads, AzureId!Of, AzureId!IamMfa
  <2> QED BY <1>2, <2>1 DEF KeepsPromise, Throws, Holds, ReadAs, AzureId!Verdict,
      AzureId!MfaForAdmins, AzureId!Finding, AzureId!Held
<1>3. CASE f = "FewGlobalAdmins"
  <2>1. /\ Holds(Scan, "roles", c, v) /\ Holds(Each("roles"), "globalAdmins", c, v)
        /\ (Told(K, v) <=> v.ok.roles /\ v.ok.globalAdmins) /\ Uncut(K, c, v)
    BY <1>3 DEF MayHold, Told, Uncut, MayEndEarly, AzureId!Reads, AzureId!Of, AzureId!IamElp
  <2> QED BY <1>3, <1>u, <2>1 DEF KeepsPromise, Throws, Holds, ReadAs, AzureId!Verdict,
      AzureId!FewGlobalAdmins, AzureId!Finding, AzureId!None
<1>4. CASE f = "AdminsAreEligible"
  <2>1. /\ Holds(Scan, "eligible", c, v)
        /\ Holds(Part("eligible"), "adminEligible", c, v)
        /\ (Told(K, v) <=> v.ok.eligible /\ v.ok.adminEligible) /\ Uncut(K, c, v)
    BY <1>4 DEF MayHold, Told, Uncut, MayEndEarly, AzureId!Reads, AzureId!Of, AzureId!IamElp
  <2> QED BY <1>4, <2>1 DEF KeepsPromise, Throws, Holds, ReadAs, AzureId!Verdict,
      AzureId!AdminsAreEligible, AzureId!Finding, AzureId!Held
<1>5. CASE f = "NoDormantMembers"
  <2>1. /\ Holds(Scan, "members", c, v) /\ Holds(Part("members"), "signedIn", c, v)
        /\ Holds(Part("members"), "dormant", c, v)
        /\ (Told(K, v) <=> v.ok.members /\ v.ok.signedIn /\ v.ok.dormant)
        /\ Uncut(K, c, v)
    BY <1>5 DEF MayHold, Told, Uncut, MayEndEarly, AzureId!Reads, AzureId!Of, AzureId!IamAam
  <2> QED BY <1>5, <1>u, <2>1 DEF KeepsPromise, Throws, Holds, ReadAs, AzureId!Verdict,
      AzureId!NoDormantMembers, AzureId!SignInsMissing, AzureId!Finding, AzureId!Held,
      AzureId!None
<1>6. CASE f = "NoSeverelyDormant"
  <2>1. /\ Holds(Scan, "members", c, v) /\ Holds(Part("members"), "signedIn", c, v)
        /\ Holds(Part("members"), "severelyDormant", c, v)
        /\ (Told(K, v) <=> v.ok.members /\ v.ok.signedIn /\ v.ok.severelyDormant)
        /\ Uncut(K, c, v)
    BY <1>6 DEF MayHold, Told, Uncut, MayEndEarly, AzureId!Reads, AzureId!Of, AzureId!IamAam
  <2> QED BY <1>6, <1>u, <2>1 DEF KeepsPromise, Throws, Holds, ReadAs, AzureId!Verdict,
      AzureId!NoSeverelyDormant, AzureId!SignInsMissing, AzureId!Finding, AzureId!Held,
      AzureId!None
<1>7. CASE f = "StrengthUsed"
  <2>1. /\ Holds(Scan, "policies", c, v) /\ Holds(Part("policies"), "strength", c, v)
        /\ (Told(K, v) <=> v.ok.policies /\ v.ok.strength) /\ Uncut(K, c, v)
    BY <1>7 DEF MayHold, Told, Uncut, MayEndEarly, AzureId!Reads, AzureId!Of, AzureId!IamApm
  <2> QED BY <1>7, <2>1 DEF KeepsPromise, Throws, Holds, ReadAs, AzureId!Verdict,
      AzureId!StrengthUsed, AzureId!Finding, AzureId!Held
<1>8. CASE f = "StrengthForAdmins"
  <2>1. /\ Holds(Scan, "policies", c, v)
        /\ Holds(Part("policies"), "adminStrength", c, v)
        /\ (Told(K, v) <=> v.ok.policies /\ v.ok.adminStrength) /\ Uncut(K, c, v)
    BY <1>8 DEF MayHold, Told, Uncut, MayEndEarly, AzureId!Reads, AzureId!Of, AzureId!IamApm
  <2> QED BY <1>8, <2>1 DEF KeepsPromise, Throws, Holds, ReadAs, AzureId!Verdict,
      AzureId!StrengthForAdmins, AzureId!Finding, AzureId!Held
<1>9. CASE f = "NoExpiredCredentials"
  <2>1. /\ Holds(Scan, "apps", c, v) /\ Holds(Part("apps"), "expired", c, v)
        /\ (Told(K, v) <=> v.ok.apps /\ v.ok.expired) /\ Uncut(K, c, v)
    BY <1>9 DEF MayHold, Told, Uncut, MayEndEarly, AzureId!Reads, AzureId!Of, AzureId!IamSnu
  <2> QED BY <1>9, <1>u, <2>1 DEF KeepsPromise, Throws, Holds, ReadAs, AzureId!Verdict,
      AzureId!NoExpiredCredentials, AzureId!Finding, AzureId!None, AzureId!Held
<1>10. CASE f = "CredentialsRotated"
  <2>1. /\ Holds(Scan, "apps", c, v) /\ Holds(Part("apps"), "stale", c, v)
        /\ (Told(K, v) <=> v.ok.apps /\ v.ok.stale) /\ Uncut(K, c, v)
    BY <1>10 DEF MayHold, Told, Uncut, MayEndEarly, AzureId!Reads, AzureId!Of,
       AzureId!IamSnu
  <2> QED BY <1>10, <1>u, <2>1 DEF KeepsPromise, Throws, Holds, ReadAs, AzureId!Verdict,
      AzureId!CredentialsRotated, AzureId!Finding, AzureId!None, AzureId!Held
<1>11. CASE f = "AdminActivations"
  <2>1. /\ Holds(Scan, "requests", c, v) /\ Holds(Part("requests"), "recentAdmin", c, v)
        /\ (Told(K, v) <=> v.ok.requests /\ v.ok.recentAdmin) /\ Uncut(K, c, v)
    BY <1>11 DEF MayHold, Told, Uncut, MayEndEarly, AzureId!Reads, AzureId!Of,
       AzureId!IamJit
  <2> QED BY <1>11, <2>1 DEF KeepsPromise, Throws, Holds, ReadAs, AzureId!Verdict,
      AzureId!AdminActivations, AzureId!Finding, AzureId!Held
<1>12. CASE f = "RiskBasedAccess"
  <2>1. /\ Holds(Scan, "policies", c, v) /\ Holds(Part("policies"), "onRisk", c, v)
        /\ (Told(K, v) <=> v.ok.policies /\ v.ok.onRisk) /\ Uncut(K, c, v)
    BY <1>12 DEF MayHold, Told, Uncut, MayEndEarly, AzureId!Reads, AzureId!Of,
       AzureId!IamSus
  <2> QED BY <1>12, <2>1 DEF KeepsPromise, Throws, Holds, ReadAs, AzureId!Verdict,
      AzureId!RiskBasedAccess, AzureId!Finding, AzureId!Held
<1>13. CASE f = "DiagnosticsPresent"
  <2>1. /\ Holds(Skim, "diagnostics", c, v) /\ (Told(K, v) <=> v.ok.diagnostics)
        /\ (Uncut(K, c, v) <=> (v.ok.diagnostics => v.n.diagnostics = c.n.diagnostics))
    BY <1>13 DEF MayHold, Told, Uncut, MayEndEarly, AzureId!Reads, AzureId!Of,
       AzureId!MlaLet
  <2> QED BY <1>13, <2>1 DEF KeepsPromise, Throws, Holds, ReadAs, AzureId!Verdict,
      AzureId!DiagnosticsPresent, AzureId!Finding, AzureId!Held
<1>14. CASE f = "WorkspacePresent"
  <2>1. /\ Holds(Skim, "workspaces", c, v) /\ (Told(K, v) <=> v.ok.workspaces)
        /\ (Uncut(K, c, v) <=> (v.ok.workspaces => v.n.workspaces = c.n.workspaces))
    BY <1>14 DEF MayHold, Told, Uncut, MayEndEarly, AzureId!Reads, AzureId!Of,
       AzureId!MlaLet
  <2> QED BY <1>14, <2>1 DEF KeepsPromise, Throws, Holds, ReadAs, AzureId!Verdict,
      AzureId!WorkspacePresent, AzureId!Finding, AzureId!Held
<1>15. CASE f = "SiemSubstrate"
  <2>1. /\ Holds(Skim, "workspaces", c, v) /\ (Told(K, v) <=> v.ok.workspaces)
        /\ (Uncut(K, c, v) <=> (v.ok.workspaces => v.n.workspaces = c.n.workspaces))
    BY <1>15 DEF MayHold, Told, Uncut, MayEndEarly, AzureId!Reads, AzureId!Of,
       AzureId!MlaOsm
  <2> QED BY <1>15, <2>1 DEF KeepsPromise, Throws, Holds, ReadAs, AzureId!Verdict,
      AzureId!SiemSubstrate, AzureId!Finding, AzureId!Held
<1>16. CASE f = "SentinelDeployed"
  <2>1. /\ Holds(Skim, "solutions", c, v) /\ Holds(Skim, "onboarded", c, v)
        /\ (Told(K, v) <=> v.ok.solutions /\ v.ok.onboarded)
        /\ (Uncut(K, c, v) <=> (v.ok.solutions => v.n.solutions = c.n.solutions)
                            /\ (v.ok.onboarded => v.n.onboarded = c.n.onboarded))
    BY <1>16 DEF MayHold, Told, Uncut, MayEndEarly, AzureId!Reads, AzureId!Of,
       AzureId!MlaOsm
  <2> QED BY <1>16, <2>1 DEF KeepsPromise, Throws, Holds, ReadAs, AzureId!Verdict,
      AzureId!SentinelDeployed, AzureId!Finding, AzureId!Held
<1>17. CASE f = "ReaderAssigned"
  <2>1. /\ Holds(Skim, "assignments", c, v)
        /\ Holds(Part("assignments"), "readers", c, v)
        /\ (Told(K, v) <=> v.ok.assignments /\ v.ok.readers)
        /\ (Uncut(K, c, v) <=> (v.ok.assignments => v.n.assignments = c.n.assignments))
    BY <1>17 DEF MayHold, Told, Uncut, MayEndEarly, AzureId!Reads, AzureId!Of,
       AzureId!MlaAla
  <2> QED BY <1>17, <1>m, <2>1 DEF KeepsPromise, Throws, Holds, ReadAs, AzureId!Verdict,
      AzureId!ReaderAssigned, AzureId!Finding, AzureId!Held
<1>18. CASE f = "NoBroadAdmins"
  <2>1. /\ Holds(Skim, "assignments", c, v) /\ Holds(Part("assignments"), "broad", c, v)
        /\ (Told(K, v) <=> v.ok.assignments /\ v.ok.broad)
        /\ (Uncut(K, c, v) <=> (v.ok.assignments => v.n.assignments = c.n.assignments))
    BY <1>18 DEF MayHold, Told, Uncut, MayEndEarly, AzureId!Reads, AzureId!Of,
       AzureId!MlaAla
  <2> QED BY <1>18, <1>u, <1>o, <2>1 DEF KeepsPromise, Throws, Holds, ReadAs,
      AzureId!Verdict, AzureId!NoBroadAdmins, AzureId!Finding, AzureId!None
<1>19. CASE f = "RetentionAtFloor"
  <2>1. /\ Holds(Skim, "workspaces", c, v) /\ Holds(Part("workspaces"), "atFloor", c, v)
        /\ (Told(K, v) <=> v.ok.workspaces /\ v.ok.atFloor)
        /\ (Uncut(K, c, v) <=> (v.ok.workspaces => v.n.workspaces = c.n.workspaces))
    BY <1>19 DEF MayHold, Told, Uncut, MayEndEarly, AzureId!Reads, AzureId!Of,
       AzureId!MlaRvl
  <2> QED BY <1>19, <1>m, <2>1 DEF KeepsPromise, Throws, Holds, ReadAs, AzureId!Verdict,
      AzureId!RetentionAtFloor, AzureId!Finding, AzureId!Held
<1>20. CASE f = "AlertRulesPresent"
  <2>1. /\ Holds(Skim, "queryRules", c, v) /\ Holds(Skim, "sentinelRules", c, v)
        /\ (Told(K, v) <=> v.ok.queryRules /\ v.ok.sentinelRules)
        /\ (Uncut(K, c, v) <=> (v.ok.queryRules => v.n.queryRules = c.n.queryRules)
                            /\ (v.ok.sentinelRules => v.n.sentinelRules = c.n.sentinelRules))
    BY <1>20 DEF MayHold, Told, Uncut, MayEndEarly, AzureId!Reads, AzureId!Of,
       AzureId!MlaRvl
  <2> QED BY <1>20, <2>1 DEF KeepsPromise, Throws, Holds, ReadAs, AzureId!Verdict,
      AzureId!AlertRulesPresent, AzureId!Finding, AzureId!Held
<1>21. CASE f = "ActivityExported"
  <2>1. /\ Holds(Given, "subscriptions", c, v)
        /\ Holds(Each("subscriptions"), "covered", c, v)
        /\ (Told(K, v) <=> v.ok.subscriptions /\ v.ok.covered) /\ Uncut(K, c, v)
    BY <1>21 DEF MayHold, Told, Uncut, MayEndEarly, AzureId!Reads, AzureId!Of,
       AzureId!CmtLmc
  <2> QED BY <1>21, <2>1 DEF KeepsPromise, Throws, Holds, ReadAs, AzureId!Verdict,
      AzureId!ActivityExported, AzureId!Finding, AzureId!Held
<1>22. CASE f = "ChangesTracked"
  <2>1. /\ Holds(Skim, "tracking", c, v) /\ (Told(K, v) <=> v.ok.tracking)
        /\ (Uncut(K, c, v) <=> (v.ok.tracking => v.n.tracking = c.n.tracking))
    BY <1>22 DEF MayHold, Told, Uncut, MayEndEarly, AzureId!Reads, AzureId!Of,
       AzureId!CmtLmc
  <2> QED BY <1>22, <2>1 DEF KeepsPromise, Throws, Holds, ReadAs, AzureId!Verdict,
      AzureId!ChangesTracked, AzureId!Finding, AzureId!Held
<1>23. CASE f = "AssessmentsRunning"
  <2>1. /\ Holds(Skim, "assessments", c, v) /\ (Told(K, v) <=> v.ok.assessments)
        /\ (Uncut(K, c, v) <=> (v.ok.assessments => v.n.assessments = c.n.assessments))
    BY <1>23 DEF MayHold, Told, Uncut, MayEndEarly, AzureId!Reads, AzureId!Of,
       AzureId!MlaEvc
  <2> QED BY <1>23, <2>1 DEF KeepsPromise, Throws, Holds, ReadAs, AzureId!Verdict,
      AzureId!AssessmentsRunning, AzureId!Finding, AzureId!Held
<1>24. CASE f = "AlertsAreRouted"
  <2>1. /\ Holds(Skim, "actionGroups", c, v)
        /\ Holds(Part("actionGroups"), "populated", c, v)
        /\ Holds(Skim, "automation", c, v)
        /\ (Told(K, v) <=> v.ok.actionGroups /\ v.ok.populated /\ v.ok.automation)
        /\ (Uncut(K, c, v) <=> (v.ok.actionGroups => v.n.actionGroups = c.n.actionGroups)
                            /\ (v.ok.automation => v.n.automation = c.n.automation))
    BY <1>24 DEF MayHold, Told, Uncut, MayEndEarly, AzureId!Reads, AzureId!Of,
       AzureId!InrRir
  <2> QED BY <1>24, <1>m, <2>1 DEF KeepsPromise, Throws, Holds, ReadAs, AzureId!Verdict,
      AzureId!AlertsAreRouted, AzureId!Finding, AzureId!Held
<1>25. CASE f = "FlowLogsEnabled"
  <2>1. /\ Holds(Skim, "flowLogs", c, v) /\ Holds(Part("flowLogs"), "enabled", c, v)
        /\ (Told(K, v) <=> v.ok.flowLogs /\ v.ok.enabled)
        /\ (Uncut(K, c, v) <=> (v.ok.flowLogs => v.n.flowLogs = c.n.flowLogs))
    BY <1>25 DEF MayHold, Told, Uncut, MayEndEarly, AzureId!Reads, AzureId!Of,
       AzureId!CnaUln
  <2> QED BY <1>25, <1>m, <2>1 DEF KeepsPromise, Throws, Holds, ReadAs, AzureId!Verdict,
      AzureId!FlowLogsEnabled, AzureId!Finding, AzureId!Held
<1>26. CASE f = "WafPresent"
  <2>1. /\ Holds(Skim, "gatewayWafs", c, v)
        /\ Holds(Part("gatewayWafs"), "gatewayOn", c, v) /\ Holds(Skim, "doorWafs", c, v)
        /\ Holds(Part("doorWafs"), "doorOn", c, v)
        /\ (Told(K, v) <=> v.ok.gatewayWafs /\ v.ok.gatewayOn /\ v.ok.doorWafs
                        /\ v.ok.doorOn)
        /\ (Uncut(K, c, v) <=> (v.ok.gatewayWafs => v.n.gatewayWafs = c.n.gatewayWafs)
                            /\ (v.ok.doorWafs => v.n.doorWafs = c.n.doorWafs))
    BY <1>26 DEF MayHold, Told, Uncut, MayEndEarly, AzureId!Reads, AzureId!Of,
       AzureId!CnaRvp
  <2> QED BY <1>26, <1>m, <2>1 DEF KeepsPromise, Throws, Holds, ReadAs, AzureId!Verdict,
      AzureId!WafPresent, AzureId!Finding, AzureId!Held
<1>27. CASE f = "GatewayHttpsOnly"
  <2>1. /\ Holds(Skim, "listeners", c, v) /\ Holds(Part("listeners"), "plain", c, v)
        /\ (Told(K, v) <=> v.ok.listeners /\ v.ok.plain)
        /\ (Uncut(K, c, v) <=> (v.ok.listeners => v.n.listeners = c.n.listeners))
    BY <1>27 DEF MayHold, Told, Uncut, MayEndEarly, AzureId!Reads, AzureId!Of,
       AzureId!SvcSnt
  <2> QED BY <1>27, <1>u, <1>o, <2>1 DEF KeepsPromise, Throws, Holds, ReadAs,
      AzureId!Verdict, AzureId!GatewayHttpsOnly, AzureId!Finding, AzureId!None, AzureId!Held
<1>28. CASE f = "AccountsHttpsOnly"
  <2>1. /\ Holds(Skim, "accounts", c, v) /\ Holds(Part("accounts"), "notHttps", c, v)
        /\ (Told(K, v) <=> v.ok.accounts /\ v.ok.notHttps)
        /\ (Uncut(K, c, v) <=> (v.ok.accounts => v.n.accounts = c.n.accounts))
    BY <1>28 DEF MayHold, Told, Uncut, MayEndEarly, AzureId!Reads, AzureId!Of,
       AzureId!SvcSnt
  <2> QED BY <1>28, <1>u, <1>o, <2>1 DEF KeepsPromise, Throws, Holds, ReadAs,
      AzureId!Verdict, AzureId!AccountsHttpsOnly, AzureId!Finding, AzureId!None,
      AzureId!Held
<1>29. CASE f = "SubnetsHaveGroups"
  <2>1. /\ Holds(Skim, "subnets", c, v) /\ Holds(Part("subnets"), "noGroup", c, v)
        /\ (Told(K, v) <=> v.ok.subnets /\ v.ok.noGroup)
        /\ (Uncut(K, c, v) <=> (v.ok.subnets => v.n.subnets = c.n.subnets))
    BY <1>29 DEF MayHold, Told, Uncut, MayEndEarly, AzureId!Reads, AzureId!Of,
       AzureId!CnaMat
  <2> QED BY <1>29, <1>u, <1>o, <2>1 DEF KeepsPromise, Throws, Holds, ReadAs,
      AzureId!Verdict, AzureId!SubnetsHaveGroups, AzureId!Finding, AzureId!None,
      AzureId!Held
<1>30. CASE f = "NoAllowAllRules"
  <2>1. /\ Holds(Skim, "allowAll", c, v) /\ (Told(K, v) <=> v.ok.allowAll)
        /\ (Uncut(K, c, v) <=> (v.ok.allowAll => v.n.allowAll = c.n.allowAll))
    BY <1>30 DEF MayHold, Told, Uncut, MayEndEarly, AzureId!Reads, AzureId!Of,
       AzureId!CnaMat
  <2> QED BY <1>30, <1>u, <2>1 DEF KeepsPromise, Throws, Holds, ReadAs, AzureId!Verdict,
      AzureId!NoAllowAllRules, AzureId!Finding, AzureId!None, AzureId!Held
<1>31. CASE f = "NoOpenIngress"
  <2>1. /\ Holds(Skim, "rules", c, v) /\ Holds(Part("rules"), "anyIn", c, v)
        /\ (Told(K, v) <=> v.ok.rules /\ v.ok.anyIn)
        /\ (Uncut(K, c, v) <=> (v.ok.rules => v.n.rules = c.n.rules))
    BY <1>31 DEF MayHold, Told, Uncut, MayEndEarly, AzureId!Reads, AzureId!Of,
       AzureId!CnaRnt
  <2> QED BY <1>31, <1>u, <1>o, <2>1 DEF KeepsPromise, Throws, Holds, ReadAs,
      AzureId!Verdict, AzureId!NoOpenIngress, AzureId!Finding, AzureId!None, AzureId!Held
<1>32. CASE f = "NoOpenEgress"
  <2>1. /\ Holds(Skim, "rules", c, v) /\ Holds(Part("rules"), "anyOut", c, v)
        /\ (Told(K, v) <=> v.ok.rules /\ v.ok.anyOut)
        /\ (Uncut(K, c, v) <=> (v.ok.rules => v.n.rules = c.n.rules))
    BY <1>32 DEF MayHold, Told, Uncut, MayEndEarly, AzureId!Reads, AzureId!Of,
       AzureId!CnaRnt
  <2> QED BY <1>32, <1>u, <1>o, <2>1 DEF KeepsPromise, Throws, Holds, ReadAs,
      AzureId!Verdict, AzureId!NoOpenEgress, AzureId!Finding, AzureId!None, AzureId!Held
<1> QED BY <1>1, <1>2, <1>3, <1>4, <1>5, <1>6, <1>7, <1>8, <1>9, <1>10, <1>11, <1>12, <1>13,
    <1>14, <1>15, <1>16, <1>17, <1>18, <1>19, <1>20, <1>21, <1>22, <1>23, <1>24, <1>25,
    <1>26, <1>27, <1>28, <1>29, <1>30, <1>31, <1>32 DEF AzureId!Reads

(* The findings of providers/azure/config.ts, backup.ts and the others.       *)
LEMMA AzurePlatformKeepsPromises ==
  ASSUME NEW f \in DOMAIN AzurePlat!Reads, NEW c, NEW v, NEW K, K = AzurePlat!Reads[f],
         MayHold(K, c, v)
  PROVE  KeepsPromise(<<"azurePlat", f>>, K, c, v,
                      AzurePlat!Verdict(f, v), AzurePlat!Verdict(f, c))
<1>u. \A g \in {"AccountsReplicated", "BackupsClean", "FiniteSoftDelete", "ItemsProtected",
              "KeyVaultGuarded", "KeyVaultSoftDelete", "LifecyclePresent",
              "PoliciesComplied", "ScoreAcceptable", "StorageIntegrity", "VmsSpread"} :
         <<"azurePlat", g>> \in Named(UngatedFindings)
  BY InTable DEF UngatedFindings
<1>o. \A g \in {"AccountsReplicated", "BackupsClean", "FiniteSoftDelete", "KeyVaultGuarded",
              "KeyVaultSoftDelete", "PoliciesComplied", "ScoreAcceptable",
              "StorageIntegrity", "VmsSpread"} :
         <<"azurePlat", g>> \in Named(OverlookingFindings)
  BY InTable DEF OverlookingFindings
<1>m. \A g \in {"AlternateSite", "BackupsClean", "DeploymentsRecorded", "PoliciesComplied",
              "PolicySchedules", "RegulatoryAssigned", "RestoreTested", "ScoreAcceptable",
              "ScorePresent", "ServicesAuthenticate", "ValidatedModules", "VmsSpread"} :
         <<"azurePlat", g>> \in Named(MissingFindings)
  BY InTable DEF MissingFindings
<1> USE DEF Skim, Each, Part, AzurePlat!Skim, AzurePlat!Each, AzurePlat!Part
<1>1. CASE f = "PoliciesAssigned"
  <2>1. /\ Holds(Skim, "assignments", c, v) /\ (Told(K, v) <=> v.ok.assignments)
        /\ (Uncut(K, c, v) <=> (v.ok.assignments => v.n.assignments = c.n.assignments))
    BY <1>1 DEF MayHold, Told, Uncut, MayEndEarly, AzurePlat!Reads, AzurePlat!Of,
       AzurePlat!CnaEis
  <2> QED BY <1>1, <2>1 DEF KeepsPromise, Throws, Holds, ReadAs, AzurePlat!Verdict,
      AzurePlat!PoliciesAssigned, AzurePlat!Finding, AzurePlat!Held
<1>2. CASE f = "PoliciesEvaluated"
  <2>1. /\ Holds(Skim, "states", c, v) /\ (Told(K, v) <=> v.ok.states)
        /\ (Uncut(K, c, v) <=> (v.ok.states => v.n.states = c.n.states))
    BY <1>2 DEF MayHold, Told, Uncut, MayEndEarly, AzurePlat!Reads, AzurePlat!Of,
       AzurePlat!CnaEis
  <2> QED BY <1>2, <2>1 DEF KeepsPromise, Throws, Holds, ReadAs, AzurePlat!Verdict,
      AzurePlat!PoliciesEvaluated, AzurePlat!Finding, AzurePlat!Held
<1>3. CASE f = "BenchmarkAssigned"
  <2>1. /\ Holds(Skim, "benchmark", c, v) /\ (Told(K, v) <=> v.ok.benchmark)
        /\ (Uncut(K, c, v) <=> (v.ok.benchmark => v.n.benchmark = c.n.benchmark))
    BY <1>3 DEF MayHold, Told, Uncut, MayEndEarly, AzurePlat!Reads, AzurePlat!Of,
       AzurePlat!CnaIbp
  <2> QED BY <1>3, <2>1 DEF KeepsPromise, Throws, Holds, ReadAs, AzurePlat!Verdict,
      AzurePlat!BenchmarkAssigned, AzurePlat!Finding, AzurePlat!Held
<1>4. CASE f = "RegulatoryAssigned"
  <2>1. /\ Holds(Skim, "initiatives", c, v)
        /\ Holds(Part("initiatives"), "regulatory", c, v)
        /\ (Told(K, v) <=> v.ok.initiatives /\ v.ok.regulatory)
        /\ (Uncut(K, c, v) <=> (v.ok.initiatives => v.n.initiatives = c.n.initiatives))
    BY <1>4 DEF MayHold, Told, Uncut, MayEndEarly, AzurePlat!Reads, AzurePlat!Of,
       AzurePlat!CnaIbp
  <2> QED BY <1>4, <1>m, <2>1 DEF KeepsPromise, Throws, Holds, ReadAs, AzurePlat!Verdict,
      AzurePlat!RegulatoryAssigned, AzurePlat!Finding, AzurePlat!Held
<1>5. CASE f = "CustomRolesPresent"
  <2>1. /\ Holds(Skim, "customRoles", c, v) /\ (Told(K, v) <=> v.ok.customRoles)
        /\ (Uncut(K, c, v) <=> (v.ok.customRoles => v.n.customRoles = c.n.customRoles))
    BY <1>5 DEF MayHold, Told, Uncut, MayEndEarly, AzurePlat!Reads, AzurePlat!Of,
       AzurePlat!CnaDfp
  <2> QED BY <1>5, <2>1 DEF KeepsPromise, Throws, Holds, ReadAs, AzurePlat!Verdict,
      AzurePlat!CustomRolesPresent, AzurePlat!Finding, AzurePlat!Held
<1>6. CASE f = "DeploymentsRecorded"
  <2>1. /\ Holds(Skim, "deployments", c, v) /\ Holds(Part("deployments"), "recent", c, v)
        /\ (Told(K, v) <=> v.ok.deployments /\ v.ok.recent)
        /\ (Uncut(K, c, v) <=> (v.ok.deployments => v.n.deployments = c.n.deployments))
    BY <1>6 DEF MayHold, Told, Uncut, MayEndEarly, AzurePlat!Reads, AzurePlat!Of,
       AzurePlat!SvcAcm
  <2> QED BY <1>6, <1>m, <2>1 DEF KeepsPromise, Throws, Holds, ReadAs, AzurePlat!Verdict,
      AzurePlat!DeploymentsRecorded, AzurePlat!Finding, AzurePlat!Held
<1>7. CASE f = "PoliciesComplied"
  <2>1. /\ Holds(Skim, "states", c, v) /\ Holds(Part("states"), "compliant", c, v)
        /\ (Told(K, v) <=> v.ok.states /\ v.ok.compliant)
        /\ (Uncut(K, c, v) <=> (v.ok.states => v.n.states = c.n.states))
    BY <1>7 DEF MayHold, Told, Uncut, MayEndEarly, AzurePlat!Reads, AzurePlat!Of,
       AzurePlat!SvcAcm
  <2> QED BY <1>7, <1>u, <1>o, <1>m, <2>1 DEF KeepsPromise, Throws, Holds, ReadAs,
      AzurePlat!Verdict, AzurePlat!PoliciesComplied, AzurePlat!Finding, AzurePlat!None
<1>8. CASE f = "ScorePresent"
  <2>1. /\ Holds(Skim, "scores", c, v) /\ Holds(Part("scores"), "most", c, v)
        /\ (Told(K, v) <=> v.ok.scores /\ v.ok.most)
        /\ (Uncut(K, c, v) <=> (v.ok.scores => v.n.scores = c.n.scores))
    BY <1>8 DEF MayHold, Told, Uncut, MayEndEarly, AzurePlat!Reads, AzurePlat!Of,
       AzurePlat!SvcEis
  <2> QED BY <1>8, <1>m, <2>1 DEF KeepsPromise, Throws, Holds, ReadAs, AzurePlat!Verdict,
      AzurePlat!ScorePresent, AzurePlat!Finding, AzurePlat!Held
<1>9. CASE f = "ScoreAcceptable"
  <2>1. /\ Holds(Skim, "scores", c, v) /\ Holds(Part("scores"), "most", c, v)
        /\ Holds(Part("most"), "points", c, v)
        /\ (Told(K, v) <=> v.ok.scores /\ v.ok.most /\ v.ok.points)
        /\ (Uncut(K, c, v) <=> (v.ok.scores => v.n.scores = c.n.scores))
    BY <1>9 DEF MayHold, Told, Uncut, MayEndEarly, AzurePlat!Reads, AzurePlat!Of,
       AzurePlat!SvcEis
  <2> QED BY <1>9, <1>u, <1>o, <1>m, <2>1 DEF KeepsPromise, Throws, Holds, ReadAs,
      AzurePlat!Verdict, AzurePlat!ScoreAcceptable, AzurePlat!Finding, AzurePlat!None,
      AzurePlat!Held
<1>10. CASE f = "VmsSpread"
  <2>1. /\ Holds(Skim, "vms", c, v) /\ Holds(Part("vms"), "unzoned", c, v)
        /\ Holds(Part("vms"), "zonesFrom2", c, v)
        /\ (Told(K, v) <=> v.ok.vms /\ v.ok.unzoned /\ v.ok.zonesFrom2)
        /\ (Uncut(K, c, v) <=> (v.ok.vms => v.n.vms = c.n.vms))
    BY <1>10 DEF MayHold, Told, Uncut, MayEndEarly, AzurePlat!Reads, AzurePlat!Of,
       AzurePlat!CnaOfa
  <2> QED BY <1>10, <1>u, <1>o, <1>m, <2>1 DEF KeepsPromise, Throws, Holds, ReadAs,
      AzurePlat!Verdict, AzurePlat!VmsSpread, AzurePlat!Finding, AzurePlat!None,
      AzurePlat!Held
<1>11. CASE f = "AccountsReplicated"
  <2>1. /\ Holds(Skim, "accounts", c, v) /\ Holds(Part("accounts"), "oneSite", c, v)
        /\ (Told(K, v) <=> v.ok.accounts /\ v.ok.oneSite)
        /\ (Uncut(K, c, v) <=> (v.ok.accounts => v.n.accounts = c.n.accounts))
    BY <1>11 DEF MayHold, Told, Uncut, MayEndEarly, AzurePlat!Reads, AzurePlat!Of,
       AzurePlat!CnaOfa
  <2> QED BY <1>11, <1>u, <1>o, <2>1 DEF KeepsPromise, Throws, Holds, ReadAs,
      AzurePlat!Verdict, AzurePlat!AccountsReplicated, AzurePlat!Finding, AzurePlat!None,
      AzurePlat!Held
<1>12. CASE f = "VaultPresent"
  <2>1. /\ Holds(Skim, "vaults", c, v) /\ (Told(K, v) <=> v.ok.vaults)
        /\ (Uncut(K, c, v) <=> (v.ok.vaults => v.n.vaults = c.n.vaults))
    BY <1>12 DEF MayHold, Told, Uncut, MayEndEarly, AzurePlat!Reads, AzurePlat!Of,
       AzurePlat!RplAbo
  <2> QED BY <1>12, <2>1 DEF KeepsPromise, Throws, Holds, ReadAs, AzurePlat!Verdict,
      AzurePlat!VaultPresent, AzurePlat!Finding, AzurePlat!Held
<1>13. CASE f = "ItemsProtected"
  <2>1. /\ Holds(Skim, "vaults", c, v) /\ Holds(Skim, "items", c, v)
        /\ (Told(K, v) <=> v.ok.vaults /\ v.ok.items)
        /\ (Uncut(K, c, v) <=> (v.ok.vaults => v.n.vaults = c.n.vaults)
                            /\ (v.ok.items => v.n.items = c.n.items))
    BY <1>13 DEF MayHold, Told, Uncut, MayEndEarly, AzurePlat!Reads, AzurePlat!Of,
       AzurePlat!RplAbo
  <2> QED BY <1>13, <1>u, <2>1 DEF KeepsPromise, Throws, Holds, ReadAs, AzurePlat!Verdict,
      AzurePlat!ItemsProtected, AzurePlat!Finding, AzurePlat!None, AzurePlat!Held
<1>14. CASE f = "BackupsClean"
  <2>1. /\ Holds(Skim, "vaults", c, v) /\ Holds(Skim, "items", c, v)
        /\ Holds(Skim, "jobs", c, v) /\ Holds(Part("jobs"), "completed", c, v)
        /\ Holds(Part("jobs"), "failed", c, v)
        /\ (Told(K, v) <=> v.ok.vaults /\ v.ok.items /\ v.ok.jobs /\ v.ok.completed
                        /\ v.ok.failed)
        /\ (Uncut(K, c, v) <=> (v.ok.vaults => v.n.vaults = c.n.vaults)
                            /\ (v.ok.items => v.n.items = c.n.items)
                            /\ (v.ok.jobs => v.n.jobs = c.n.jobs))
    BY <1>14 DEF MayHold, Told, Uncut, MayEndEarly, AzurePlat!Reads, AzurePlat!Of,
       AzurePlat!RplAbo
  <2> QED BY <1>14, <1>u, <1>o, <1>m, <2>1 DEF KeepsPromise, Throws, Holds, ReadAs,
      AzurePlat!Verdict, AzurePlat!BackupsClean, AzurePlat!Finding, AzurePlat!None,
      AzurePlat!Held
<1>15. CASE f = "RestoreTested"
  <2>1. /\ Holds(Skim, "jobs", c, v) /\ Holds(Part("jobs"), "restored", c, v)
        /\ (Told(K, v) <=> v.ok.jobs /\ v.ok.restored)
        /\ (Uncut(K, c, v) <=> (v.ok.jobs => v.n.jobs = c.n.jobs))
    BY <1>15 DEF MayHold, Told, Uncut, MayEndEarly, AzurePlat!Reads, AzurePlat!Of,
       AzurePlat!RplTrc
  <2> QED BY <1>15, <1>m, <2>1 DEF KeepsPromise, Throws, Holds, ReadAs, AzurePlat!Verdict,
      AzurePlat!RestoreTested, AzurePlat!Finding, AzurePlat!Held
<1>16. CASE f = "AlternateSite"
  <2>1. /\ Holds(Skim, "vaults", c, v) /\ Holds(Part("vaults"), "geo", c, v)
        /\ (Told(K, v) <=> v.ok.vaults /\ v.ok.geo)
        /\ (Uncut(K, c, v) <=> (v.ok.vaults => v.n.vaults = c.n.vaults))
    BY <1>16 DEF MayHold, Told, Uncut, MayEndEarly, AzurePlat!Reads, AzurePlat!Of,
       AzurePlat!RplArp
  <2> QED BY <1>16, <1>m, <2>1 DEF KeepsPromise, Throws, Holds, ReadAs, AzurePlat!Verdict,
      AzurePlat!AlternateSite, AzurePlat!Finding, AzurePlat!Held
<1>17. CASE f = "PolicySchedules"
  <2>1. /\ Holds(Skim, "policies", c, v) /\ Holds(Part("policies"), "scheduled", c, v)
        /\ (Told(K, v) <=> v.ok.policies /\ v.ok.scheduled)
        /\ (Uncut(K, c, v) <=> (v.ok.policies => v.n.policies = c.n.policies))
    BY <1>17 DEF MayHold, Told, Uncut, MayEndEarly, AzurePlat!Reads, AzurePlat!Of,
       AzurePlat!RplRro
  <2> QED BY <1>17, <1>m, <2>1 DEF KeepsPromise, Throws, Holds, ReadAs, AzurePlat!Verdict,
      AzurePlat!PolicySchedules, AzurePlat!Finding, AzurePlat!Held
<1>18. CASE f = "FiniteSoftDelete"
  <2>1. /\ Holds(Skim, "accounts", c, v)
        /\ Holds(Part("accounts"), "softDeleteOff", c, v)
        /\ Holds(Part("accounts"), "tooLong", c, v)
        /\ (Told(K, v) <=> v.ok.accounts /\ v.ok.softDeleteOff /\ v.ok.tooLong)
        /\ (Uncut(K, c, v) <=> (v.ok.accounts => v.n.accounts = c.n.accounts))
    BY <1>18 DEF MayHold, Told, Uncut, MayEndEarly, AzurePlat!Reads, AzurePlat!Of,
       AzurePlat!SvcRud
  <2> QED BY <1>18, <1>u, <1>o, <2>1 DEF KeepsPromise, Throws, Holds, ReadAs,
      AzurePlat!Verdict, AzurePlat!FiniteSoftDelete, AzurePlat!Finding, AzurePlat!None,
      AzurePlat!Held
<1>19. CASE f = "LifecyclePresent"
  <2>1. /\ Holds(Skim, "accounts", c, v) /\ Holds(Skim, "lifecycles", c, v)
        /\ (Told(K, v) <=> v.ok.accounts /\ v.ok.lifecycles)
        /\ (Uncut(K, c, v) <=> (v.ok.accounts => v.n.accounts = c.n.accounts)
                            /\ (v.ok.lifecycles => v.n.lifecycles = c.n.lifecycles))
    BY <1>19 DEF MayHold, Told, Uncut, MayEndEarly, AzurePlat!Reads, AzurePlat!Of,
       AzurePlat!SvcRud
  <2> QED BY <1>19, <1>u, <2>1 DEF KeepsPromise, Throws, Holds, ReadAs, AzurePlat!Verdict,
      AzurePlat!LifecyclePresent, AzurePlat!Finding, AzurePlat!None, AzurePlat!Held
<1>20. CASE f = "ServicesAuthenticate"
  <2>1. /\ Holds(Skim, "gateways", c, v) /\ Holds(Part("gateways"), "mutual", c, v)
        /\ Holds(Skim, "managed", c, v) /\ Holds(Part("managed"), "withCert", c, v)
        /\ Holds(Skim, "clusters", c, v) /\ Holds(Part("clusters"), "mesh", c, v)
        /\ (Told(K, v) <=> v.ok.gateways /\ v.ok.mutual /\ v.ok.managed /\ v.ok.withCert
                        /\ v.ok.clusters /\ v.ok.mesh)
        /\ (Uncut(K, c, v) <=> (v.ok.gateways => v.n.gateways = c.n.gateways)
                            /\ (v.ok.managed => v.n.managed = c.n.managed)
                            /\ (v.ok.clusters => v.n.clusters = c.n.clusters))
    BY <1>20 DEF MayHold, Told, Uncut, MayEndEarly, AzurePlat!Reads, AzurePlat!Of,
       AzurePlat!SvcVcm
  <2> QED BY <1>20, <1>m, <2>1 DEF KeepsPromise, Throws, Holds, ReadAs, AzurePlat!Verdict,
      AzurePlat!ServicesAuthenticate, AzurePlat!Finding, AzurePlat!Held
<1>21. CASE f = "StorageIntegrity"
  <2>1. /\ Holds(Skim, "accounts", c, v) /\ Holds(Part("accounts"), "unversioned", c, v)
        /\ Holds(Each("unversioned"), "immutable", c, v)
        /\ (Told(K, v) <=> v.ok.accounts /\ v.ok.unversioned /\ v.ok.immutable)
        /\ (Uncut(K, c, v) <=> (v.ok.accounts => v.n.accounts = c.n.accounts))
    BY <1>21 DEF MayHold, Told, Uncut, MayEndEarly, AzurePlat!Reads, AzurePlat!Of,
       AzurePlat!SvcVri
  <2> QED BY <1>21, <1>u, <1>o, <2>1 DEF KeepsPromise, Throws, Holds, ReadAs,
      AzurePlat!Verdict, AzurePlat!StorageIntegrity, AzurePlat!Finding, AzurePlat!None
<1>22. CASE f = "ValidatedModules"
  <2>1. /\ Holds(Skim, "keys", c, v) /\ Holds(Part("keys"), "enabledKeys", c, v)
        /\ Holds(Skim, "gateways", c, v) /\ Holds(Part("gateways"), "modernTls", c, v)
        /\ Holds(Skim, "accounts", c, v)
        /\ Holds(Part("accounts"), "infraEncrypted", c, v)
        /\ (Told(K, v) <=> v.ok.keys /\ v.ok.enabledKeys /\ v.ok.gateways /\ v.ok.modernTls
                        /\ v.ok.accounts /\ v.ok.infraEncrypted)
        /\ (Uncut(K, c, v) <=> (v.ok.keys => v.n.keys = c.n.keys)
                            /\ (v.ok.gateways => v.n.gateways = c.n.gateways)
                            /\ (v.ok.accounts => v.n.accounts = c.n.accounts))
    BY <1>22 DEF MayHold, Told, Uncut, MayEndEarly, AzurePlat!Reads, AzurePlat!Of,
       AzurePlat!Ucm
  <2> QED BY <1>22, <1>m, <2>1 DEF KeepsPromise, Throws, Holds, ReadAs, AzurePlat!Verdict,
      AzurePlat!ValidatedModules, AzurePlat!Finding, AzurePlat!Held
<1>23. CASE f = "KeyVaultPresent"
  <2>1. /\ Holds(Skim, "vaults", c, v) /\ (Told(K, v) <=> v.ok.vaults)
        /\ (Uncut(K, c, v) <=> (v.ok.vaults => v.n.vaults = c.n.vaults))
    BY <1>23 DEF MayHold, Told, Uncut, MayEndEarly, AzurePlat!Reads, AzurePlat!Of,
       AzurePlat!SvcAsm
  <2> QED BY <1>23, <2>1 DEF KeepsPromise, Throws, Holds, ReadAs, AzurePlat!Verdict,
      AzurePlat!KeyVaultPresent, AzurePlat!Finding, AzurePlat!Held
<1>24. CASE f = "KeyVaultSoftDelete"
  <2>1. /\ Holds(Skim, "vaults", c, v) /\ Holds(Part("vaults"), "softDeleteOff", c, v)
        /\ (Told(K, v) <=> v.ok.vaults /\ v.ok.softDeleteOff)
        /\ (Uncut(K, c, v) <=> (v.ok.vaults => v.n.vaults = c.n.vaults))
    BY <1>24 DEF MayHold, Told, Uncut, MayEndEarly, AzurePlat!Reads, AzurePlat!Of,
       AzurePlat!SvcAsm
  <2> QED BY <1>24, <1>u, <1>o, <2>1 DEF KeepsPromise, Throws, Holds, ReadAs,
      AzurePlat!Verdict, AzurePlat!KeyVaultSoftDelete, AzurePlat!Finding, AzurePlat!None,
      AzurePlat!Held
<1>25. CASE f = "KeyVaultGuarded"
  <2>1. /\ Holds(Skim, "vaults", c, v) /\ Holds(Part("vaults"), "uncovered", c, v)
        /\ (Told(K, v) <=> v.ok.vaults /\ v.ok.uncovered)
        /\ (Uncut(K, c, v) <=> (v.ok.vaults => v.n.vaults = c.n.vaults))
    BY <1>25 DEF MayHold, Told, Uncut, MayEndEarly, AzurePlat!Reads, AzurePlat!Of,
       AzurePlat!SvcAsm
  <2> QED BY <1>25, <1>u, <1>o, <2>1 DEF KeepsPromise, Throws, Holds, ReadAs,
      AzurePlat!Verdict, AzurePlat!KeyVaultGuarded, AzurePlat!Finding, AzurePlat!None,
      AzurePlat!Held
<1> QED BY <1>1, <1>2, <1>3, <1>4, <1>5, <1>6, <1>7, <1>8, <1>9, <1>10, <1>11, <1>12, <1>13,
    <1>14, <1>15, <1>16, <1>17, <1>18, <1>19, <1>20, <1>21, <1>22, <1>23, <1>24, <1>25
    DEF AzurePlat!Reads

(* The findings of providers/azure/supplychain.ts and the others.             *)
LEMMA AzureOperationsKeepsPromises ==
  ASSUME NEW f \in DOMAIN AzureOps!Reads, NEW c, NEW v, NEW K, K = AzureOps!Reads[f],
         MayHold(K, c, v)
  PROVE  KeepsPromise(<<"azureOps", f>>, K, c, v,
                      AzureOps!Verdict(f, v), AzureOps!Verdict(f, c))
<1>u. \A g \in {"HistoryRetained", "KevResponsive", "RegistryAdminOff", "ResourcesIsolated"} :
         <<"azureOps", g>> \in Named(UngatedFindings)
  BY InTable DEF UngatedFindings
<1>o. \A g \in {"DisksEncrypted", "KevResponsive", "NoPublicBlob", "RegistryAdminOff",
              "ResourcesIsolated", "StorageHttps", "StorageRestricted", "VaultsHardened"} :
         <<"azureOps", g>> \in Named(OverlookingFindings)
  BY InTable DEF OverlookingFindings
<1>m. \A g \in {"ChainMitigated", "ContactConfigured", "ContainersDefended",
              "DevopsConnected", "HistoryRetained", "MdvmActive", "WorkspaceRetention"} :
         <<"azureOps", g>> \in Named(MissingFindings)
  BY InTable DEF MissingFindings
<1> USE DEF Given, Skim, Peek, Each, Part, AzureOps!Given, AzureOps!Skim, AzureOps!Peek,
  AzureOps!Each, AzureOps!Part
<1>1. CASE f = "RegistryPresent"
  <2>1. /\ Holds(Skim, "registries", c, v) /\ (Told(K, v) <=> v.ok.registries)
        /\ (Uncut(K, c, v) <=> (v.ok.registries => v.n.registries = c.n.registries))
    BY <1>1 DEF MayHold, Told, Uncut, MayEndEarly, AzureOps!Reads, AzureOps!Of,
       AzureOps!CmtRmv
  <2> QED BY <1>1, <2>1 DEF KeepsPromise, Throws, Holds, ReadAs, AzureOps!Verdict,
      AzureOps!RegistryPresent, AzureOps!Finding, AzureOps!Held
<1>2. CASE f = "RegistryAdminOff"
  <2>1. /\ Holds(Skim, "registries", c, v) /\ Holds(Part("registries"), "adminOn", c, v)
        /\ (Told(K, v) <=> v.ok.registries /\ v.ok.adminOn)
        /\ (Uncut(K, c, v) <=> (v.ok.registries => v.n.registries = c.n.registries))
    BY <1>2 DEF MayHold, Told, Uncut, MayEndEarly, AzureOps!Reads, AzureOps!Of,
       AzureOps!CmtRmv
  <2> QED BY <1>2, <1>u, <1>o, <2>1 DEF KeepsPromise, Throws, Holds, ReadAs,
      AzureOps!Verdict, AzureOps!RegistryAdminOff, AzureOps!Finding, AzureOps!None,
      AzureOps!Held
<1>3. CASE f = "DevopsConnected"
  <2>1. /\ Holds(Skim, "connectors", c, v) /\ Holds(Part("connectors"), "valid", c, v)
        /\ (Told(K, v) <=> v.ok.connectors /\ v.ok.valid)
        /\ (Uncut(K, c, v) <=> (v.ok.connectors => v.n.connectors = c.n.connectors))
    BY <1>3 DEF MayHold, Told, Uncut, MayEndEarly, AzureOps!Reads, AzureOps!Of,
       AzureOps!CmtVtd
  <2> QED BY <1>3, <1>m, <2>1 DEF KeepsPromise, Throws, Holds, ReadAs, AzureOps!Verdict,
      AzureOps!DevopsConnected, AzureOps!Finding, AzureOps!Held
<1>4. CASE f = "ContainersDefended"
  <2>1. /\ DOMAIN K = {"subscriptions", "plans", "standard"} /\ K.subscriptions = Given
        /\ K.plans = Skim /\ K.standard = Part("plans")
    BY <1>4 DEF AzureOps!Reads, AzureOps!Of, AzureOps!CmtVtd
  <2>2. /\ Holds(Given, "subscriptions", c, v) /\ Holds(Skim, "plans", c, v)
        /\ Holds(Part("plans"), "standard", c, v)
        /\ (Told(K, v) <=> v.ok.subscriptions /\ v.ok.plans /\ v.ok.standard)
        /\ (Uncut(K, c, v) <=> (v.ok.plans => v.n.plans = c.n.plans))
    BY <2>1 DEF MayHold, Told, Uncut, MayEndEarly
  <2>3. KeepsPromise(<<"azureOps", f>>, K, c, v,
                     AzureOps!ContainersDefended(v), AzureOps!ContainersDefended(c))
    BY <1>4, <1>m, <2>2 DEF KeepsPromise, Throws, Holds, ReadAs,
       AzureOps!ContainersDefended, AzureOps!Finding, AzureOps!None, AzureOps!Held
  <2> QED BY <1>4, <2>3 DEF AzureOps!Verdict
<1>5. CASE f = "MdvmActive"
  <2>1. /\ Holds(Skim, "plans", c, v) /\ Holds(Part("plans"), "mdvm", c, v)
        /\ (Told(K, v) <=> v.ok.plans /\ v.ok.mdvm)
        /\ (Uncut(K, c, v) <=> (v.ok.plans => v.n.plans = c.n.plans))
    BY <1>5 DEF MayHold, Told, Uncut, MayEndEarly, AzureOps!Reads, AzureOps!Of,
       AzureOps!ScrMon
  <2> QED BY <1>5, <1>m, <2>1 DEF KeepsPromise, Throws, Holds, ReadAs, AzureOps!Verdict,
      AzureOps!MdvmActive, AzureOps!Finding, AzureOps!Held
<1>6. CASE f = "ContactConfigured"
  <2>1. /\ Holds(Skim, "contacts", c, v) /\ Holds(Part("contacts"), "good", c, v)
        /\ (Told(K, v) <=> v.ok.contacts /\ v.ok.good)
        /\ (Uncut(K, c, v) <=> (v.ok.contacts => v.n.contacts = c.n.contacts))
    BY <1>6 DEF MayHold, Told, Uncut, MayEndEarly, AzureOps!Reads, AzureOps!Of,
       AzureOps!ScrMon
  <2> QED BY <1>6, <1>m, <2>1 DEF KeepsPromise, Throws, Holds, ReadAs, AzureOps!Verdict,
      AzureOps!ContactConfigured, AzureOps!Finding, AzureOps!Held
<1>7. CASE f = "InventoryActive"
  <2>1. /\ Holds(Skim, "resources", c, v) /\ (Told(K, v) <=> v.ok.resources)
        /\ (Uncut(K, c, v) <=> (v.ok.resources => v.n.resources = c.n.resources))
    BY <1>7 DEF MayHold, Told, Uncut, MayEndEarly, AzureOps!Reads, AzureOps!Of,
       AzureOps!PiyGiv
  <2> QED BY <1>7, <2>1 DEF KeepsPromise, Throws, Holds, ReadAs, AzureOps!Verdict,
      AzureOps!InventoryActive, AzureOps!Finding, AzureOps!Held
<1>8. CASE f = "BaselineEnforced"
  <2>1. /\ Holds(Skim, "assignments", c, v) /\ Holds(Skim, "evaluating", c, v)
        /\ (Told(K, v) <=> v.ok.assignments /\ v.ok.evaluating)
        /\ (Uncut(K, c, v) <=> (v.ok.assignments => v.n.assignments = c.n.assignments)
                            /\ (v.ok.evaluating => v.n.evaluating = c.n.evaluating))
    BY <1>8 DEF MayHold, Told, Uncut, MayEndEarly, AzureOps!Reads, AzureOps!Of,
       AzureOps!CmtRvp
  <2> QED BY <1>8, <2>1 DEF KeepsPromise, Throws, Holds, ReadAs, AzureOps!Verdict,
      AzureOps!BaselineEnforced, AzureOps!Finding, AzureOps!Held
<1>9. CASE f = "IncidentsWired"
  <2>1. /\ Holds(Skim, "automation", c, v) /\ Holds(Skim, "alerts", c, v)
        /\ (Told(K, v) <=> v.ok.automation /\ v.ok.alerts)
        /\ (Uncut(K, c, v) <=> (v.ok.automation => v.n.automation = c.n.automation)
                            /\ (v.ok.alerts => v.n.alerts = c.n.alerts))
    BY <1>9 DEF MayHold, Told, Uncut, MayEndEarly, AzureOps!Reads, AzureOps!Of,
       AzureOps!InrAar
  <2> QED BY <1>9, <2>1 DEF KeepsPromise, Throws, Holds, ReadAs, AzureOps!Verdict,
      AzureOps!IncidentsWired, AzureOps!Finding, AzureOps!Held
<1>10. CASE f = "HistoryRetained"
  <2>1. /\ Holds(Skim, "workspaces", c, v) /\ Holds(Part("workspaces"), "adequate", c, v)
        /\ (Told(K, v) <=> v.ok.workspaces /\ v.ok.adequate)
        /\ (Uncut(K, c, v) <=> (v.ok.workspaces => v.n.workspaces = c.n.workspaces))
    BY <1>10 DEF MayHold, Told, Uncut, MayEndEarly, AzureOps!Reads, AzureOps!Of,
       AzureOps!InrRpi
  <2> QED BY <1>10, <1>u, <1>m, <2>1 DEF KeepsPromise, Throws, Holds, ReadAs,
      AzureOps!Verdict, AzureOps!HistoryRetained, AzureOps!Finding, AzureOps!None,
      AzureOps!Held
<1>11. CASE f = "ChainMitigated"
  <2>1. /\ Holds(Skim, "registries", c, v)
        /\ Holds(Part("registries"), "mitigated", c, v) /\ Holds(Skim, "plans", c, v)
        /\ Holds(Part("plans"), "defender", c, v)
        /\ (Told(K, v) <=> v.ok.registries /\ v.ok.mitigated /\ v.ok.plans /\ v.ok.defender)
        /\ (Uncut(K, c, v) <=> (v.ok.registries => v.n.registries = c.n.registries)
                            /\ (v.ok.plans => v.n.plans = c.n.plans))
    BY <1>11 DEF MayHold, Told, Uncut, MayEndEarly, AzureOps!Reads, AzureOps!Of,
       AzureOps!ScrMit
  <2> QED BY <1>11, <1>m, <2>1 DEF KeepsPromise, Throws, Holds, ReadAs, AzureOps!Verdict,
      AzureOps!ChainMitigated, AzureOps!Finding, AzureOps!Held
<1>12. CASE f = "ResourcesIsolated"
  <2>1. /\ Holds(Skim, "accounts", c, v) /\ Holds(Part("accounts"), "offending", c, v)
        /\ (Told(K, v) <=> v.ok.accounts /\ v.ok.offending)
        /\ (Uncut(K, c, v) <=> (v.ok.accounts => v.n.accounts = c.n.accounts))
    BY <1>12 DEF MayHold, Told, Uncut, MayEndEarly, AzureOps!Reads, AzureOps!Of,
       AzureOps!SvcPrr
  <2> QED BY <1>12, <1>u, <1>o, <2>1 DEF KeepsPromise, Throws, Holds, ReadAs,
      AzureOps!Verdict, AzureOps!ResourcesIsolated, AzureOps!Finding, AzureOps!None,
      AzureOps!Held
<1>13. CASE f = "KevResponsive"
  <2>1. /\ Holds(Skim, "assessments", c, v)
        /\ Holds(Each("assessments"), "exploited", c, v)
        /\ (Told(K, v) <=> v.ok.assessments /\ v.ok.exploited)
        /\ (Uncut(K, c, v) <=> (v.ok.assessments => v.n.assessments = c.n.assessments))
    BY <1>13 DEF MayHold, Told, Uncut, MayEndEarly, AzureOps!Reads, AzureOps!Of,
       AzureOps!VdrScan
  <2> QED BY <1>13, <1>u, <1>o, <2>1 DEF KeepsPromise, Throws, Holds, ReadAs,
      AzureOps!Verdict, AzureOps!KevResponsive, AzureOps!Finding, AzureOps!Held,
      AzureOps!None
<1>14. CASE f = "DefenderEnabled"
  <2>1. /\ Holds(Peek, "standard", c, v) /\ (Told(K, v) <=> v.ok.standard)
        /\ (Uncut(K, c, v) <=> (v.ok.standard => v.n.standard = c.n.standard))
    BY <1>14 DEF MayHold, Told, Uncut, MayEndEarly, AzureOps!Reads, AzureOps!Of,
       AzureOps!RefArch
  <2> QED BY <1>14, <2>1 DEF KeepsPromise, Throws, Holds, ReadAs, AzureOps!Verdict,
      AzureOps!DefenderEnabled, AzureOps!Finding, AzureOps!Held
<1>15. CASE f = "FedrampInitiative"
  <2>1. /\ Holds(Peek, "initiatives", c, v) /\ (Told(K, v) <=> v.ok.initiatives)
        /\ (Uncut(K, c, v) <=> (v.ok.initiatives => v.n.initiatives = c.n.initiatives))
    BY <1>15 DEF MayHold, Told, Uncut, MayEndEarly, AzureOps!Reads, AzureOps!Of,
       AzureOps!RefArch
  <2> QED BY <1>15, <2>1 DEF KeepsPromise, Throws, Holds, ReadAs, AzureOps!Verdict,
      AzureOps!FedrampInitiative, AzureOps!Finding, AzureOps!Held
<1>16. CASE f = "NoPublicBlob"
  <2>1. /\ Holds(Peek, "blobs", c, v) /\ Holds(Part("blobs"), "publicBlobs", c, v)
        /\ (Told(K, v) <=> v.ok.blobs /\ v.ok.publicBlobs)
        /\ (Uncut(K, c, v) <=> (v.ok.blobs => v.n.blobs = c.n.blobs))
    BY <1>16 DEF MayHold, Told, Uncut, MayEndEarly, AzureOps!Reads, AzureOps!Of,
       AzureOps!RefArch
  <2> QED BY <1>16, <1>o, <2>1 DEF KeepsPromise, Throws, Holds, ReadAs, AzureOps!Verdict,
      AzureOps!NoPublicBlob, AzureOps!Finding, AzureOps!None, AzureOps!Held
<1>17. CASE f = "StorageHttps"
  <2>1. /\ Holds(Peek, "accounts", c, v) /\ Holds(Part("accounts"), "plain", c, v)
        /\ (Told(K, v) <=> v.ok.accounts /\ v.ok.plain)
        /\ (Uncut(K, c, v) <=> (v.ok.accounts => v.n.accounts = c.n.accounts))
    BY <1>17 DEF MayHold, Told, Uncut, MayEndEarly, AzureOps!Reads, AzureOps!Of,
       AzureOps!RefArch
  <2> QED BY <1>17, <1>o, <2>1 DEF KeepsPromise, Throws, Holds, ReadAs, AzureOps!Verdict,
      AzureOps!StorageHttps, AzureOps!Finding, AzureOps!None, AzureOps!Held
<1>18. CASE f = "StorageRestricted"
  <2>1. /\ Holds(Peek, "networks", c, v) /\ Holds(Part("networks"), "open", c, v)
        /\ (Told(K, v) <=> v.ok.networks /\ v.ok.open)
        /\ (Uncut(K, c, v) <=> (v.ok.networks => v.n.networks = c.n.networks))
    BY <1>18 DEF MayHold, Told, Uncut, MayEndEarly, AzureOps!Reads, AzureOps!Of,
       AzureOps!RefArch
  <2> QED BY <1>18, <1>o, <2>1 DEF KeepsPromise, Throws, Holds, ReadAs, AzureOps!Verdict,
      AzureOps!StorageRestricted, AzureOps!Finding, AzureOps!None, AzureOps!Held
<1>19. CASE f = "VaultsHardened"
  <2>1. /\ Holds(Peek, "vaults", c, v) /\ Holds(Part("vaults"), "soft", c, v)
        /\ (Told(K, v) <=> v.ok.vaults /\ v.ok.soft)
        /\ (Uncut(K, c, v) <=> (v.ok.vaults => v.n.vaults = c.n.vaults))
    BY <1>19 DEF MayHold, Told, Uncut, MayEndEarly, AzureOps!Reads, AzureOps!Of,
       AzureOps!RefArch
  <2> QED BY <1>19, <1>o, <2>1 DEF KeepsPromise, Throws, Holds, ReadAs, AzureOps!Verdict,
      AzureOps!VaultsHardened, AzureOps!Finding, AzureOps!None, AzureOps!Held
<1>20. CASE f = "OwnKeysUsed"
  <2>1. /\ Holds(Peek, "keys", c, v) /\ Holds(Peek, "ownKeyAccounts", c, v)
        /\ (Told(K, v) <=> v.ok.keys /\ v.ok.ownKeyAccounts)
        /\ (Uncut(K, c, v) <=> (v.ok.keys => v.n.keys = c.n.keys)
                            /\ (v.ok.ownKeyAccounts => v.n.ownKeyAccounts = c.n.ownKeyAccounts))
    BY <1>20 DEF MayHold, Told, Uncut, MayEndEarly, AzureOps!Reads, AzureOps!Of,
       AzureOps!RefArch
  <2> QED BY <1>20, <2>1 DEF KeepsPromise, Throws, Holds, ReadAs, AzureOps!Verdict,
      AzureOps!OwnKeysUsed, AzureOps!Finding, AzureOps!Held
<1>21. CASE f = "DisksEncrypted"
  <2>1. /\ Holds(Peek, "disks", c, v) /\ Holds(Part("disks"), "platformKey", c, v)
        /\ (Told(K, v) <=> v.ok.disks /\ v.ok.platformKey)
        /\ (Uncut(K, c, v) <=> (v.ok.disks => v.n.disks = c.n.disks))
    BY <1>21 DEF MayHold, Told, Uncut, MayEndEarly, AzureOps!Reads, AzureOps!Of,
       AzureOps!RefArch
  <2> QED BY <1>21, <1>o, <2>1 DEF KeepsPromise, Throws, Holds, ReadAs, AzureOps!Verdict,
      AzureOps!DisksEncrypted, AzureOps!Finding, AzureOps!None, AzureOps!Held
<1>22. CASE f = "NoAdminPortRules"
  <2>1. /\ Holds(Peek, "adminRules", c, v) /\ (Told(K, v) <=> v.ok.adminRules)
        /\ (Uncut(K, c, v) <=> (v.ok.adminRules => v.n.adminRules = c.n.adminRules))
    BY <1>22 DEF MayHold, Told, Uncut, MayEndEarly, AzureOps!Reads, AzureOps!Of,
       AzureOps!RefArch
  <2> QED BY <1>22, <2>1 DEF KeepsPromise, Throws, Holds, ReadAs, AzureOps!Verdict,
      AzureOps!NoAdminPortRules, AzureOps!Finding, AzureOps!None, AzureOps!Held
<1>23. CASE f = "NoVmPublicIp"
  <2>1. /\ Holds(Peek, "publicIps", c, v) /\ (Told(K, v) <=> v.ok.publicIps)
        /\ (Uncut(K, c, v) <=> (v.ok.publicIps => v.n.publicIps = c.n.publicIps))
    BY <1>23 DEF MayHold, Told, Uncut, MayEndEarly, AzureOps!Reads, AzureOps!Of,
       AzureOps!RefArch
  <2> QED BY <1>23, <2>1 DEF KeepsPromise, Throws, Holds, ReadAs, AzureOps!Verdict,
      AzureOps!NoVmPublicIp, AzureOps!Finding, AzureOps!None, AzureOps!Held
<1>24. CASE f = "WorkspaceRetention"
  <2>1. /\ Holds(Peek, "workspaces", c, v) /\ Holds(Part("workspaces"), "retained", c, v)
        /\ (Told(K, v) <=> v.ok.workspaces /\ v.ok.retained)
        /\ (Uncut(K, c, v) <=> (v.ok.workspaces => v.n.workspaces = c.n.workspaces))
    BY <1>24 DEF MayHold, Told, Uncut, MayEndEarly, AzureOps!Reads, AzureOps!Of,
       AzureOps!RefArch
  <2> QED BY <1>24, <1>m, <2>1 DEF KeepsPromise, Throws, Holds, ReadAs, AzureOps!Verdict,
      AzureOps!WorkspaceRetention, AzureOps!Finding, AzureOps!Held
<1> QED BY <1>1, <1>2, <1>3, <1>4, <1>5, <1>6, <1>7, <1>8, <1>9, <1>10, <1>11, <1>12, <1>13,
    <1>14, <1>15, <1>16, <1>17, <1>18, <1>19, <1>20, <1>21, <1>22, <1>23, <1>24
    DEF AzureOps!Reads

(* The finding of the Kubernetes collector.                                   *)
LEMMA K8sKeepsPromise ==
  ASSUME NEW c, NEW v, MayHold(K8sIamElp, c, v)
  PROVE  KeepsPromise(<<"k8s", "ClusterAdminLeast">>, K8sIamElp, c, v,
                      ClusterAdminLeast(v), ClusterAdminLeast(c))
<1>1. <<"k8s", "ClusterAdminLeast">> \in Named(UngatedFindings)
  BY InTable DEF UngatedFindings
<1>2. /\ Holds(Whole, "bindings", c, v) /\ Holds(Part("bindings"), "outsiders", c, v)
      /\ (Told(K8sIamElp, v) <=> v.ok.bindings /\ v.ok.outsiders) /\ Uncut(K8sIamElp, c, v)
  BY DEF MayHold, Told, Uncut, MayEndEarly, K8sIamElp, Whole, Part
<1> QED BY <1>1, <1>2 DEF KeepsPromise, Throws, Holds, ReadAs, Whole, Part,
    ClusterAdminLeast, Finding, None, Held

(* Every finding of every provider keeps what the tables promise of it.       *)
LEMMA ProvidersKeepPromises ==
  ASSUME NEW r \in AllRules, NEW c, NEW v, MayHold(ReadsOf(r), c, v)
  PROVE  KeepsPromise(r, ReadsOf(r), c, v, VerdictOf(r, v), VerdictOf(r, c))
<1>1. PICK m \in DOMAIN Reads : \E f \in DOMAIN Reads[m] : r = <<m, f>>
  BY DEF AllRules
<1>2. PICK f \in DOMAIN Reads[m] : r = <<m, f>>
  BY <1>1
<1>3. r[1] = m /\ r[2] = f /\ ReadsOf(r) = Reads[m][f]
  BY <1>2 DEF ReadsOf
<1>4. CASE m = "awsId"
  <2>1. Reads[m] = AwsId!Reads
    BY <1>4 DEF Reads
  <2>2. VerdictOf(r, v) = AwsId!Verdict(f, v) /\ VerdictOf(r, c) = AwsId!Verdict(f, c)
    BY <1>3, <1>4 DEF VerdictOf
  <2> QED BY <1>2, <1>3, <1>4, <2>1, <2>2, AwsIdentityKeepsPromises
<1>5. CASE m = "awsLog"
  <2>1. Reads[m] = AwsLog!Reads
    BY <1>5 DEF Reads
  <2>2. VerdictOf(r, v) = AwsLog!Verdict(f, v) /\ VerdictOf(r, c) = AwsLog!Verdict(f, c)
    BY <1>3, <1>5 DEF VerdictOf
  <2> QED BY <1>2, <1>3, <1>5, <2>1, <2>2, AwsLoggingKeepsPromises
<1>6. CASE m = "awsNet"
  <2>1. Reads[m] = AwsNet!Reads
    BY <1>6 DEF Reads
  <2>2. VerdictOf(r, v) = AwsNet!Verdict(f, v) /\ VerdictOf(r, c) = AwsNet!Verdict(f, c)
    BY <1>3, <1>6 DEF VerdictOf
  <2> QED BY <1>2, <1>3, <1>6, <2>1, <2>2, AwsNetworkKeepsPromises
<1>7. CASE m = "awsPlat"
  <2>1. Reads[m] = AwsPlat!Reads
    BY <1>7 DEF Reads
  <2>2. VerdictOf(r, v) = AwsPlat!Verdict(f, v) /\ VerdictOf(r, c) = AwsPlat!Verdict(f, c)
    BY <1>3, <1>7 DEF VerdictOf
  <2> QED BY <1>2, <1>3, <1>7, <2>1, <2>2, AwsPlatformKeepsPromises
<1>8. CASE m = "awsOps"
  <2>1. Reads[m] = AwsOps!Reads
    BY <1>8 DEF Reads
  <2>2. VerdictOf(r, v) = AwsOps!Verdict(f, v) /\ VerdictOf(r, c) = AwsOps!Verdict(f, c)
    BY <1>3, <1>8 DEF VerdictOf
  <2> QED BY <1>2, <1>3, <1>8, <2>1, <2>2, AwsOperationsKeepsPromises
<1>9. CASE m = "gcpId"
  <2>1. Reads[m] = GcpId!Reads
    BY <1>9 DEF Reads
  <2>2. VerdictOf(r, v) = GcpId!Verdict(f, v) /\ VerdictOf(r, c) = GcpId!Verdict(f, c)
    BY <1>3, <1>9 DEF VerdictOf
  <2> QED BY <1>2, <1>3, <1>9, <2>1, <2>2, GcpIdentityKeepsPromises
<1>10. CASE m = "gcpNet"
  <2>1. Reads[m] = GcpNet!Reads
    BY <1>10 DEF Reads
  <2>2. VerdictOf(r, v) = GcpNet!Verdict(f, v) /\ VerdictOf(r, c) = GcpNet!Verdict(f, c)
    BY <1>3, <1>10 DEF VerdictOf
  <2> QED BY <1>2, <1>3, <1>10, <2>1, <2>2, GcpNetworkKeepsPromises
<1>11. CASE m = "gcpPlat"
  <2>1. Reads[m] = GcpPlat!Reads
    BY <1>11 DEF Reads
  <2>2. VerdictOf(r, v) = GcpPlat!Verdict(f, v) /\ VerdictOf(r, c) = GcpPlat!Verdict(f, c)
    BY <1>3, <1>11 DEF VerdictOf
  <2> QED BY <1>2, <1>3, <1>11, <2>1, <2>2, GcpPlatformKeepsPromises
<1>12. CASE m = "gcpOps"
  <2>1. Reads[m] = GcpOps!Reads
    BY <1>12 DEF Reads
  <2>2. VerdictOf(r, v) = GcpOps!Verdict(f, v) /\ VerdictOf(r, c) = GcpOps!Verdict(f, c)
    BY <1>3, <1>12 DEF VerdictOf
  <2> QED BY <1>2, <1>3, <1>12, <2>1, <2>2, GcpOperationsKeepsPromises
<1>13. CASE m = "azureId"
  <2>1. Reads[m] = AzureId!Reads
    BY <1>13 DEF Reads
  <2>2. VerdictOf(r, v) = AzureId!Verdict(f, v) /\ VerdictOf(r, c) = AzureId!Verdict(f, c)
    BY <1>3, <1>13 DEF VerdictOf
  <2> QED BY <1>2, <1>3, <1>13, <2>1, <2>2, AzureIdentityKeepsPromises
<1>14. CASE m = "azurePlat"
  <2>1. Reads[m] = AzurePlat!Reads
    BY <1>14 DEF Reads
  <2>2. VerdictOf(r, v) = AzurePlat!Verdict(f, v) /\ VerdictOf(r, c) = AzurePlat!Verdict(f, c)
    BY <1>3, <1>14 DEF VerdictOf
  <2> QED BY <1>2, <1>3, <1>14, <2>1, <2>2, AzurePlatformKeepsPromises
<1>15. CASE m = "azureOps"
  <2>1. Reads[m] = AzureOps!Reads
    BY <1>15 DEF Reads
  <2>2. VerdictOf(r, v) = AzureOps!Verdict(f, v) /\ VerdictOf(r, c) = AzureOps!Verdict(f, c)
    BY <1>3, <1>15 DEF VerdictOf
  <2> QED BY <1>2, <1>3, <1>15, <2>1, <2>2, AzureOperationsKeepsPromises
<1>16. CASE m = "k8s"
  <2>1. Reads[m] = [ClusterAdminLeast |-> K8sIamElp]
    BY <1>16 DEF Reads
  <2>2. f = "ClusterAdminLeast" /\ ReadsOf(r) = K8sIamElp
    BY <1>3, <2>1
  <2>3. VerdictOf(r, v) = ClusterAdminLeast(v) /\ VerdictOf(r, c) = ClusterAdminLeast(c)
    BY <1>3, <1>16 DEF VerdictOf
  <2> QED BY <1>2, <1>16, <2>2, <2>3, K8sKeepsPromise
<1> QED BY <1>4, <1>5, <1>6, <1>7, <1>8, <1>9, <1>10, <1>11, <1>12, <1>13, <1>14, <1>15, <1>16
    DEF Reads
-----------------------------------------------------------------------------
(* What the tables promise of each finding is what the invariants ask.        *)
LEMMA HonestInvariant ==
  ASSUME OfTheProviders
  PROVE  RInv => FailsClosed /\ NamesWhatItFound /\ FailsForCause
<1> SUFFICES ASSUME RInv, outcome \in {"passed", "failed", "thrown"}
             PROVE  FailsClosed /\ NamesWhatItFound /\ FailsForCause
  BY DEF FailsClosed, NamesWhatItFound, FailsForCause
<1>1. PICK K : K = Kinds(rule)
  OBVIOUS
<1>2. rule \in AllRules /\ K = ReadsOf(rule) /\ DOMAIN got = DOMAIN K
      /\ MayHold(K, Cloud, View)
      /\ FindingOf(rule, View) = VerdictOf(rule, View)
      /\ FindingOf(rule, Cloud) = VerdictOf(rule, Cloud)
  BY <1>1, CollectorMayHold
     DEF OfTheProviders, RInv, IInv, CollectorTypeOK, Concluded, Pending
<1>3. KeepsPromise(rule, K, Cloud, View, FindingOf(rule, View), FindingOf(rule, Cloud))
  BY <1>2, ProvidersKeepPromises
<1>4. Told(K, View) <=> NoErrors
  BY <1>2 DEF Told, NoErrors, View
<1>5. Uncut(K, Cloud, View) <=> NothingCut
  <2>1. \A q \in DOMAIN got :
          /\ got[q].n \in Nat /\ got[q].truth \in Nat
          /\ Kinds(rule)[q].how # "last" => got[q].n <= got[q].truth
    BY DEF RInv, IInv, CollectorTypeOK
  <2>2. \A q \in DOMAIN got : /\ View.n[q] = got[q].n /\ Cloud.n[q] = got[q].truth
                              /\ View.ok[q] = got[q].ok
    BY DEF View, Cloud
  <2>3. \A q \in DOMAIN got : MayEndEarly(K[q]) =>
          (View.n[q] = Cloud.n[q] <=> ~(got[q].n < got[q].truth))
    BY <1>1, <2>1, <2>2 DEF MayEndEarly
  <2> HIDE DEF View, Cloud
  <2> QED BY <1>1, <1>2, <2>2, <2>3 DEF Uncut, NothingCut, CutShort
<1>6. FailsClosed
  <2>1. NoErrors /\ NothingCut => View = Cloud
    BY CompleteIsWhole DEF RInv
  <2> QED BY <1>3, <1>4, <1>5, <2>1
          DEF KeepsPromise, FailsClosed, OfTheProviders, RInv, IInv, Verdicts
<1>7. NamesWhatItFound
  BY <1>3, <1>4 DEF KeepsPromise, NamesWhatItFound, OfTheProviders, RInv, Concluded
<1>8. FailsForCause
  <2>1. NoErrors /\ NothingCut => View = Cloud
    BY CompleteIsWhole DEF RInv
  <2> QED BY <1>3, <1>4, <1>5, <2>1
          DEF KeepsPromise, FailsForCause, OfTheProviders, RInv, IInv, Verdicts
<1> QED BY <1>6, <1>7, <1>8

(* A finding of the providers' collectors that passes is so of the cloud,     *)
(* whatever its size and whichever reads failed, outside the two tables.      *)
THEOREM FindingsFailClosed ==
  ASSUME OfTheProviders
  PROVE  Spec => []FailsClosed
<1>1. RInv => FailsClosed
  BY HonestInvariant
<1> QED BY <1>1, InitRInv, StepKeepsRInv, PTL DEF Spec

(* A finding that fails though every call was answered is a failing of the    *)
(* cloud, outside the table of those that miss what is on an unread page.     *)
THEOREM FailingsHaveCause ==
  ASSUME OfTheProviders
  PROVE  Spec => []FailsForCause
<1>1. RInv => FailsForCause
  BY HonestInvariant
<1> QED BY <1>1, InitRInv, StepKeepsRInv, PTL DEF Spec

(* A finding that is refused for naming nothing had a read that failed, or is *)
(* of the table of those that name nothing.                                   *)
THEOREM FailuresAreNamed ==
  ASSUME OfTheProviders
  PROVE  Spec => []NamesWhatItFound
<1>1. RInv => NamesWhatItFound
  BY HonestInvariant
<1> QED BY <1>1, InitRInv, StepKeepsRInv, PTL DEF Spec
=============================================================================
