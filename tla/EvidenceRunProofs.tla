-------------------------- MODULE EvidenceRunProofs -------------------------
(* What a reader may rely on in the directory of the runs, for any number of  *)
(* runs, of stages left out and of failures, deaths and crashes.  Of the      *)
(* table of stages the proofs know OrderIsSound only, which TLC computes from *)
(* the table (OrderAssumption of MCPoamRisk), too large for the provers to    *)
(* evaluate.                                                                  *)
EXTENDS EvidenceRun, TLAPS

(* A stage is one of a finite list. *)
LEMMA StageNumbers ==
  ASSUME OrderIsSound
  PROVE  /\ Len(Stages) \in Nat /\ DOMAIN Stages = 1..Len(Stages)
         /\ SignAt \in Nat /\ SiftAt \in Nat
<1>1. Stages \in Seq(ToSet(Stages))
  BY DEF OrderIsSound, StagesTyped
<1> HIDE DEF Stages
<1>2. Len(Stages) \in Nat /\ DOMAIN Stages = 1..Len(Stages)
  BY <1>1
<1>3. SignAt \in DOMAIN Stages /\ SiftAt \in DOMAIN Stages
  BY DEF OrderIsSound, StagesInOrder
<1>4. QED
  BY <1>2, <1>3

(* What a stage writes is a document. *)
LEMMA WritesAreDocs == ASSUME NEW k \in DOMAIN Stages PROVE Writes(k) \subseteq Docs
BY DEF Writes, Docs

(* What is read before it is written relates documents. *)
LEMMA EverBehindTyped == ASSUME OrderIsSound PROVE EverBehind \subseteq Docs \X Docs
<1> SUFFICES ASSUME NEW k \in DOMAIN Stages, NEW p \in ReadBefore[k] PROVE p \in Docs \X Docs
  BY DEF EverBehind
<1>1. PICK j \in 1..k - 1 :
        p \in (ToSet(Stages[j].emit.writes) \ Stages[j].emit.amends)
                \X (Stages[j].emit.reads \cap ToSet(Stages[k].emit.writes))
  BY DEF ReadBefore
<1>2. j \in DOMAIN Stages
  BY StageNumbers
<1>3. QED
  BY <1>1, <1>2, WritesAreDocs DEF Writes

(* The files a stage has written when it ends early are among those it writes. *)
LEMMA WrittenWithin ==
  ASSUME OrderIsSound, NEW n \in DOMAIN Stages, NEW k \in 0..Len(Stages[n].emit.writes)
  PROVE  Written(Stages[n].emit, k) \subseteq Writes(n)
<1>1. Stages[n].emit.writes \in Seq(Writes(n))
  BY DEF OrderIsSound, StagesTyped
<1>2. \A i \in 1..k : Stages[n].emit.writes[i] \in Writes(n)
  BY <1>1
<1>3. QED
  BY <1>2 DEF Written

(* A stage that does its work writes all it is to write but for the documents *)
(* that it only amends and that are not there.                                *)
LEMMA WrittenAll ==
  ASSUME OrderIsSound, NEW n \in DOMAIN Stages, NEW d \in Writes(n)
  PROVE  LET e == Stages[n].emit IN
         d \in Written(e, Len(e.writes)) \/ (d \in e.amends \ e.starts /\ ~Present(d))
<1> DEFINE e == Stages[n].emit
<1>1. e.writes \in Seq(Writes(n))
  BY DEF OrderIsSound, StagesTyped
<1>2. PICK i \in 1..Len(e.writes) : e.writes[i] = d
  <2>1. d \in {e.writes[i] : i \in DOMAIN e.writes}
    BY DEF Writes, ToSet
  <2>2. DOMAIN e.writes = 1..Len(e.writes)
    BY <1>1
  <2>3. QED
    BY <2>1, <2>2
<1>3. QED
  BY <1>2 DEF Written

(* What the documents are called. *)
LEMMA Named ==
  ASSUME OrderIsSound
  PROVE  /\ {"ksi", "manifest", "matrix"} \cup Derived \subseteq Docs
         /\ "ksi" \in Signable /\ "manifest" \notin Signable
         /\ "ksi" \notin Derived /\ "manifest" \notin Derived /\ "ksi" \in SsdfEnvelopes
BY DEF OrderIsSound, StagesTyped, Signable, Unsigned, Derived, SsdfEnvelopes, KsiFiles
-----------------------------------------------------------------------------
(* What a stage of a run does, whichever way it ends.  W is what it writes.   *)
Puts(W) ==
  /\ made' = [d \in Docs |-> IF d \in W THEN run ELSE made[d]]
  /\ behind' \subseteq behind \cup ReadBefore[at]
  /\ mixed' \subseteq mixed \cup (W \X {i \in (Stages[at].emit.reads \cap Docs) \ W : Old(i)})
  /\ fouled' \subseteq fouled \cup {d \in W : UsesInvalid(Stages[at].emit)}

(* The manifest is written by the signature alone, with the list of what      *)
(* there is; the rest only changes files it lists.                            *)
Seals(W) == \/ /\ listed' = listed /\ intact' = intact \ W /\ "manifest" \notin W
            \/ /\ at = SignAt /\ at' = at + 1 /\ W = {"manifest"}
               /\ listed' = {d \in Signable : Present(d)} /\ intact' = listed'

(* No gap: the stage did what it is there for. *)
DoesItsWork(W) ==
  /\ gaps = 0
  /\ at' = at + 1 => /\ Always(at) \subseteq W
                     /\ \A d \in Settled(at) : d \in W \/ ~Present(d)
  /\ Stages[at].does = "verified" /\ W # {} => ~Present("manifest")

(* Invalid evidence does not pass the sifting but where it cannot be moved,   *)
(* and then stays.                                                            *)
Sifts == /\ invalid' = "fresh" => at' <= SiftAt
         /\ invalid' = "stuck" => at' > 1
         /\ invalid = "stuck" => invalid' = "stuck"

StageStep(W) ==
  /\ at \in DOMAIN Stages /\ W \subseteq Writes(at)
  /\ Puts(W) /\ Seals(W)
  /\ run' = run /\ at' \in {at, at + 1} /\ gaps' \in Nat /\ spared' \in Nat
  /\ invalid' \in {"none", "fresh", "moved", "stuck", "kept"}
  /\ status' \in {"running", "finished", "failed", "aborted", "stopped"}
  /\ at = 1 /\ at' = 2 => W = {"ksi"}
  /\ Sifts
  /\ W \cap Derived # {} => Present("matrix")
  /\ gaps' = 0 => DoesItsWork(W)

(* A document is of this run when the stage writes it, and otherwise what it  *)
(* was.                                                                       *)
LEMMA PutsDocs ==
  ASSUME EvidenceTypeOK, NEW W \in SUBSET Docs, Puts(W), run' = run, NEW d \in Docs
  PROVE  /\ d \in W => Present(d)' /\ Fresh(d)' /\ ~Old(d)'
         /\ d \notin W => /\ Present(d)' <=> Present(d)
                          /\ Fresh(d)' <=> Fresh(d)
                          /\ Old(d)' <=> Old(d)
<1>1. made'[d] = IF d \in W THEN run ELSE made[d]
  BY DEF Puts
<1>2. run > 0
  BY DEF EvidenceTypeOK
<1>3. QED
  BY <1>1, <1>2 DEF Present, Fresh, Old

(* The types. *)
LEMMA StepTyped ==
  ASSUME OrderIsSound, EvidenceIInv, NEW W, StageStep(W)
  PROVE  EvidenceTypeOK' /\ behind' \subseteq EverBehind
<1> USE DEF EvidenceIInv, EvidenceTypeOK
<1>1. W \subseteq Docs
  BY WritesAreDocs DEF StageStep
<1>2. run' \in Nat \ {0} /\ at' \in 1..Len(Stages) + 1 /\ gaps' \in Nat /\ spared' \in Nat
  BY StageNumbers DEF StageStep
<1>3. made' \in [Docs -> 0..run']
  BY <1>1 DEF StageStep, Puts
<1>4. behind' \subseteq EverBehind /\ behind' \subseteq Docs \X Docs
  BY EverBehindTyped DEF StageStep, Puts, EverBehind
<1>5. mixed' \subseteq Docs \X Docs
  BY <1>1 DEF StageStep, Puts
<1>6. listed' \subseteq Signable /\ intact' \subseteq listed'
  BY DEF StageStep, Seals
<1>7. fouled' \subseteq Docs
  BY <1>1 DEF StageStep, Puts
<1>8. QED
  BY <1>2, <1>3, <1>4, <1>5, <1>6, <1>7 DEF StageStep

(* In a run without gaps only what the stage's order allows is old. *)
LEMMA StepMixed ==
  ASSUME OrderIsSound, EvidenceIInv, NEW W, StageStep(W), gaps' = 0
  PROVE  mixed' \subseteq OldByDesign
<1>1. gaps = 0 /\ mixed \subseteq OldByDesign /\ DoesItsWork(W)
  BY DEF EvidenceIInv, StageStep, DoesItsWork
<1> SUFFICES ASSUME NEW w \in W, NEW i \in (Stages[at].emit.reads \cap Docs) \ W, Old(i)
             PROVE  <<w, i>> \in OldByDesign
  BY <1>1 DEF StageStep, Puts
<1>2. at \in DOMAIN Stages /\ w \in Writes(at) /\ at \in Nat
  BY StageNumbers DEF StageStep
<1>3. i \notin SettledBefore(at)
  <2> SUFFICES ASSUME NEW j \in 1..at - 1, i \in Settled(j) PROVE FALSE
    BY DEF SettledBefore
  <2>1. ~Old(i)
    BY <1>1 DEF EvidenceIInv, NothingIsMissing
  <2>2. QED
    BY <2>1
<1>4. i \notin Unverified(at)
  BY <1>1 DEF Unverified, DoesItsWork, Old
<1>5. i \in OldInputs(at)
  BY <1>3, <1>4 DEF OldInputs
<1>6. Writes(at) \X OldInputs(at) \subseteq OldByDesign
  BY <1>2 DEF OrderIsSound, ReadsInOrder
<1>7. QED
  BY <1>2, <1>5, <1>6

(* The sifting and the collection. *)
LEMMA StepSifted ==
  ASSUME OrderIsSound, EvidenceIInv, NEW W, StageStep(W)
  PROVE  SiftedFirst' /\ CollectedFirst'
<1>1. EvidenceTypeOK /\ SiftedFirst /\ CollectedFirst /\ Puts(W) /\ run' = run
  BY DEF EvidenceIInv, StageStep
<1>2. at \in DOMAIN Stages /\ W \subseteq Writes(at) /\ W \in SUBSET Docs
  BY WritesAreDocs DEF StageStep
<1>3. at \in Nat /\ at >= 1 /\ at' \in Nat /\ at <= at' /\ at' \in {at, at + 1}
  BY <1>1, StageNumbers DEF EvidenceTypeOK, StageStep
<1>4. SiftedFirst'
  <2>1. (invalid' = "fresh" => at' <= SiftAt) /\ (invalid' = "stuck" => at' > 1)
    BY DEF StageStep, Sifts
  <2>2. ASSUME invalid' # "stuck" PROVE fouled' \subseteq FromUnsifted
    <3>1. invalid # "stuck" /\ fouled \subseteq FromUnsifted
      BY <2>2, <1>1 DEF StageStep, Sifts, SiftedFirst
    <3>2. ASSUME UsesInvalid(Stages[at].emit) PROVE Writes(at) \subseteq FromUnsifted
      <4>1. CASE "ksi" \in Stages[at].emit.reads /\ invalid = "fresh"
        <5>1. at <= SiftAt
          BY <4>1, <1>1 DEF SiftedFirst
        <5>2. QED
          BY <5>1, <4>1, <1>2 DEF OrderIsSound, StagesInOrder
      <4>2. CASE Stages[at].emit.reads \cap Results # {}
        BY <4>2, <1>2 DEF OrderIsSound, StagesInOrder
      <4>3. QED
        BY <4>1, <4>2, <3>1, <3>2 DEF UsesInvalid
    <3>3. fouled' \subseteq fouled \cup {d \in W : UsesInvalid(Stages[at].emit)}
      BY <1>1 DEF Puts
    <3>4. QED
      BY <3>1, <3>2, <3>3, <1>2
  <2>3. QED
    BY <2>1, <2>2 DEF SiftedFirst
<1>5. CollectedFirst'
  <2>1. ASSUME at' > 1 PROVE Fresh("ksi")'
    <3>1. Fresh("ksi") \/ "ksi" \in W
      <4>1. CASE at > 1
        BY <4>1, <1>1 DEF CollectedFirst
      <4>2. CASE at = 1
        BY <4>2, <2>1, <1>3 DEF StageStep
      <4>3. QED
        BY <4>1, <4>2, <1>3
    <3>2. QED
      BY <3>1, <1>1, <1>2, Named, PutsDocs
  <2>2. ASSUME at' > 1, at' <= SignAt PROVE "ksi" \notin intact'
    <3>1. intact' = intact \ W
      BY <2>2, <1>3, StageNumbers DEF StageStep, Seals
    <3>2. "ksi" \notin intact \/ "ksi" \in W
      <4>1. CASE at > 1
        BY <4>1, <2>2, <1>1, <1>3, StageNumbers DEF CollectedFirst
      <4>2. CASE at = 1
        BY <4>2, <2>2, <1>3 DEF StageStep
      <4>3. QED
        BY <4>1, <4>2, <1>3
    <3>3. QED
      BY <3>1, <3>2
  <2>3. ASSUME Present("manifest")' PROVE "ksi" \in listed'
    <3>1. CASE listed' = listed /\ "manifest" \notin W
      <4>1. Present("manifest")
        BY <2>3, <3>1, <1>1, <1>2, Named, PutsDocs
      <4>2. QED
        BY <4>1, <3>1, <1>1 DEF CollectedFirst
    <3>2. CASE at = SignAt /\ listed' = {d \in Signable : Present(d)}
      <4>1. at > 1
        BY <3>2, <1>3, StageNumbers DEF OrderIsSound, StagesInOrder
      <4>2. Present("ksi")
        BY <4>1, <1>1 DEF CollectedFirst, Fresh, Present, EvidenceTypeOK
      <4>3. QED
        BY <4>2, <3>2, Named
    <3>3. QED
      BY <3>1, <3>2 DEF StageStep, Seals
  <2>4. QED
    BY <2>1, <2>2, <2>3 DEF CollectedFirst
<1>6. QED
  BY <1>4, <1>5

(* What verifying the signed directory fails on. *)
LEMMA StepSealed ==
  ASSUME OrderIsSound, EvidenceIInv, NEW W, StageStep(W)
  PROVE  SignedAtTheEnd'
<1> SUFFICES ASSUME Fresh("manifest")'
             PROVE  at' > SignAt /\ Failing' \subseteq Late
  BY DEF SignedAtTheEnd
<1>1. EvidenceTypeOK /\ SignedAtTheEnd /\ Puts(W) /\ run' = run
  BY DEF EvidenceIInv, StageStep
<1>2. at \in DOMAIN Stages /\ W \subseteq Writes(at) /\ W \in SUBSET Docs
  BY WritesAreDocs DEF StageStep
<1>3. at \in Nat /\ at' \in {at, at + 1}
  BY <1>1 DEF EvidenceTypeOK, StageStep
<1>4. ASSUME NEW d \in Signable PROVE Present(d)' => Present(d) \/ d \in W
  <2>1. d \in Docs
    BY DEF Signable
  <2>2. QED
    BY <2>1, <1>1, <1>2, PutsDocs
<1>5. Failing' = (listed' \ intact') \cup {d \in Signable : Present(d)' /\ d \notin listed'}
  BY DEF Failing
<1>6. CASE listed' = listed /\ intact' = intact \ W /\ "manifest" \notin W
  <2>1. Fresh("manifest")
    BY <1>6, <1>1, <1>2, Named, PutsDocs
  <2>2. at > SignAt /\ Failing \subseteq Late
    BY <2>1, <1>1 DEF SignedAtTheEnd
  <2>3. W \cap Signable \subseteq Late
    BY <2>2, <1>2 DEF OrderIsSound, StagesInOrder
  <2>4. listed \subseteq Signable
    BY <1>1 DEF EvidenceTypeOK
  <2>5. Failing = (listed \ intact) \cup {d \in Signable : Present(d) /\ d \notin listed}
    BY DEF Failing
  <2>6. Failing' \subseteq Late
    BY <2>2, <2>3, <2>4, <2>5, <1>4, <1>5, <1>6
  <2>7. QED
    BY <2>2, <2>6, <1>3, StageNumbers
<1>7. CASE /\ at = SignAt /\ at' = at + 1 /\ W = {"manifest"}
           /\ listed' = {d \in Signable : Present(d)} /\ intact' = listed'
  <2>1. Failing' = {}
    BY <1>4, <1>5, <1>7, Named
  <2>2. QED
    BY <2>1, <1>3, <1>7
<1>8. QED
  BY <1>6, <1>7 DEF StageStep, Seals

(* What a run without gaps has behind it, and the documents made from the     *)
(* matrix.                                                                    *)
LEMMA StepComplete ==
  ASSUME OrderIsSound, EvidenceIInv, NEW W, StageStep(W)
  PROVE  NothingIsMissing' /\ DerivedNeedsMatrix'
<1>1. EvidenceTypeOK /\ NothingIsMissing /\ DerivedNeedsMatrix /\ Puts(W) /\ run' = run
  BY DEF EvidenceIInv, StageStep
<1>2. at \in DOMAIN Stages /\ W \in SUBSET Docs
  BY WritesAreDocs DEF StageStep
<1>3. at \in Nat /\ at' \in {at, at + 1}
  BY <1>1 DEF EvidenceTypeOK, StageStep
<1>4. ASSUME gaps' = 0, NEW k \in 1..at' - 1
      PROVE  /\ \A d \in Always(k) : Fresh(d)'
             /\ \A d \in Settled(k) : ~Old(d)'
  <2>1. DoesItsWork(W) /\ gaps = 0
    BY <1>4 DEF StageStep, DoesItsWork
  <2>2. k \in DOMAIN Stages
    BY <1>2, <1>3, StageNumbers
  <2>3. (k = at /\ at' = at + 1) \/ k \in 1..at - 1
    <3>1. CASE at' = at
      BY <3>1, <1>3
    <3>2. CASE at' = at + 1
      <4>1. k \in 1..at
        BY <3>2, <1>3
      <4>2. QED
        BY <4>1, <3>2, <1>3
    <3>3. QED
      BY <3>1, <3>2, <1>3
  <2>4. Always(k) \subseteq Docs /\ Settled(k) \subseteq Docs
    BY <2>2, WritesAreDocs DEF Always, Settled
  <2>5. ASSUME NEW d \in Always(k) PROVE Fresh(d)'
    <3>1. d \in W \/ Fresh(d)
      <4>1. CASE k = at /\ at' = at + 1
        BY <4>1, <2>1 DEF DoesItsWork
      <4>2. CASE k \in 1..at - 1
        BY <4>2, <2>1, <1>1 DEF NothingIsMissing
      <4>3. QED
        BY <4>1, <4>2, <2>3
    <3>2. QED
      BY <3>1, <2>4, <1>1, <1>2, PutsDocs
  <2>6. ASSUME NEW d \in Settled(k) PROVE ~Old(d)'
    <3>1. d \in W \/ ~Old(d)
      <4>1. CASE k = at /\ at' = at + 1
        BY <4>1, <2>1 DEF DoesItsWork, Old
      <4>2. CASE k \in 1..at - 1
        BY <4>2, <2>1, <1>1 DEF NothingIsMissing
      <4>3. QED
        BY <4>1, <4>2, <2>3
    <3>2. QED
      BY <3>1, <2>4, <1>1, <1>2, PutsDocs
  <2>7. QED
    BY <2>5, <2>6
<1>5. NothingIsMissing'
  <2> SUFFICES ASSUME gaps' = 0
               PROVE  \A k \in 1..at' - 1 : /\ \A d \in Always(k) : Fresh(d)'
                                           /\ \A d \in Settled(k) : ~Old(d)'
    BY DEF NothingIsMissing
  <2>1. QED
    BY <1>4
<1>6. ASSUME NEW d \in Derived, Present(d)' PROVE Present("matrix")'
  <2>1. d \in Docs /\ "matrix" \in Docs
    BY Named
  <2>2. Present(d) \/ d \in W
    BY <1>6, <2>1, <1>1, <1>2, PutsDocs
  <2>3. Present("matrix")
    BY <2>2, <1>1 DEF StageStep, DerivedNeedsMatrix
  <2>4. QED
    BY <2>1, <2>3, <1>1, <1>2, PutsDocs
<1>7. QED
  BY <1>5, <1>6 DEF DerivedNeedsMatrix

(* A stage keeps the invariant. *)
LEMMA StepKeeps ==
  ASSUME OrderIsSound, EvidenceIInv, NEW W, StageStep(W)
  PROVE  EvidenceIInv'
BY StepTyped, StepMixed, StepSifted, StepSealed, StepComplete DEF EvidenceIInv
-----------------------------------------------------------------------------
(* Put does no more than Puts says. *)
LEMMA PutPuts ==
  ASSUME EvidenceTypeOK, NEW W \in SUBSET Docs, Put(Stages[at].emit, W)
  PROVE  Puts(W)
BY DEF Put, Puts, Old

(* Nothing is written. *)
LEMMA NothingPut ==
  ASSUME EvidenceTypeOK, UNCHANGED <<made, behind, mixed, listed, intact, fouled>>
  PROVE  Puts({}) /\ Seals({})
BY DEF EvidenceTypeOK, Puts, Seals

(* Where a stage of some kind is. *)
LEMMA Places ==
  ASSUME OrderIsSound, EvidenceTypeOK, at \in DOMAIN Stages
  PROVE  /\ at \in Nat /\ at >= 1 /\ 1 < SiftAt /\ SiftAt < SignAt
         /\ SignAt \in Nat /\ SiftAt \in Nat
         /\ Stages[at].does = "collect" <=> at = 1
         /\ Stages[at].does = "quarantine" <=> at = SiftAt
         /\ Stages[at].does = "sign" <=> at = SignAt
         /\ "manifest" \in Writes(at) <=> at = SignAt
         /\ Stages[at].does = "verified" => at < SignAt
         /\ Stages[at].does = "ifsigned" => at > SignAt
BY StageNumbers DEF OrderIsSound, StagesInOrder, EvidenceTypeOK

(* The three stages that are not as the others. *)
LEMMA OwnStages ==
  ASSUME OrderIsSound
  PROVE  /\ Writes(1) = {"ksi"} /\ ~Stages[1].caught
         /\ Writes(SiftAt) = {} /\ ~Stages[SiftAt].caught
         /\ Writes(SignAt) = {"manifest"} /\ Stages[SignAt].caught
         /\ Len(Stages[1].emit.writes) = 1 /\ Len(Stages[SignAt].emit.writes) = 1
         /\ \A k \in {1, SiftAt, SignAt} :
              /\ Stages[k].emit.needs = {} /\ Stages[k].emit.amends = {}
              /\ Stages[k].emit.spares = {}
BY DEF OrderIsSound, StagesInOrder, Writes, ToSet

(* No document made from the matrix is written where there is none. *)
LEMMA DerivedHasMatrix ==
  ASSUME OrderIsSound, at \in DOMAIN Stages, NEW W \in SUBSET Writes(at), W \cap Derived # {},
         ~Throws(Stages[at])
  PROVE  Present("matrix")
<1>1. "matrix" \in Stages[at].emit.needs
  BY DEF OrderIsSound, ReadsInOrder
<1>2. QED
  BY <1>1 DEF Throws

(* The evidence is not what the manifest of an earlier run lists, which alone *)
(* there can be before the signature.                                         *)
LEMMA NeverMatches ==
  ASSUME OrderIsSound, EvidenceIInv, at > 1, at <= SignAt
  PROVE  EnvelopeMismatch <=> Present("manifest")
BY Named DEF EvidenceIInv, CollectedFirst, EnvelopeMismatch

(* The stage does its work. *)
LEMMA EmitStep ==
  ASSUME OrderIsSound, EvidenceIInv, Emit
  PROVE  EvidenceIInv'
<1>1. at \in DOMAIN Stages /\ ~Throws(Stages[at]) /\ EvidenceTypeOK
  BY DEF Emit, Running, EvidenceIInv
<1> DEFINE e == Stages[at].emit
<1>2. PICK W : W = Written(e, Len(e.writes))
  OBVIOUS
<1>3. W \subseteq Writes(at) /\ W \subseteq Docs
  <2>1. Len(e.writes) \in Nat
    BY <1>1 DEF OrderIsSound, StagesTyped
  <2>2. QED
    BY <2>1, <1>1, <1>2, WrittenWithin, WritesAreDocs
<1>4. at \in Nat /\ at > 1 /\ at \notin {SiftAt, SignAt}
  BY <1>1, Places DEF Emit
<1>5. Puts(W) /\ Seals(W)
  <2>1. Put(e, W) /\ listed' = listed /\ intact' = intact \ W
    BY <1>2 DEF Emit, Write
  <2>2. "manifest" \notin W
    BY <1>1, <1>3, <1>4, Places
  <2>3. QED
    BY <2>1, <2>2, <1>1, <1>3, PutPuts DEF Seals
<1>6. ASSUME gaps' = 0 PROVE DoesItsWork(W)
  <2>1. \A d \in Writes(at) : d \in W \/ (d \in e.amends \ e.starts /\ ~Present(d))
    BY <1>1, <1>2, WrittenAll
  <2>2. Always(at) \subseteq W
    BY <2>1 DEF Always
  <2>3. \A d \in Settled(at) : d \in W \/ ~Present(d)
    BY <2>1 DEF Settled
  <2>4. Stages[at].does = "verified" => ~Present("manifest")
    BY <1>1, <1>4, Places, NeverMatches DEF Throws
  <2>5. QED
    BY <2>2, <2>3, <2>4, <1>6 DEF DoesItsWork, Emit
<1>7. W \cap Derived # {} => Present("matrix")
  BY <1>1, <1>3, DerivedHasMatrix
<1>8. Sifts
  BY <1>1, <1>4, Places DEF Sifts, Emit, Next1, EvidenceIInv, SiftedFirst
<1>9. StageStep(W)
  BY <1>1, <1>3, <1>4, <1>5, <1>6, <1>7, <1>8 DEF StageStep, Emit, Next1, EvidenceTypeOK
<1>10. QED
  BY <1>9, StepKeeps

(* The stage does its work and has nothing to write in some of its documents. *)
LEMMA SpareStep ==
  ASSUME OrderIsSound, EvidenceIInv, Spare
  PROVE  EvidenceIInv'
<1>1. at \in DOMAIN Stages /\ ~Throws(Stages[at]) /\ EvidenceTypeOK
  BY DEF Spare, Running, EvidenceIInv
<1> DEFINE e == Stages[at].emit
<1>2. PICK W : W = Written(e, Len(e.writes)) \ e.spares
  OBVIOUS
<1>3. W \subseteq Writes(at) /\ W \subseteq Docs
  <2>1. Len(e.writes) \in Nat
    BY <1>1 DEF OrderIsSound, StagesTyped
  <2>2. QED
    BY <2>1, <1>1, <1>2, WrittenWithin, WritesAreDocs
<1>4. at \in Nat /\ at > 1 /\ at \notin {SiftAt, SignAt}
  BY <1>1, Places DEF Spare
<1>5. Puts(W) /\ Seals(W)
  <2>1. Put(e, W) /\ listed' = listed /\ intact' = intact \ W
    BY <1>2 DEF Spare, Write
  <2>2. "manifest" \notin W
    BY <1>1, <1>3, <1>4, Places
  <2>3. QED
    BY <2>1, <2>2, <1>1, <1>3, PutPuts DEF Seals
<1>6. ASSUME gaps' = 0 PROVE DoesItsWork(W)
  <2>1. \A d \in Writes(at) \ e.spares : d \in W \/ (d \in e.amends \ e.starts /\ ~Present(d))
    BY <1>1, <1>2, WrittenAll
  <2>2. Always(at) \subseteq W
    BY <2>1 DEF Always
  <2>3. \A d \in Settled(at) : d \in W \/ ~Present(d)
    BY <2>1 DEF Settled
  <2>4. Stages[at].does = "verified" => ~Present("manifest")
    BY <1>1, <1>4, Places, NeverMatches DEF Throws
  <2>5. QED
    BY <2>2, <2>3, <2>4, <1>6 DEF DoesItsWork, Spare
<1>7. W \cap Derived # {} => Present("matrix")
  BY <1>1, <1>3, DerivedHasMatrix
<1>8. Sifts
  BY <1>1, <1>4, Places DEF Sifts, Spare, Next1, EvidenceIInv, SiftedFirst
<1>9. StageStep(W)
  BY <1>1, <1>3, <1>4, <1>5, <1>6, <1>7, <1>8 DEF StageStep, Spare, Next1, EvidenceTypeOK
<1>10. QED
  BY <1>9, StepKeeps

(* The evidence is collected. *)
LEMMA CollectStep ==
  ASSUME OrderIsSound, EvidenceIInv, Collect
  PROVE  EvidenceIInv'
<1>1. at \in DOMAIN Stages /\ EvidenceTypeOK /\ at = 1
  BY Places DEF Collect, Running, EvidenceIInv
<1>2. Writes(at) = {"ksi"} /\ ToSet(Stages[at].emit.writes) = {"ksi"} /\ {"ksi"} \subseteq Docs
  BY <1>1, OwnStages, Named DEF Writes
<1>3. Puts({"ksi"}) /\ Seals({"ksi"})
  BY <1>1, <1>2, PutPuts DEF Collect, Write, Seals
<1>4. gaps' = 0 => DoesItsWork({"ksi"})
  BY <1>1, <1>2 DEF Collect, DoesItsWork, Always, Settled
<1>5. Sifts
  BY <1>1, Places DEF Sifts, Collect, Next1, EvidenceIInv, SiftedFirst
<1>6. StageStep({"ksi"})
  BY <1>1, <1>2, <1>3, <1>4, <1>5, Named DEF StageStep, Collect, Next1, EvidenceTypeOK
<1>7. QED
  BY <1>6, StepKeeps

(* The run is signed. *)
LEMMA SignStep ==
  ASSUME OrderIsSound, EvidenceIInv, SignRun
  PROVE  EvidenceIInv'
<1>1. at \in DOMAIN Stages /\ EvidenceTypeOK /\ at = SignAt /\ at > 1 /\ at > SiftAt
  BY Places DEF SignRun, Running, EvidenceIInv
<1>2. Writes(at) = {"manifest"} /\ {"manifest"} \subseteq Docs
  BY <1>1, OwnStages, Named
<1>3. Puts({"manifest"}) /\ Seals({"manifest"})
  BY <1>1, <1>2, PutPuts DEF SignRun, Sign, Seals, Next1
<1>4. gaps' = 0 => DoesItsWork({"manifest"})
  BY <1>1, <1>2 DEF SignRun, DoesItsWork, Always, Settled
<1>5. Sifts
  BY <1>1, Places DEF Sifts, SignRun, Next1, EvidenceIInv, SiftedFirst
<1>6. StageStep({"manifest"})
  BY <1>1, <1>2, <1>3, <1>4, <1>5, Named, Places DEF StageStep, SignRun, Next1, EvidenceTypeOK
<1>7. QED
  BY <1>6, StepKeeps

(* Invalid evidence is moved, or cannot be, or it or the list of what was      *)
(* moved ends the run.                                                        *)
LEMMA MoveStep ==
  ASSUME OrderIsSound, EvidenceIInv, MoveInvalid
  PROVE  EvidenceIInv'
<1>1. at \in DOMAIN Stages /\ EvidenceTypeOK /\ at = SiftAt /\ at > 1
  BY Places DEF MoveInvalid, Running, EvidenceIInv
<1>2. Writes(at) = {}
  BY <1>1, OwnStages
<1>3. Puts({}) /\ Seals({})
  BY <1>1, NothingPut DEF MoveInvalid
<1>4. gaps' = 0 => DoesItsWork({})
  BY <1>1, <1>2 DEF MoveInvalid, DoesItsWork, Always, Settled, Spend, EvidenceTypeOK
<1>5. Sifts
  BY <1>1, Places DEF Sifts, MoveInvalid, Next1
<1>6. /\ run' = run /\ at' \in {at, at + 1} /\ gaps' \in Nat /\ spared' \in Nat
      /\ invalid' \in {"none", "fresh", "moved", "stuck", "kept"}
      /\ status' \in {"running", "finished", "failed", "aborted", "stopped"}
  BY <1>1 DEF MoveInvalid, Next1, Spend, EvidenceTypeOK
<1>7. StageStep({})
  BY <1>1, <1>3, <1>4, <1>5, <1>6 DEF StageStep
<1>8. QED
  BY <1>7, StepKeeps

(* A stage lacks what it needs.  In a run without gaps that is the matrix, or *)
(* the stage is that of the matrix: nothing it writes and a reader takes for  *)
(* this run's is there from an earlier one.                                   *)
LEMMA LackStep ==
  ASSUME OrderIsSound, EvidenceIInv, Lack
  PROVE  EvidenceIInv'
<1>1. at \in DOMAIN Stages /\ EvidenceTypeOK /\ Throws(Stages[at]) /\ run > 0
  BY DEF Lack, Running, EvidenceIInv, EvidenceTypeOK
<1>2. at \notin {1, SiftAt, SignAt}
  <2>1. SUFFICES ASSUME at \in {1, SiftAt, SignAt} PROVE FALSE
    OBVIOUS
  <2>2. Stages[at].emit.needs = {} /\ Stages[at].does \in {"collect", "quarantine", "sign"}
    BY <2>1, <1>1, OwnStages, Places
  <2>3. QED
    BY <2>2, <1>1 DEF Throws
<1>3. at \in Nat /\ at > 1
  BY <1>1, <1>2, Places
<1>4. Puts({}) /\ Seals({})
  BY <1>1, NothingPut DEF Lack
<1>5. ASSUME gaps' = 0
      PROVE  at \in Optional /\ \A d \in Settled(at) : ~Present(d)
  <2>1. gaps = 0 /\ NothingIsMissing /\ DerivedNeedsMatrix
    BY <1>5 DEF Lack, EvidenceIInv
  <2>2. ASSUME NEW k \in 1..at - 1, NEW d \in Always(k) PROVE Present(d)
    <3>1. Fresh(d)
      BY <2>1 DEF NothingIsMissing
    <3>2. QED
      BY <3>1, <1>1 DEF Fresh, Present
  <2>3. CASE \E d \in Stages[at].emit.needs : ~Present(d)
    <3>1. PICK d \in Stages[at].emit.needs : ~Present(d)
      BY <2>3
    <3>2. d \in AlwaysBefore(at) \cup {"matrix"}
      BY <1>1 DEF OrderIsSound, ReadsInOrder
    <3>3. d = "matrix"
      BY <3>1, <3>2, <2>2 DEF AlwaysBefore
    <3>4. at \in Optional
      BY <3>1, <3>3, <1>1 DEF Optional
    <3>5. QED
      BY <3>1, <3>3, <3>4, <2>1 DEF Settled, DerivedNeedsMatrix
  <2>4. CASE Stages[at].does = "verified"
    <3>1. at \in Optional
      BY <2>4, <1>1 DEF Optional
    <3>2. Writes(at) \cap Derived = {}
      BY <2>4, <1>1 DEF OrderIsSound, ReadsInOrder
    <3>3. QED
      BY <3>1, <3>2 DEF Settled
  <2>5. ASSUME Stages[at].does = "ifsigned", ~Fresh("manifest") PROVE FALSE
    <3>1. SignAt \in 1..at - 1 /\ SignAt \in DOMAIN Stages
      BY <2>5, <1>1, <1>3, Places DEF OrderIsSound, StagesInOrder
    <3>2. SignAt \notin Optional
      BY <3>1, OwnStages DEF OrderIsSound, Optional, StagesInOrder
    <3>3. "manifest" \in Always(SignAt)
      BY <3>2, OwnStages DEF Always
    <3>4. QED
      BY <3>1, <3>3, <2>1, <2>5 DEF NothingIsMissing
  <2>6. QED
    BY <2>3, <2>4, <2>5, <1>1 DEF Throws
<1>6. gaps' = 0 => DoesItsWork({})
  BY <1>5 DEF Lack, DoesItsWork, Always
<1>7. Sifts
  BY <1>1, <1>2, Places DEF Sifts, Lack, Next1, EvidenceIInv, SiftedFirst
<1>8. StageStep({})
  BY <1>1, <1>2, <1>3, <1>4, <1>6, <1>7 DEF StageStep, Lack, Next1, EvidenceTypeOK
<1>9. QED
  BY <1>8, StepKeeps

(* The stage is not asked for. *)
LEMMA LeaveStep ==
  ASSUME OrderIsSound, EvidenceIInv, Leave
  PROVE  EvidenceIInv'
<1>1. at \in DOMAIN Stages /\ EvidenceTypeOK
  BY DEF Leave, Running, EvidenceIInv
<1>2. at \in Nat /\ at > 1 /\ at # SiftAt
  BY <1>1, Places, OwnStages DEF Leave
<1>3. Puts({}) /\ Seals({})
  BY <1>1, NothingPut DEF Leave
<1>4. gaps' \in Nat /\ gaps' # 0 /\ spared' \in Nat
  BY <1>1 DEF Leave, Spend, EvidenceTypeOK
<1>5. Sifts
  BY <1>1, <1>2, Places DEF Sifts, Leave, Next1, EvidenceIInv, SiftedFirst
<1>6. StageStep({})
  BY <1>1, <1>2, <1>3, <1>4, <1>5 DEF StageStep, Leave, Next1, EvidenceTypeOK
<1>7. QED
  BY <1>6, StepKeeps

(* The stage throws after some of its files. *)
LEMMA FailStep ==
  ASSUME OrderIsSound, EvidenceIInv, Fail
  PROVE  EvidenceIInv'
<1>1. at \in DOMAIN Stages /\ EvidenceTypeOK /\ ~Throws(Stages[at])
  BY DEF Fail, Running, EvidenceIInv
<1> DEFINE e == Stages[at].emit
<1>2. Len(e.writes) \in Nat
  BY <1>1 DEF OrderIsSound, StagesTyped
<1>3. PICK k \in 1..Len(e.writes) - 1 : Write(e, Written(e, k))
  BY DEF Fail
<1>4. PICK W : W = Written(e, k)
  OBVIOUS
<1>5. W \subseteq Writes(at) /\ W \subseteq Docs
  <2>1. k \in 0..Len(e.writes)
    BY <1>2
  <2>2. QED
    BY <2>1, <1>1, <1>4, WrittenWithin, WritesAreDocs
<1>6. at \in Nat /\ at > 1 /\ at \notin {SiftAt, SignAt}
  <2>1. Len(e.writes) # 1
    <3>1. \A n \in Nat : k \in 1..n - 1 => n # 1
      OBVIOUS
    <3>2. QED
      BY <3>1, <1>2
  <2>2. QED
    BY <2>1, <1>1, Places, OwnStages DEF Fail
<1>7. Puts(W) /\ Seals(W)
  <2>1. "manifest" \notin W
    BY <1>1, <1>5, <1>6, Places
  <2>2. QED
    BY <2>1, <1>1, <1>3, <1>4, <1>5, PutPuts DEF Write, Seals
<1>8. gaps' \in Nat /\ gaps' # 0 /\ spared' \in Nat
  BY <1>1 DEF Fail, Spend, EvidenceTypeOK
<1>9. W \cap Derived # {} => Present("matrix")
  BY <1>1, <1>5, DerivedHasMatrix
<1>10. Sifts
  BY <1>1, <1>6, Places DEF Sifts, Fail, Next1, EvidenceIInv, SiftedFirst
<1>11. StageStep(W)
  BY <1>1, <1>5, <1>6, <1>7, <1>8, <1>9, <1>10 DEF StageStep, Fail, Next1, EvidenceTypeOK
<1>12. QED
  BY <1>11, StepKeeps

(* What is not caught ends the run. *)
LEMMA AbortStep ==
  ASSUME OrderIsSound, EvidenceIInv, Abort
  PROVE  EvidenceIInv'
<1>1. at \in DOMAIN Stages /\ EvidenceTypeOK /\ ~Stages[at].caught
  BY DEF Abort, Running, EvidenceIInv
<1> DEFINE e == Stages[at].emit
<1>2. PICK k \in 0..Len(e.writes) : Write(e, Written(e, k))
  BY DEF Abort
<1>3. PICK W : W = Written(e, k)
  OBVIOUS
<1>4. W \subseteq Writes(at) /\ W \subseteq Docs
  BY <1>1, <1>3, WrittenWithin, WritesAreDocs
<1>5. at \in Nat /\ at \notin {SiftAt, SignAt}
  BY <1>1, Places, OwnStages DEF Abort
<1>6. Puts(W) /\ Seals(W)
  <2>1. "manifest" \notin W
    BY <1>1, <1>4, <1>5, Places
  <2>2. QED
    BY <2>1, <1>1, <1>2, <1>3, <1>4, PutPuts DEF Write, Seals
<1>7. gaps' \in Nat /\ gaps' # 0 /\ spared' \in Nat
  BY <1>1 DEF Abort, Spend, EvidenceTypeOK
<1>8. W \cap Derived = {}
  BY <1>1, <1>4 DEF OrderIsSound, ReadsInOrder
<1>9. at' = at /\ Sifts
  BY DEF Sifts, Abort, EvidenceIInv, SiftedFirst
<1>10. StageStep(W)
  BY <1>1, <1>4, <1>5, <1>6, <1>7, <1>8, <1>9 DEF StageStep, Abort, EvidenceTypeOK
<1>11. QED
  BY <1>10, StepKeeps

(* A run that ends, of itself or not, leaves the directory as it is. *)
LEMMA EndKeeps ==
  ASSUME EvidenceIInv, UNCHANGED <<run, at, made, behind, mixed, listed, intact, invalid, fouled>>,
         gaps' \in Nat, gaps' = 0 => gaps = 0, spared' \in Nat,
         status' \in {"running", "finished", "failed", "aborted", "stopped"}
  PROVE  EvidenceIInv'
<1>1. EvidenceTypeOK'
  BY DEF EvidenceIInv, EvidenceTypeOK
<1>2. SiftedFirst' /\ CollectedFirst'
  BY DEF EvidenceIInv, SiftedFirst, CollectedFirst, Fresh, Present
<1>3. SignedAtTheEnd'
  BY DEF EvidenceIInv, SignedAtTheEnd, Failing, Fresh, Present
<1>4. NothingIsMissing' /\ DerivedNeedsMatrix'
  BY DEF EvidenceIInv, NothingIsMissing, DerivedNeedsMatrix, Fresh, Old, Present
<1>5. QED
  BY <1>1, <1>2, <1>3, <1>4 DEF EvidenceIInv

(* The next run finds nothing of its own. *)
LEMMA StartKeeps ==
  ASSUME OrderIsSound, EvidenceIInv, Start
  PROVE  EvidenceIInv'
<1>1. EvidenceTypeOK /\ run' = run + 1 /\ at' = 1 /\ made' = made
  BY DEF Start, EvidenceIInv
<1>2. ASSUME NEW d \in Docs PROVE ~Fresh(d)' /\ (Present(d)' <=> Present(d))
  <2>1. made[d] \in 0..run
    BY <1>1 DEF EvidenceTypeOK
  <2>2. QED
    BY <2>1, <1>1 DEF Fresh, Present, EvidenceTypeOK
<1>3. EvidenceTypeOK'
  <2>1. made' \in [Docs -> 0..run']
    BY <1>1 DEF EvidenceTypeOK
  <2>2. at' \in 1..Len(Stages) + 1
    BY <1>1, StageNumbers
  <2>3. QED
    BY <2>1, <2>2, <1>1 DEF Start, EvidenceTypeOK
<1>4. SiftedFirst'
  BY <1>1, <1>2, Named DEF SiftedFirst, Start
<1>5. CollectedFirst' /\ SignedAtTheEnd'
  BY <1>1, <1>2, Named DEF CollectedFirst, SignedAtTheEnd, Start, EvidenceIInv
<1>6. NothingIsMissing'
  BY <1>1 DEF NothingIsMissing
<1>7. DerivedNeedsMatrix'
  BY <1>2, Named DEF DerivedNeedsMatrix, EvidenceIInv
<1>8. QED
  BY <1>3, <1>4, <1>5, <1>6, <1>7 DEF EvidenceIInv, Start
-----------------------------------------------------------------------------
(* The strengthening holds of every state of every run.                       *)
THEOREM EvidenceInductive == ASSUME OrderIsSound PROVE Spec => []EvidenceIInv
<1>1. Init => EvidenceIInv
  <2> SUFFICES ASSUME Init PROVE EvidenceIInv
    OBVIOUS
  <2>1. EvidenceTypeOK
    BY StageNumbers DEF Init, EvidenceTypeOK
  <2>2. \A d \in Docs : ~Present(d) /\ ~Fresh(d)
    BY DEF Init, Present, Fresh
  <2>3. QED
    BY <2>1, <2>2, Named DEF Init, EvidenceIInv, SiftedFirst, CollectedFirst, SignedAtTheEnd,
                             NothingIsMissing, DerivedNeedsMatrix
<1>2. EvidenceIInv /\ [Next]_vars => EvidenceIInv'
  <2> SUFFICES ASSUME EvidenceIInv, [Next]_vars PROVE EvidenceIInv'
    OBVIOUS
  <2>1. CASE Emit
    BY <2>1, EmitStep
  <2>0. CASE Spare
    BY <2>0, SpareStep
  <2>2. CASE Collect
    BY <2>2, CollectStep
  <2>3. CASE MoveInvalid
    BY <2>3, MoveStep
  <2>4. CASE SignRun
    BY <2>4, SignStep
  <2>5. CASE Lack
    BY <2>5, LackStep
  <2>6. CASE Leave
    BY <2>6, LeaveStep
  <2>7. CASE Fail
    BY <2>7, FailStep
  <2>8. CASE Abort
    BY <2>8, AbortStep
  <2>9. CASE Finish
    BY <2>9, EndKeeps DEF Finish, EvidenceIInv, EvidenceTypeOK
  <2>10. CASE Crash
    BY <2>10, EndKeeps DEF Crash, Spend, EvidenceIInv, EvidenceTypeOK
  <2>11. CASE Start
    BY <2>11, StartKeeps
  <2>12. CASE UNCHANGED vars
    BY <2>12, EndKeeps DEF vars, EvidenceIInv, EvidenceTypeOK
  <2>13. QED
    BY <2>0, <2>1, <2>2, <2>3, <2>4, <2>5, <2>6, <2>7, <2>8, <2>9, <2>10, <2>11, <2>12
    DEF Next, Work
<1>3. QED
  BY <1>1, <1>2, PTL DEF Spec

(* The types. *)
THEOREM EvidenceTypeCorrect == ASSUME OrderIsSound PROVE Spec => []EvidenceTypeOK
<1>1. EvidenceIInv => EvidenceTypeOK
  BY DEF EvidenceIInv
<1>2. QED
  BY <1>1, EvidenceInductive, PTL

(* When a run ends, a digest quoted in a document is that of the file as the  *)
(* run leaves it, but for the quotations listed with the property.            *)
THEOREM CitationsAreCurrent == ASSUME OrderIsSound PROVE Spec => []CitationsHold
<1>1. EvidenceIInv => CitationsHold
  BY DEF OrderIsSound, EvidenceIInv, CitationsHold, ReadsInOrder
<1>2. QED
  BY <1>1, EvidenceInductive, PTL

(* When a run ends, no document of it was made from what a later stage of the *)
(* run rewrote, but for what is listed with the property.                     *)
THEOREM ReadsAreCurrent == ASSUME OrderIsSound PROVE Spec => []ReadsAreFinal
<1>1. EvidenceIInv => ReadsAreFinal
  BY DEF OrderIsSound, EvidenceIInv, ReadsAreFinal, ReadsInOrder
<1>2. QED
  BY <1>1, EvidenceInductive, PTL

(* A run in which nothing fails, is left out or stops uses no document of an  *)
(* earlier run, but for those listed with the property.                       *)
THEOREM RunsAreSelfContained == ASSUME OrderIsSound PROVE Spec => []NothingOldByItself
<1>1. EvidenceIInv => NothingOldByItself
  BY DEF EvidenceIInv, NothingOldByItself
<1>2. QED
  BY <1>1, EvidenceInductive, PTL

(* Verifying the directory of a run that has ended signed fails on late files *)
(* only, whatever failed on the way and whatever earlier runs left.           *)
THEOREM SignatureCovers == ASSUME OrderIsSound PROVE Spec => []OnlyLateFilesFail
<1>1. EvidenceIInv => OnlyLateFilesFail
  BY DEF EvidenceIInv, SignedAtTheEnd, OnlyLateFilesFail, Signed
<1>2. QED
  BY <1>1, EvidenceInductive, PTL

(* Evidence of the run that fails its schema goes into nothing but the signal *)
(* and process evidence and the summary, and is not signed where it lies,     *)
(* whatever fails or stops the run, unless the file itself cannot be moved.   *)
THEOREM InvalidIsSifted == ASSUME OrderIsSound PROVE Spec => []NothingFromInvalid
<1>1. EvidenceIInv => NothingFromInvalid
  <2> SUFFICES ASSUME EvidenceIInv PROVE NothingFromInvalid
    OBVIOUS
  <2>1. invalid # "stuck" => fouled \subseteq FromUnsifted
    BY DEF EvidenceIInv, SiftedFirst
  <2>2. ASSUME invalid = "fresh", Fresh("manifest") PROVE FALSE
    <3>1. at <= SiftAt /\ at > SignAt /\ at \in Nat
      BY <2>2, StageNumbers DEF EvidenceIInv, EvidenceTypeOK, SiftedFirst, SignedAtTheEnd
    <3>2. SiftAt < SignAt
      BY DEF OrderIsSound, StagesInOrder
    <3>3. QED
      BY <3>1, <3>2, StageNumbers
  <2>3. QED
    BY <2>1, <2>2 DEF NothingFromInvalid
<1>2. QED
  BY <1>1, EvidenceInductive, PTL
=============================================================================
