------------------------- MODULE TrackerItemsProofs -------------------------
(* The audit log's chain and the blobs' presence, for any number of items,    *)
(* users, requests, attachments, crashes and restores.  A restore may bring   *)
(* back any backup, so the invariant says of the backup what it says of the   *)
(* database, and that no row is numbered past the counter it was made with.   *)
EXTENDS TrackerItems, TLAPS

StoryTold(st, au) == \A i \in Items, f \in Fields : Tells(au[i][f], st[i][f])
Numbered(rows, n) == \A a \in rows : a.id <= n

SavedWell ==
  saved # NoBackup => StoryTold(saved.state, saved.audit) /\ Numbered(saved.attached, saved.serial)

IInv ==
  /\ ItemsTypeOK
  /\ AuditTells
  /\ Numbered(attached, serial)
  /\ SavedWell
  /\ BlobsPresent

(* One more row, that starts where the story ended, continues it. *)
LEMMA TellsOneMore ==
  ASSUME NEW h \in Seq(Change), NEW v \in Values, NEW w \in Values, Tells(h, v)
  PROVE  /\ Append(h, [old |-> v, new |-> w]) \in Seq(Change)
         /\ Tells(Append(h, [old |-> v, new |-> w]), w)
<1> DEFINE c == [old |-> v, new |-> w]
           g == Append(h, c)
<1>1. c \in Change BY DEF Change
<1>2. g \in Seq(Change) /\ Len(g) = Len(h) + 1 /\ g[Len(g)] = c /\ g # <<>>
  BY <1>1
<1>3. \A k \in DOMAIN h : g[k] = h[k]
  BY <1>1
<1>4. ASSUME NEW k \in DOMAIN g
      PROVE  g[k].old = IF k = 1 THEN Null ELSE g[k - 1].new
  <2>1. CASE k \in DOMAIN h
    <3>1. k = 1 \/ k - 1 \in DOMAIN h
      BY <2>1
    <3>2. QED BY <2>1, <3>1, <1>3 DEF Tells
  <2>2. CASE k \notin DOMAIN h
    <3>1. k = Len(h) + 1 /\ g[k] = c
      BY <2>2, <1>2
    <3>2. CASE h = <<>>
      BY <3>1, <3>2 DEF Tells
    <3>3. CASE h # <<>>
      <4>1. Len(h) \in DOMAIN h /\ k # 1 /\ k - 1 = Len(h)
        BY <3>1, <3>3
      <4>2. h[Len(h)].new = v
        BY <3>3 DEF Tells
      <4>3. QED BY <4>1, <4>2, <3>1, <1>3
    <3>4. QED BY <3>2, <3>3
  <2>3. QED BY <2>1, <2>2
<1>5. QED BY <1>2, <1>4 DEF Tells

(* What a storable PATCH makes of the row is a row. *)
LEMMA MergedIsRow ==
  ASSUME ItemsTypeOK, NEW i \in Items, NEW b \in Body, Storable(Merged(i, b).owner_user_id)
  PROVE  Merged(i, b) \in Row
<1>1. state[i] \in Row \cup {NoRow}
  BY DEF ItemsTypeOK
<1>2. Merged(i, b).status \in Statuses
  BY <1>1 DEF Merged, Body, Row, NoRow, Statuses
<1>3. Merged(i, b).owner_user_id \in Owners
  BY DEF Storable, Owners
<1>4. QED BY <1>2, <1>3 DEF Merged, Row

LEMMA Initially == ItemsInit => IInv
<1> SUFFICES ASSUME ItemsInit PROVE IInv OBVIOUS
<1> USE ItemsAssumption DEF ItemsInit
<1>1. ItemsTypeOK
  BY DEF ItemsTypeOK, Blob, Attachment, Fields
<1>2. AuditTells
  BY DEF AuditTells, Tells, Fields, NoRow, Null
<1>3. QED
  BY <1>1, <1>2 DEF IInv, Numbered, SavedWell, NoBackup, BlobsPresent

(* A transaction that commits adds to the story exactly what it changes. *)
LEMMA WrittenTells ==
  ASSUME IInv, NEW i \in Items, NEW b \in Body,
         Storable(Merged(i, b).owner_user_id), Written(i, b)
  PROVE  /\ state' \in [Items -> Row \cup {NoRow}]
         /\ audit' \in [Items -> [Fields -> Seq(Change)]]
         /\ AuditTells'
<1>1. Merged(i, b) \in Row
  BY MergedIsRow DEF IInv
<1>2. state' \in [Items -> Row \cup {NoRow}] /\ \A j \in Items : state'[j] = IF j = i THEN Merged(i, b) ELSE state[j]
  BY <1>1 DEF Written, IInv, ItemsTypeOK
<1>3. ASSUME NEW f \in Fields
      PROVE  /\ state[i][f] \in Values /\ Merged(i, b)[f] \in Values
             /\ audit[i][f] \in Seq(Change) /\ Tells(audit[i][f], state[i][f])
  <2>1. state[i] \in Row \cup {NoRow}
    BY DEF IInv, ItemsTypeOK
  <2>2. state[i][f] \in Values /\ Merged(i, b)[f] \in Values
    BY <1>1, <2>1 DEF Fields, Row, NoRow, Values, Owners
  <2>3. QED BY <2>2 DEF IInv, ItemsTypeOK, AuditTells
<1> DEFINE told == [f \in Fields |->
                      IF f \in Changed(i, b)
                        THEN Append(audit[i][f], [old |-> state[i][f], new |-> Merged(i, b)[f]])
                        ELSE audit[i][f]]
<1>4. ASSUME NEW f \in Fields
      PROVE  told[f] \in Seq(Change) /\ Tells(told[f], Merged(i, b)[f])
  <2>1. CASE f \in Changed(i, b)
    BY <2>1, <1>3, TellsOneMore
  <2>2. CASE f \notin Changed(i, b)
    BY <2>2, <1>3 DEF Changed
  <2>3. QED BY <2>1, <2>2
<1>5. told \in [Fields -> Seq(Change)]
  BY <1>4
<1>6. audit' = [audit EXCEPT ![i] = told]
  BY DEF Written
<1> HIDE DEF told
<1>7. /\ audit' \in [Items -> [Fields -> Seq(Change)]]
      /\ \A j \in Items : audit'[j] = IF j = i THEN told ELSE audit[j]
  BY <1>5, <1>6 DEF IInv, ItemsTypeOK
<1>8. ASSUME NEW j \in Items, NEW f \in Fields
      PROVE  Tells(audit'[j][f], state'[j][f])
  BY <1>2, <1>4, <1>7 DEF IInv, AuditTells
<1>9. QED BY <1>2, <1>7, <1>8 DEF AuditTells

LEMMA PatchKeeps ==
  ASSUME IInv, NEW r \in Slots, Patch(r)
  PROVE  IInv'
<1> DEFINE q == waiting[r]
<1>1. q \in Asked /\ q.item \in Items /\ q.body \in Body
  BY BodiesAssumption DEF IInv, ItemsTypeOK, Patch, Asked
<1>2. waiting' \in [Slots -> Asked \cup {Idle}]
  BY DEF IInv, ItemsTypeOK, Patch
<1>3. /\ state' \in [Items -> Row \cup {NoRow}]
      /\ audit' \in [Items -> [Fields -> Seq(Change)]]
      /\ AuditTells'
  <2>1. CASE Storable(q.who) /\ Storable(Merged(q.item, q.body).owner_user_id)
    BY <2>1, <1>1, WrittenTells DEF Patch
  <2>2. CASE ~(Storable(q.who) /\ Storable(Merged(q.item, q.body).owner_user_id))
    BY <2>2 DEF Patch, IInv, ItemsTypeOK, AuditTells
  <2>3. QED BY <2>1, <2>2
<1>4. QED
  BY <1>2, <1>3 DEF Patch, IInv, ItemsTypeOK, Numbered, SavedWell, BlobsPresent, Missing

LEMMA UploadKeeps ==
  ASSUME IInv, NEW who \in Actors, NEW i \in Items, NEW x \in Contents, Upload(who, i, x)
  PROVE  IInv'
<1>1. disk' \in [Contents -> Blob] /\ \A y \in Contents : Missing([sha |-> y])' => y # x /\ Missing([sha |-> y])
  BY DEF IInv, ItemsTypeOK, Upload, Stored, Missing, Blob
<1> DEFINE a0 == [id |-> serial + 1, item |-> i, by |-> who, sha |-> x]
<1>2. CASE Storable(who)
  <2>1. who \in Users /\ serial' = serial + 1 /\ attached' = attached \cup {a0}
    BY <1>2, ItemsAssumption DEF Upload, Storable, Actors
  <2>2. a0 \in Attachment /\ serial' \in 0..MaxRows
    BY <2>1, ItemsAssumption DEF Attachment, Upload, IInv, ItemsTypeOK
  <2>3. ItemsTypeOK'
    BY <2>1, <2>2, <1>1 DEF IInv, ItemsTypeOK, Upload
  <2>4. Numbered(attached, serial)'
    BY <2>1, ItemsAssumption DEF IInv, ItemsTypeOK, Numbered, Attachment
  <2>5. BlobsPresent'
    BY <2>1, <1>1 DEF IInv, ItemsTypeOK, BlobsPresent, Missing, Upload, Attachment
  <2>6. QED
    BY <2>3, <2>4, <2>5 DEF IInv, AuditTells, SavedWell, Upload
<1>3. CASE ~Storable(who)
  <2>1. serial' = serial /\ attached' = attached
    BY <1>3 DEF Upload
  <2>2. BlobsPresent'
    BY <2>1, <1>1 DEF IInv, ItemsTypeOK, BlobsPresent, Missing, Upload, Attachment
  <2>3. QED
    BY <2>1, <2>2, <1>1 DEF IInv, ItemsTypeOK, AuditTells, SavedWell, Numbered, Upload
<1>4. QED BY <1>2, <1>3

LEMMA DeleteKeeps ==
  ASSUME IInv, NEW who \in Users, NEW a \in attached, Delete(who, a)
  PROVE  IInv'
<1>1. PICK gone \in SUBSET Drops(a.sha) :
        disk' = [x \in Contents |-> IF x \in gone THEN "absent" ELSE disk[x]]
  BY DEF Delete
<1>2. \A c \in attached' : c \in attached /\ c.sha \notin gone /\ c.sha \in Contents
  BY DEF Delete, Drops, IInv, ItemsTypeOK, Attachment
<1>3. BlobsPresent'
  BY <1>1, <1>2 DEF IInv, BlobsPresent, Missing, Delete
<1>4. disk' \in [Contents -> Blob]
  BY <1>1 DEF IInv, ItemsTypeOK, Blob
<1>5. QED
  BY <1>3, <1>4 DEF IInv, ItemsTypeOK, AuditTells, SavedWell, Numbered, Delete

LEMMA CrashKeeps ==
  ASSUME IInv, NEW x \in Contents, Crash(x)
  PROVE  IInv'
<1>1. PICK b \in Blob : (disk[x] # "absent" => b = disk[x]) /\ disk' = [disk EXCEPT ![x] = b]
  BY DEF Crash
<1>2. \A y \in Contents : disk'[y] = "absent" => disk[y] = "absent"
  BY <1>1 DEF IInv, ItemsTypeOK
<1>3. stops \in 0..MaxStops /\ stops' \in 0..MaxStops /\ stops' > 0
  BY ItemsAssumption DEF IInv, ItemsTypeOK, Crash
<1>4. BlobsPresent'
  BY <1>2, <1>3 DEF IInv, ItemsTypeOK, BlobsPresent, Missing, Crash, Attachment
<1>5. ItemsTypeOK'
  BY <1>1, <1>3 DEF IInv, ItemsTypeOK, Crash
<1>6. QED
  BY <1>4, <1>5 DEF IInv, AuditTells, SavedWell, Numbered, Crash

LEMMA BackupKeeps == IInv /\ Backup => IInv'
<1> SUFFICES ASSUME IInv, Backup PROVE IInv' OBVIOUS
<1>1. saved' \in Snapshot
  BY DEF IInv, ItemsTypeOK, Backup, Snapshot
<1>2. /\ saved'.state = state /\ saved'.audit = audit
      /\ saved'.attached = attached /\ saved'.serial = serial
  BY DEF Backup
<1>3. saved' # NoBackup
  BY DEF Backup, NoBackup
<1>4. SavedWell'
  BY <1>2 DEF IInv, AuditTells, SavedWell, StoryTold, Numbered
<1>5. BlobsPresent'
  BY <1>2, <1>3 DEF IInv, BlobsPresent, Numbered, Missing, Backup
<1>6. QED
  BY <1>1, <1>4, <1>5 DEF IInv, ItemsTypeOK, AuditTells, Numbered, Backup

LEMMA RestoreKeeps == IInv /\ Restore => IInv'
<1> SUFFICES ASSUME IInv, Restore PROVE IInv' OBVIOUS
<1>1. saved \in Snapshot
  BY DEF IInv, ItemsTypeOK, Restore, NoBackup, Snapshot
<1>2. stops' \in 0..MaxStops /\ stops' > 0
  BY ItemsAssumption DEF IInv, ItemsTypeOK, Restore
<1>3. ItemsTypeOK'
  BY <1>1, <1>2 DEF IInv, ItemsTypeOK, Restore, Snapshot
<1>4. AuditTells' /\ Numbered(attached, serial)' /\ SavedWell'
  BY DEF IInv, AuditTells, SavedWell, StoryTold, Numbered, Restore
<1>5. BlobsPresent'
  BY <1>2 DEF IInv, SavedWell, Numbered, BlobsPresent, Restore
<1>6. QED BY <1>3, <1>4, <1>5 DEF IInv

LEMMA ItemsStep == IInv /\ [ItemsNext]_vars => IInv'
<1> SUFFICES ASSUME IInv, [ItemsNext]_vars PROVE IInv' OBVIOUS
<1>1. ASSUME NEW r \in Slots, Patch(r) PROVE IInv'
  BY <1>1, PatchKeeps
<1>2. ASSUME NEW r \in Slots, Abandon(r) PROVE IInv'
  BY <1>2 DEF Abandon, IInv, ItemsTypeOK, AuditTells, Numbered, SavedWell, BlobsPresent, Missing
<1>3. ASSUME NEW r \in Slots, NEW i \in Items, NEW who \in Actors, NEW b \in Bodies,
             Ask(r, i, who, b)
      PROVE  IInv'
  <2>1. waiting' \in [Slots -> Asked \cup {Idle}]
    BY <1>3 DEF Ask, Asked, IInv, ItemsTypeOK
  <2>2. QED
    BY <1>3, <2>1 DEF Ask, IInv, ItemsTypeOK, AuditTells, Numbered, SavedWell, BlobsPresent, Missing
<1>4. ASSUME NEW who \in Actors, NEW i \in Items, NEW x \in Contents, Upload(who, i, x)
      PROVE  IInv'
  BY <1>4, UploadKeeps
<1>5. ASSUME NEW who \in Users, NEW a \in attached, Delete(who, a) PROVE IInv'
  BY <1>5, DeleteKeeps
<1>6. ASSUME NEW x \in Contents, Crash(x) PROVE IInv'
  BY <1>6, CrashKeeps
<1>7. ASSUME NEW release \in SUBSET Items, Ingest(release) PROVE IInv'
  BY <1>7 DEF Ingest, IInv, ItemsTypeOK, AuditTells, Numbered, SavedWell, BlobsPresent, Missing
<1>8. CASE UNCHANGED vars
  BY <1>8 DEF vars, IInv, ItemsTypeOK, AuditTells, Numbered, SavedWell, BlobsPresent, Missing
<1>9. QED
  BY <1>1, <1>2, <1>3, <1>4, <1>5, <1>6, <1>7, <1>8, BackupKeeps, RestoreKeeps DEF ItemsNext

LEMMA ItemsInductive == ItemsSpec => []IInv
  BY Initially, ItemsStep, PTL DEF ItemsSpec

(* The audit log of every field leads without a gap from nothing to the value *)
(* that is stored, whatever the catalogue, the requests and the restores do.  *)
THEOREM AuditIsComplete == ItemsSpec => []AuditTells
<1>1. IInv => AuditTells
  BY DEF IInv
<1>2. QED BY <1>1, ItemsInductive, PTL

(* Every attachment's blob is on disk, but for rows a restore brought back. *)
THEOREM AttachmentsHaveBlobs == ItemsSpec => []BlobsPresent
<1>1. IInv => BlobsPresent
  BY DEF IInv
<1>2. QED BY <1>1, ItemsInductive, PTL

(* The tables, the blobs and the suspended requests keep their types. *)
THEOREM ItemsTyped == ItemsSpec => []ItemsTypeOK
<1>1. IInv => ItemsTypeOK
  BY DEF IInv
<1>2. QED BY <1>1, ItemsInductive, PTL
=============================================================================
