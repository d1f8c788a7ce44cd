---------------------------- MODULE TrackerItems ----------------------------
(* The tracker's items: what people and the collector's API token write about *)
(* requirements and indicators, the audit log of it, the attachments and      *)
(* their blobs, the catalogue's re-ingestion, crashes, backup and restore.    *)
(* A handler runs to its await (the body); the handlers of attachments look   *)
(* nothing up before theirs and are one step.  Ingestion and restore are      *)
(* processes of their own.                                                    *)
EXTENDS Naturals, FiniteSets, Sequences

CONSTANTS
  Items,        \* requirements and indicators of any release of the catalogue
  Users, Admins,\* the rows of users, and those with role admin
  Unknown,      \* ids that name no row of users: the token's (0) among them
  Token,        \* the id requireAuth gives to a bearer of an API token
  Contents,     \* contents of attachments, as their SHA-256 tells them apart
  Bodies,       \* the bodies of PATCH requests
  Slots,        \* requests suspended at the await of their body
  MaxRows,      \* bound: attachments ever added
  MaxWrites,    \* bound: rows of the audit log about one field
  MaxStops      \* bound: crashes and restores; backups are taken before the last

Null == "null"

ASSUME ItemsAssumption ==
  /\ Admins \subseteq Users /\ Users \cap Unknown = {}
  /\ Token \in Unknown /\ Null \notin Unknown
  /\ MaxRows \in Nat /\ MaxWrites \in Nat /\ MaxStops \in Nat

VARIABLES
  catalog,    \* the items of the release last ingested
  state,      \* item_state
  audit,      \* the rows of audit_log about a field of an item, in order
  attached,   \* item_attachments
  serial,     \* its AUTOINCREMENT
  disk,       \* the blobs
  waiting,    \* suspended requests
  saved,      \* the backup, if there is one
  stops       \* crashes and restores so far
database == <<catalog, state, audit, attached, serial>>
vars == <<catalog, state, audit, attached, serial, disk, waiting, saved, stops>>

Actors == Users \cup {Token}
Statuses == {"not_started", "met"}      \* two of the five stand for all
Owners == Users \cup {Null}
(* owner_text, notes, evidence_url and last_reviewed are treated as           *)
(* owner_user_id is, but for its foreign key.                                 *)
Fields == {"status", "owner_user_id"}
Values == Statuses \cup Owners
NoRow == [status |-> Null, owner_user_id |-> Null]
Row == [status : Statuses, owner_user_id : Owners]

(* A body leaves a field out, or gives it a value that may name no user. *)
Absent == "absent"
Body == [status : Statuses \cup {Absent}, owner_user_id : Owners \cup Unknown \cup {Absent}]

Attachment == [id : 1..MaxRows, item : Items, by : Users, sha : Contents]
Blob == {"absent", "torn", "whole"}
Change == [old : Values, new : Values]
NoBackup == [none |-> TRUE]
Snapshot == [catalog : SUBSET Items, state : [Items -> Row \cup {NoRow}],
             audit : [Items -> [Fields -> Seq(Change)]], attached : SUBSET Attachment,
             serial : 0..MaxRows]
Idle == [item |-> Null]
Asked == [item : Items, who : Actors, body : Bodies]
ASSUME BodiesAssumption == Bodies \subseteq Body

ItemsInit ==
  /\ catalog \in SUBSET Items
  /\ state = [i \in Items |-> NoRow]
  /\ audit = [i \in Items |-> [f \in Fields |-> <<>>]]
  /\ attached = {} /\ serial = 0
  /\ disk = [x \in Contents |-> "absent"]
  /\ waiting = [r \in Slots |-> Idle]
  /\ saved = NoBackup /\ stops = 0
-----------------------------------------------------------------------------
(* foreign_keys = ON: a column that REFERENCES users holds a user or NULL. *)
Storable(u) == u \in Users \cup {Null}

(* The item must be in the catalogue when the request comes. *)
Ask(r, i, who, b) ==
  /\ waiting[r] = Idle /\ i \in catalog
  /\ waiting' = [waiting EXCEPT ![r] = [item |-> i, who |-> who, body |-> b]]
  /\ UNCHANGED <<catalog, state, audit, attached, serial, disk, saved, stops>>

(* What the row becomes: a field the body leaves out keeps its value, and the *)
(* first row has a status.                                                    *)
Merged(i, b) ==
  [status |-> IF b.status # Absent THEN b.status
              ELSE IF state[i] # NoRow THEN state[i].status ELSE "not_started",
   owner_user_id |-> IF b.owner_user_id # Absent THEN b.owner_user_id
                     ELSE state[i].owner_user_id]

(* One transaction: the row, and an audit row for each field that differs. *)
Changed_AsAsked(i, b) == {f \in Fields : b[f] # Absent /\ Merged(i, b)[f] # state[i][f]}
Changed(i, b) == {f \in Fields : Merged(i, b)[f] # state[i][f]}

Written(i, b) ==
  /\ state' = [state EXCEPT ![i] = Merged(i, b)]
  /\ audit' = [audit EXCEPT ![i] = [f \in Fields |->
       IF f \in Changed(i, b)
         THEN Append(audit[i][f], [old |-> state[i][f], new |-> Merged(i, b)[f]])
         ELSE audit[i][f]]]

Patch(r) ==
  LET q == waiting[r] IN
  /\ q # Idle
  /\ \A f \in Fields : Len(audit[q.item][f]) < MaxWrites
  /\ waiting' = [waiting EXCEPT ![r] = Idle]
  /\ IF Storable(q.who) /\ Storable(Merged(q.item, q.body).owner_user_id)
       THEN Written(q.item, q.body)
       ELSE UNCHANGED <<state, audit>>      \* the transaction rolls back: 500
  /\ UNCHANGED <<catalog, attached, serial, disk, saved, stops>>

(* The body never comes, or is refused. *)
Abandon(r) ==
  /\ waiting[r] # Idle
  /\ waiting' = [waiting EXCEPT ![r] = Idle]
  /\ UNCHANGED <<catalog, state, audit, attached, serial, disk, saved, stops>>
-----------------------------------------------------------------------------
(* The blob is written unless there is a file of that name, then the row.     *)
(* The item is not looked up.  The token's row breaks its foreign key; its    *)
(* blob stays.                                                                *)
Stored(x) == [disk EXCEPT ![x] = IF disk[x] = "absent" THEN "whole" ELSE disk[x]]

Upload(who, i, x) ==
  /\ serial < MaxRows
  /\ disk' = Stored(x)
  /\ IF Storable(who)
       THEN /\ serial' = serial + 1
            /\ attached' = attached \cup {[id |-> serial + 1, item |-> i, by |-> who, sha |-> x]}
       ELSE UNCHANGED <<serial, attached>>
  /\ UNCHANGED <<catalog, state, audit, waiting, saved, stops>>

(* Only the last row that names a content takes its blob away; the unlink may *)
(* fail and nobody is told.                                                   *)
Drops_Shared(x) == {x}
Drops(x) == IF \E a \in attached' : a.sha = x THEN {} ELSE {x}

Delete(who, a) ==
  /\ a \in attached
  /\ who = a.by \/ who \in Admins
  /\ attached' = attached \ {a}
  /\ \E gone \in SUBSET Drops(a.sha) :
       disk' = [x \in Contents |-> IF x \in gone THEN "absent" ELSE disk[x]]
  /\ UNCHANGED <<catalog, state, audit, serial, waiting, saved, stops>>

(* A download of it answers 410. *)
Missing(a) == disk[a.sha] = "absent"

(* The process dies; the requests it held are gone.  It may have died in an   *)
(* upload, with part or all of a blob written and no row.  (A deletion it     *)
(* died in is one whose unlink failed.)                                       *)
Crash(x) ==
  /\ stops < MaxStops /\ stops' = stops + 1
  /\ waiting' = [r \in Slots |-> Idle]
  /\ \E b \in Blob : /\ disk[x] # "absent" => b = disk[x]
                     /\ disk' = [disk EXCEPT ![x] = b]
  /\ UNCHANGED <<catalog, state, audit, attached, serial, saved>>
-----------------------------------------------------------------------------
(* A new release: the FRMR tables are refilled in one transaction, what was   *)
(* written about items stays, orphaned or not.                                *)
Ingest(release) ==
  /\ catalog' = release
  /\ UNCHANGED <<state, audit, attached, serial, disk, waiting, saved, stops>>

(* A hot copy of the database.  The blobs are not in it. *)
Backup ==
  /\ stops < MaxStops
  /\ saved' = [catalog |-> catalog, state |-> state, audit |-> audit,
               attached |-> attached, serial |-> serial]
  /\ UNCHANGED <<catalog, state, audit, attached, serial, disk, waiting, stops>>

(* The server is stopped first. *)
Restore ==
  /\ saved # NoBackup
  /\ stops < MaxStops /\ stops' = stops + 1
  /\ waiting' = [r \in Slots |-> Idle]
  /\ catalog' = saved.catalog /\ state' = saved.state /\ audit' = saved.audit
  /\ attached' = saved.attached /\ serial' = saved.serial
  /\ UNCHANGED <<disk, saved>>
-----------------------------------------------------------------------------
ItemsNext ==
  \/ \E r \in Slots : Patch(r) \/ Abandon(r)
  \/ \E r \in Slots, i \in Items, who \in Actors, b \in Bodies : Ask(r, i, who, b)
  \/ \E who \in Actors, i \in Items, x \in Contents : Upload(who, i, x)
  \/ \E who \in Users, a \in attached : Delete(who, a)
  \/ \E x \in Contents : Crash(x)
  \/ \E release \in SUBSET Items : Ingest(release)
  \/ Backup
  \/ Restore
ItemsSpec == ItemsInit /\ [][ItemsNext]_vars
-----------------------------------------------------------------------------
ItemsTypeOK ==
  /\ catalog \in SUBSET Items
  /\ state \in [Items -> Row \cup {NoRow}]
  /\ audit \in [Items -> [Fields -> Seq(Change)]]
  /\ attached \in SUBSET Attachment /\ serial \in 0..MaxRows
  /\ disk \in [Contents -> Blob]
  /\ waiting \in [Slots -> Asked \cup {Idle}]
  /\ saved \in Snapshot \cup {NoBackup}
  /\ stops \in 0..MaxStops

(* The changes recorded of a field lead from nothing to a value. *)
Tells(changes, value) ==
  /\ IF changes = <<>> THEN value = Null ELSE changes[Len(changes)].new = value
  /\ \A k \in DOMAIN changes :
       changes[k].old = IF k = 1 THEN Null ELSE changes[k - 1].new

(* The audit log tells the whole story of each field: every row's old value   *)
(* is the new value of the row before, and the last one is what is stored,    *)
(* the status a first write defaults to included; whatever requests were      *)
(* interleaved, rolled back, ingested over or restored.                       *)
AuditTells ==
  \A i \in Items, f \in Fields : Tells(audit[i][f], state[i][f])

(* An attachment that is listed can be downloaded: its blob is there although *)
(* others with the same content were deleted, by anyone.  Only the restore of *)
(* a backup brings back a row whose blob is gone.                             *)
BlobsPresent ==
  \A a \in attached :
    Missing(a) => stops > 0 /\ saved # NoBackup /\ a.id <= saved.serial
=============================================================================
