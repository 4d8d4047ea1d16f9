-------------------------- MODULE UploadReservation --------------------------
(***************************************************************************)
(* Uploads of one account: CreateDocument reserves room in the storage     *)
(* quota and hands out an upload URL, the client puts the object into the  *)
(* bucket on its own, and a confirming call (ConfirmUpload, or the start   *)
(* of any processing) compares the object with the reservation and charges *)
(* the account.  Expired reservations are swept, and their objects deleted.*)
(*                                                                         *)
(* A call is one confirmation in progress.  The database transaction of    *)
(* ConfirmDocumentUpload is two steps, because it looks at the clock after *)
(* it has locked the reservation and before it has locked the account.     *)
(***************************************************************************)
EXTENDS Integers, FiniteSetsExt

CONSTANTS
  Documents,      \* documents of the account, in all its workspaces
  NoDocument,     \* what a call works on when it is idle
  Calls,          \* confirmations in progress at once, over all replicas
  Sweeps,         \* runs of ExpireUploadReservations in progress at once
  NoObject,       \* what the bucket holds where nothing was uploaded
  DeclaredSizes,  \* file sizes a client may declare
  UploadedSizes,  \* file sizes it may then upload
  Quotas,         \* storage_quota_bytes of the account's plans
  MaxFileSize,    \* max_file_size_bytes; 0 means no limit
  ReservationTTL, \* how long a reservation holds room (15 minutes)
  MaxWait,        \* bound: ticks between a creation's clock and its lock
  MaxClock        \* bound: the last instant

ASSUME DocumentsAssumption == NoDocument \notin Documents
ASSUME SizesAssumption ==
  /\ DeclaredSizes \subseteq Nat
  /\ UploadedSizes \subseteq Nat
  /\ Quotas \subseteq Nat
  /\ MaxFileSize \in Nat
ASSUME TimesAssumption ==
  /\ ReservationTTL \in Nat
  /\ MaxWait \in Nat
  /\ MaxClock \in Nat

VARIABLES
  clock,        \* the time
  used,         \* storage_used_bytes of the account
  quota,        \* storage_quota_bytes of the account
  reservation,  \* upload_reservations, one row for each document
  bucket,       \* the uploaded originals
  call,         \* the confirmations
  sweep,        \* the documents whose objects each sweep has yet to delete
  refused,      \* history: documents a confirmation has refused, and why
  excused       \* history: the plan has changed, or a confirmation that began in
                \* time was charged when its reservation no longer held the room

vars == <<clock, used, quota, reservation, bucket, call, sweep, refused, excused>>

-----------------------------------------------------------------------------

NoReservation == [status |-> "none", size |-> 0, expires |-> 0]

NoCall == [pc |-> "idle", doc |-> NoDocument, size |-> 0]

Reservation == [status : {"none", "reserved", "confirmed", "expired"}, size : Nat,
                expires : Nat]

\* What is stored under the document's source/ prefix: its size, and whether its
\* content type is one that must not be uploaded (nobody looks at its size then).
Object == [size : Nat, blocked : BOOLEAN]

ASSUME NoObjectAssumption == NoObject \notin Object

Uploads == {o \in [size : UploadedSizes \cup {0}, blocked : BOOLEAN] :
              IF o.blocked THEN o.size = 0 ELSE o.size \in UploadedSizes}

Call == [pc : {"idle", "confirm", "charge", "delete"},
         doc : Documents \cup {NoDocument}, size : Nat]

TypeOK ==
  /\ clock \in Nat
  /\ used \in Nat
  /\ quota \in Quotas
  /\ reservation \in [Documents -> Reservation]
  /\ bucket \in [Documents -> Object \cup {NoObject}]
  /\ call \in [Calls -> Call]
  /\ sweep \in [Sweeps -> SUBSET Documents]
  /\ refused \in [Documents -> SUBSET {"size", "type"}]
  /\ excused \in BOOLEAN

Init ==
  /\ clock = 0
  /\ used = 0
  /\ quota \in Quotas
  /\ reservation = [d \in Documents |-> NoReservation]
  /\ bucket = [d \in Documents |-> NoObject]
  /\ call = [c \in Calls |-> NoCall]
  /\ sweep = [s \in Sweeps |-> {}]
  /\ refused = [d \in Documents |-> {}]
  /\ excused = FALSE

-----------------------------------------------------------------------------
(* Reserving.                                                              *)

\* The bytes reserved for uploads that had not expired at t.
activeReservedBytes(t) ==
  MapThenSumSet(LAMBDA d : reservation[d].size,
                {d \in Documents : reservation[d].status = "reserved"
                                   /\ reservation[d].expires > t})

\* A quota of zero is no limit here, and a limit like any other in CreateDocument.
validateUploadSize(size) ==
  /\ size > 0
  /\ MaxFileSize > 0 => size <= MaxFileSize
  /\ quota > 0 => used + size <= quota

\* Broken variant: what others have reserved is not counted.
CreateDocumentUnreserved(d, size, createdAt) ==
  /\ reservation[d].status = "none"
  /\ validateUploadSize(size)
  /\ used + size <= quota
  /\ reservation' = [reservation EXCEPT ![d] =
       [status |-> "reserved", size |-> size,
        expires |-> createdAt + ReservationTTL]]
  /\ UNCHANGED <<clock, used, quota, bucket, call, sweep, refused, excused>>

\* CreateDocument notes the time, and may then wait for the account's row.
CreateDocument(d, size, createdAt) ==
  /\ reservation[d].status = "none"
  /\ validateUploadSize(size)
  /\ used + activeReservedBytes(createdAt) + size <= quota
  /\ reservation' = [reservation EXCEPT ![d] =
       [status |-> "reserved", size |-> size,
        expires |-> createdAt + ReservationTTL]]
  /\ UNCHANGED <<clock, used, quota, bucket, call, sweep, refused, excused>>

\* The client uploads, perhaps again.  The storage emulator's URL takes any object
\* at any time; a signed one allows less, the declared size and type for a while.
Upload(d, object) ==
  /\ reservation[d].status # "none"
  /\ bucket' = [bucket EXCEPT ![d] = object]
  /\ UNCHANGED <<clock, used, quota, reservation, call, sweep, refused, excused>>

-----------------------------------------------------------------------------
(* Confirming.                                                             *)

\* The row of d is locked by a confirmation that has passed its checks.
Locked(d) == \E c \in Calls : call[c].pc = "charge" /\ call[c].doc = d

Return(c) == call' = [call EXCEPT ![c] = NoCall]

Refuse(d, why) == refused' = [refused EXCEPT ![d] = @ \cup {why}]

\* confirmUploadedObject looks at the object: none ends the call, a blocked
\* content type has the object deleted, whatever state the reservation is in.
GetObjectMetadata(c, d) ==
  /\ call[c].pc = "idle"
  /\ reservation[d].status # "none"
  /\ bucket[d] # NoObject
  /\ IF bucket[d].blocked
     THEN /\ call' = [call EXCEPT ![c] = [pc |-> "delete", doc |-> d, size |-> 0]]
          /\ Refuse(d, "type")
     ELSE /\ call' = [call EXCEPT ![c] =
                        [pc |-> "confirm", doc |-> d, size |-> bucket[d].size]]
          /\ UNCHANGED refused
  /\ UNCHANGED <<clock, used, quota, reservation, bucket, sweep, excused>>

\* Broken variant: the row is read without FOR UPDATE.
LockReservationUnlocked(c) ==
  LET d == call[c].doc IN
  /\ call[c].pc = "confirm"
  /\ \/ /\ reservation[d].status # "reserved" \/ clock > reservation[d].expires
        /\ Return(c)
        /\ UNCHANGED refused
     \/ /\ reservation[d].status = "reserved" /\ clock <= reservation[d].expires
        /\ call[c].size # reservation[d].size
        /\ call' = [call EXCEPT ![c].pc = "delete"]
        /\ Refuse(d, "size")
     \/ /\ reservation[d].status = "reserved" /\ clock <= reservation[d].expires
        /\ call[c].size = reservation[d].size
        /\ call' = [call EXCEPT ![c].pc = "charge"]
        /\ UNCHANGED refused
  /\ UNCHANGED <<clock, used, quota, reservation, bucket, sweep, excused>>

\* ConfirmDocumentUpload locks the row: a confirmed one is a success, any other
\* that is not reserved or has expired is refused, and a size that differs has
\* the object deleted.  The row is not marked: 'failed' is written in a
\* transaction that is rolled back.
LockReservation(c) ==
  LET d == call[c].doc IN
  /\ call[c].pc = "confirm"
  /\ ~Locked(d)
  /\ \/ /\ reservation[d].status # "reserved" \/ clock > reservation[d].expires
        /\ Return(c)
        /\ UNCHANGED refused
     \/ /\ reservation[d].status = "reserved" /\ clock <= reservation[d].expires
        /\ call[c].size # reservation[d].size
        /\ call' = [call EXCEPT ![c].pc = "delete"]
        /\ Refuse(d, "size")
     \/ /\ reservation[d].status = "reserved" /\ clock <= reservation[d].expires
        /\ call[c].size = reservation[d].size
        /\ call' = [call EXCEPT ![c].pc = "charge"]
        /\ UNCHANGED refused
  /\ UNCHANGED <<clock, used, quota, reservation, bucket, sweep, excused>>

\* With the account locked as well, the room is checked again and charged.
ChargeAccount(c) ==
  LET d == call[c].doc IN
  /\ call[c].pc = "charge"
  /\ IF used + call[c].size > quota
     THEN UNCHANGED <<used, reservation, excused>>
     ELSE /\ used' = used + call[c].size
          /\ reservation' = [reservation EXCEPT ![d].status = "confirmed"]
          /\ excused' = (excused \/ reservation[d].expires <= clock)
  /\ Return(c)
  /\ UNCHANGED <<clock, quota, bucket, sweep, refused>>

\* deleteOrphanedObject, which may fail and is then only logged.
DeleteRefusedObject(c) ==
  LET d == call[c].doc IN
  /\ call[c].pc = "delete"
  /\ bucket' \in {bucket, [bucket EXCEPT ![d] = NoObject]}
  /\ Return(c)
  /\ UNCHANGED <<clock, used, quota, reservation, sweep, refused, excused>>

\* The call dies, or a statement or a request of it fails: an open transaction
\* is rolled back.
CallEnds(c) ==
  /\ call[c].pc # "idle"
  /\ Return(c)
  /\ UNCHANGED <<clock, used, quota, reservation, bucket, sweep, refused, excused>>

-----------------------------------------------------------------------------
(* Expiring.                                                               *)

Expirable == {d \in Documents : reservation[d].status = "reserved"
                                /\ reservation[d].expires <= clock}

\* Broken variant: the rows are selected and their objects deleted, but the
\* rows stay reserved.
ExpireUploadReservationsUnmarked(s) ==
  /\ sweep[s] = {}
  /\ Expirable # {}
  /\ \A d \in Expirable : ~Locked(d)
  /\ sweep' = [sweep EXCEPT ![s] = Expirable]
  /\ UNCHANGED <<clock, used, quota, reservation, bucket, call, refused, excused>>

\* Broken variant: the UPDATE does not wait for the rows' locks.
ExpireUploadReservationsUnlocked(s) ==
  /\ sweep[s] = {}
  /\ Expirable # {}
  /\ reservation' = [d \in Documents |-> IF d \in Expirable
                                         THEN [reservation[d] EXCEPT !.status = "expired"]
                                         ELSE reservation[d]]
  /\ sweep' = [sweep EXCEPT ![s] = Expirable]
  /\ UNCHANGED <<clock, used, quota, bucket, call, refused, excused>>

\* One UPDATE ... RETURNING, which waits for the rows others have locked.
ExpireUploadReservations(s) ==
  /\ sweep[s] = {}
  /\ Expirable # {}
  /\ \A d \in Expirable : ~Locked(d)
  /\ reservation' = [d \in Documents |-> IF d \in Expirable
                                         THEN [reservation[d] EXCEPT !.status = "expired"]
                                         ELSE reservation[d]]
  /\ sweep' = [sweep EXCEPT ![s] = Expirable]
  /\ UNCHANGED <<clock, used, quota, bucket, call, refused, excused>>

\* Broken variant: the room the reservation held is given back from what is used.
DeleteExpiredObjectReleasing(s, d) ==
  /\ d \in sweep[s]
  /\ bucket' \in {bucket, [bucket EXCEPT ![d] = NoObject]}
  /\ sweep' = [sweep EXCEPT ![s] = @ \ {d}]
  /\ used' = used - reservation[d].size
  /\ UNCHANGED <<clock, quota, reservation, call, refused, excused>>

\* The objects of the expired rows are deleted one by one, at best.
DeleteExpiredObject(s, d) ==
  /\ d \in sweep[s]
  /\ bucket' \in {bucket, [bucket EXCEPT ![d] = NoObject]}
  /\ sweep' = [sweep EXCEPT ![s] = @ \ {d}]
  /\ UNCHANGED <<clock, used, quota, reservation, call, refused, excused>>

SweepEnds(s) ==
  /\ sweep[s] # {}
  /\ sweep' = [sweep EXCEPT ![s] = {}]
  /\ UNCHANGED <<clock, used, quota, reservation, bucket, call, refused, excused>>

-----------------------------------------------------------------------------

\* A billing event moves the account to another plan.
ApplyBillingEvent(q) ==
  /\ q # quota
  /\ quota' = q
  /\ excused' = TRUE
  /\ UNCHANGED <<clock, used, reservation, bucket, call, sweep, refused>>

Tick ==
  /\ clock < MaxClock
  /\ clock' = clock + 1
  /\ UNCHANGED <<used, quota, reservation, bucket, call, sweep, refused, excused>>

Next ==
  \/ \E d \in Documents, size \in DeclaredSizes, t \in 0..clock :
       clock - t <= MaxWait /\ CreateDocument(d, size, t)
  \/ \E d \in Documents, object \in Uploads : Upload(d, object)
  \/ \E c \in Calls, d \in Documents : GetObjectMetadata(c, d)
  \/ \E c \in Calls :
       \/ LockReservation(c) \/ ChargeAccount(c) \/ DeleteRefusedObject(c) \/ CallEnds(c)
  \/ \E s \in Sweeps :
       \/ ExpireUploadReservations(s) \/ SweepEnds(s)
       \/ \E d \in Documents : DeleteExpiredObject(s, d)
  \/ \E q \in Quotas : ApplyBillingEvent(q)
  \/ Tick

Spec == Init /\ [][Next]_vars

-----------------------------------------------------------------------------
(* Properties.                                                             *)

Confirmed == {d \in Documents : reservation[d].status = "confirmed"}

\* The account is charged for exactly the confirmed documents, each once,
\* however often and by however many calls a document is confirmed.
UsedIsConfirmed ==
  used = MapThenSumSet(LAMBDA d : reservation[d].size, Confirmed)

\* Room in the quota is promised once: what is used and what is reserved fit
\* together, unless the plan has changed or a confirmation that began in time
\* was charged when its reservation no longer held the room.
RoomIsPromisedOnce ==
  \/ used + activeReservedBytes(clock) <= quota
  \/ excused

\* A confirmed document has its object: neither the sweep nor a confirmation
\* that lost a race deletes it, unless some confirmation had refused the
\* document for its size or its content type.
ConfirmedKeepsObject ==
  \A d \in Confirmed : bucket[d] # NoObject \/ refused[d] # {}

\* A reservation that is confirmed or expired stays so: a confirmation and a
\* sweep never undo each other.
SettledReservationsStay ==
  [][\A d \in Documents :
       reservation[d].status \in {"confirmed", "expired"} =>
         reservation'[d].status = reservation[d].status]_vars

\* docs/learn/upload-pipeline-hardening.md:22 and
\* TestConfirmDocumentUpload_SizeMismatch_MarksFailedAndReturnsErr: a document
\* whose object had the wrong size is marked failed, and not confirmed later.
MismatchIsFinal ==
  \A d \in Documents : "size" \in refused[d] => reservation[d].status # "confirmed"

=============================================================================
