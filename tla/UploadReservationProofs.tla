----------------------- MODULE UploadReservationProofs -----------------------
(***************************************************************************)
(* Proofs about UploadReservation, for every set of documents, calls and   *)
(* sweeps and every choice of sizes, plans and times: the types, that a    *)
(* confirmed document keeps its object, that settled reservations stay     *)
(* settled, that the account is charged for exactly the confirmed          *)
(* documents, and that room is promised once.                              *)
(*                                                                         *)
(* The last two are about sums over the reservations.  Only finitely many  *)
(* documents have one at any time, and a sum over a finite set is taken    *)
(* apart by induction on the set, with the lemmas of SetInduction.         *)
(***************************************************************************)
EXTENDS UploadReservation, SetInduction

\* Two confirmations never hold the row lock of one document.
OneLock ==
  \A c, e \in Calls :
    call[c].pc = "charge" /\ call[e].pc = "charge" /\ call[c].doc = call[e].doc => c = e

\* A locked row is still reserved: the checks made before the account was
\* locked hold when it is charged.
LockedIsReserved ==
  \A c \in Calls : call[c].pc = "charge" => reservation[call[c].doc].status = "reserved"

\* A running call has a document.
CallsHaveDocuments ==
  \A c \in Calls : call[c].pc # "idle" => call[c].doc \in Documents

\* The object a confirmation has seen is still there, unless another one has
\* refused the document or a sweep has expired it.
SeenObjectStays ==
  \A c \in Calls :
    call[c].pc \in {"confirm", "charge"} =>
      \/ bucket[call[c].doc] # NoObject
      \/ refused[call[c].doc] # {}
      \/ reservation[call[c].doc].status = "expired"

\* A call that is about to delete an object has refused its document.
DeletedIsRefused ==
  \A c \in Calls :
    call[c].pc = "delete" => refused[call[c].doc] # {}

\* A sweep deletes the objects of expired reservations only.
SweptIsExpired ==
  \A s \in Sweeps : \A d \in sweep[s] : reservation[d].status = "expired"

\* What is true of the calls and the sweeps between any two steps.
Inv ==
  /\ TypeOK
  /\ OneLock
  /\ LockedIsReserved
  /\ CallsHaveDocuments
  /\ SeenObjectStays
  /\ DeletedIsRefused
  /\ SweptIsExpired
  /\ ConfirmedKeepsObject

-----------------------------------------------------------------------------

\* The initial state satisfies the invariant: nothing is reserved, no call runs.
LEMMA InitInv == Init => Inv
<1> SUFFICES ASSUME Init PROVE Inv
  OBVIOUS
<1>1. TypeOK
  BY DEF Init, TypeOK, Reservation, NoReservation, Call, NoCall
<1>2. \A c \in Calls : call[c].pc = "idle"
  BY DEF Init, NoCall
<1>3. \A s \in Sweeps : sweep[s] = {}
  BY DEF Init
<1>4. \A d \in Documents : reservation[d].status = "none"
  BY DEF Init, NoReservation
<1>5. OneLock /\ LockedIsReserved /\ CallsHaveDocuments /\ SeenObjectStays /\ DeletedIsRefused
  BY <1>2 DEF OneLock, LockedIsReserved, CallsHaveDocuments, SeenObjectStays, DeletedIsRefused
<1>6. SweptIsExpired
  BY <1>3 DEF SweptIsExpired
<1>7. ConfirmedKeepsObject
  BY <1>4 DEF ConfirmedKeepsObject, Confirmed
<1> QED
  BY <1>1, <1>5, <1>6, <1>7 DEF Inv

\* What a client uploads is an object, which the bucket tells from none.
LEMMA UploadIsObject ==
  ASSUME NEW object \in Uploads
  PROVE object \in Object /\ object # NoObject
<1>1. object \in [size : UploadedSizes \cup {0}, blocked : BOOLEAN]
  BY DEF Uploads
<1>2. UploadedSizes \cup {0} \subseteq Nat
  BY SizesAssumption
<1>3. [size : UploadedSizes \cup {0}, blocked : BOOLEAN] \subseteq [size : Nat, blocked : BOOLEAN]
  BY <1>2, Zenon
<1>4. object \in Object
  BY <1>1, <1>3, Zenon DEF Object
<1>5. object # NoObject
  BY <1>4, NoObjectAssumption, Zenon
<1> QED
  BY <1>4, <1>5

\* The types, step by step.
LEMMA TypeStep == TypeOK /\ CallsHaveDocuments /\ [Next]_vars => TypeOK'
<1> SUFFICES ASSUME TypeOK, CallsHaveDocuments, [Next]_vars PROVE TypeOK'
  OBVIOUS
<1> USE SizesAssumption, TimesAssumption DEF TypeOK, Reservation, Call
<1>1. ASSUME NEW d \in Documents, NEW size \in DeclaredSizes, NEW t \in 0..clock,
             CreateDocument(d, size, t)
      PROVE TypeOK'
  <2>1. size \in Nat /\ t + ReservationTTL \in Nat
    OBVIOUS
  <2> QED
    BY <1>1, <2>1 DEF CreateDocument
<1>2. ASSUME NEW d \in Documents, NEW object \in Uploads, Upload(d, object)
      PROVE TypeOK'
  <2>1. object \in Object
    BY UploadIsObject
  <2> QED
    BY <1>2, <2>1 DEF Upload
<1>3. ASSUME NEW c \in Calls, NEW d \in Documents, GetObjectMetadata(c, d)
      PROVE TypeOK'
  <2>1. bucket[d] \in Object
    BY <1>3 DEF GetObjectMetadata
  <2>2. bucket[d].size \in Nat
    BY <2>1 DEF Object
  <2>3. refused' \in [Documents -> SUBSET {"size", "type"}]
    <3>1. CASE bucket[d].blocked
      BY <1>3, <3>1 DEF GetObjectMetadata, Refuse
    <3>2. CASE ~bucket[d].blocked
      BY <1>3, <3>2 DEF GetObjectMetadata
    <3> QED
      BY <3>1, <3>2
  <2>4. call' \in [Calls -> Call]
    <3>1. CASE bucket[d].blocked
      BY <1>3, <3>1 DEF GetObjectMetadata
    <3>2. CASE ~bucket[d].blocked
      BY <1>3, <2>2, <3>2 DEF GetObjectMetadata
    <3> QED
      BY <3>1, <3>2
  <2> QED
    BY <1>3, <2>3, <2>4 DEF GetObjectMetadata
<1>4. ASSUME NEW c \in Calls, LockReservation(c)
      PROVE TypeOK'
  <2>1. call[c].doc \in Documents
    BY <1>4 DEF LockReservation, CallsHaveDocuments
  <2>2. refused' \in [Documents -> SUBSET {"size", "type"}]
    BY <1>4, <2>1 DEF LockReservation, Refuse
  <2>3. \/ call' = [call EXCEPT ![c] = NoCall]
        \/ call' = [call EXCEPT ![c].pc = "delete"]
        \/ call' = [call EXCEPT ![c].pc = "charge"]
    BY <1>4 DEF LockReservation, Return
  <2>4. call' \in [Calls -> Call]
    <3>1. CASE call' = [call EXCEPT ![c] = NoCall]
      BY <3>1 DEF NoCall
    <3>2. CASE call' = [call EXCEPT ![c].pc = "delete"]
      BY <3>2
    <3>3. CASE call' = [call EXCEPT ![c].pc = "charge"]
      BY <3>3
    <3> QED
      BY <2>3, <3>1, <3>2, <3>3
  <2> QED
    BY <1>4, <2>2, <2>4 DEF LockReservation
<1>5. ASSUME NEW c \in Calls, ChargeAccount(c)
      PROVE TypeOK'
  <2>1. call[c].doc \in Documents /\ call[c].size \in Nat
    BY <1>5 DEF ChargeAccount, CallsHaveDocuments
  <2>2. call' \in [Calls -> Call] /\ used' \in Nat
    BY <1>5, <2>1 DEF ChargeAccount, Return, NoCall
  <2>3. reservation' \in [Documents -> Reservation]
    BY <1>5, <2>1 DEF ChargeAccount
  <2>4. excused' \in BOOLEAN
    BY <1>5, Zenon DEF ChargeAccount
  <2> QED
    BY <1>5, <2>2, <2>3, <2>4 DEF ChargeAccount
<1>6. ASSUME NEW c \in Calls, DeleteRefusedObject(c)
      PROVE TypeOK'
  <2>1. call[c].doc \in Documents
    BY <1>6 DEF DeleteRefusedObject, CallsHaveDocuments
  <2> QED
    BY <1>6, <2>1 DEF DeleteRefusedObject, Return, NoCall
<1>7. ASSUME NEW c \in Calls, CallEnds(c)
      PROVE TypeOK'
  BY <1>7 DEF CallEnds, Return, NoCall
<1>8. ASSUME NEW s \in Sweeps, ExpireUploadReservations(s)
      PROVE TypeOK'
  <2>1. reservation' \in [Documents -> Reservation]
    BY <1>8 DEF ExpireUploadReservations
  <2>2. sweep' \in [Sweeps -> SUBSET Documents]
    BY <1>8 DEF ExpireUploadReservations, Expirable
  <2> QED
    BY <1>8, <2>1, <2>2 DEF ExpireUploadReservations
<1>9. ASSUME NEW s \in Sweeps, SweepEnds(s)
      PROVE TypeOK'
  BY <1>9 DEF SweepEnds
<1>10. ASSUME NEW s \in Sweeps, NEW d \in Documents, DeleteExpiredObject(s, d)
       PROVE TypeOK'
  BY <1>10 DEF DeleteExpiredObject
<1>11. ASSUME NEW q \in Quotas, ApplyBillingEvent(q)
       PROVE TypeOK'
  BY <1>11 DEF ApplyBillingEvent
<1>12. CASE Tick
  BY <1>12 DEF Tick
<1>13. CASE UNCHANGED vars
  BY <1>13 DEF vars
<1> QED
  BY <1>1, <1>2, <1>3, <1>4, <1>5, <1>6, <1>7, <1>8, <1>9, <1>10, <1>11, <1>12, <1>13
  DEF Next

-----------------------------------------------------------------------------

\* The row locks, step by step: only LockReservation takes one, of a reserved
\* row nobody has locked, and only its holder and the sweep, which waits for
\* it, change what the row says.
LEMMA LockStep ==
  Inv /\ [Next]_vars => OneLock' /\ LockedIsReserved' /\ CallsHaveDocuments'
<1> SUFFICES ASSUME Inv, [Next]_vars
             PROVE OneLock' /\ LockedIsReserved' /\ CallsHaveDocuments'
  OBVIOUS
<1> USE DEF Inv, TypeOK, OneLock, LockedIsReserved, CallsHaveDocuments, Call
<1>1. ASSUME NEW d \in Documents, NEW size \in DeclaredSizes, NEW t \in 0..clock,
             CreateDocument(d, size, t)
      PROVE OneLock' /\ LockedIsReserved' /\ CallsHaveDocuments'
  BY <1>1 DEF CreateDocument
<1>2. ASSUME NEW d \in Documents, NEW object \in Uploads, Upload(d, object)
      PROVE OneLock' /\ LockedIsReserved' /\ CallsHaveDocuments'
  BY <1>2 DEF Upload
<1>3. ASSUME NEW c \in Calls, NEW d \in Documents, GetObjectMetadata(c, d)
      PROVE OneLock' /\ LockedIsReserved' /\ CallsHaveDocuments'
  <2>1. \A e \in Calls \ {c} : call'[e] = call[e]
    BY <1>3 DEF GetObjectMetadata
  <2>2. call'[c].pc # "charge" /\ call'[c].doc = d
    BY <1>3 DEF GetObjectMetadata
  <2>3. reservation' = reservation
    BY <1>3 DEF GetObjectMetadata
  <2> QED
    BY <2>1, <2>2, <2>3
<1>4. ASSUME NEW c \in Calls, LockReservation(c)
      PROVE OneLock' /\ LockedIsReserved' /\ CallsHaveDocuments'
  <2> DEFINE d == call[c].doc
  <2>1. \A e \in Calls \ {c} : call'[e] = call[e] /\ ~(call[e].pc = "charge" /\ call[e].doc = d)
    BY <1>4 DEF LockReservation, Locked, Return
  <2>2. reservation' = reservation /\ d \in Documents
    BY <1>4 DEF LockReservation
  <2>3. \/ call'[c].pc = "idle"
        \/ call'[c].pc = "delete" /\ call'[c].doc = d
        \/ call'[c].pc = "charge" /\ call'[c].doc = d /\ reservation[d].status = "reserved"
    BY <1>4 DEF LockReservation, Return, NoCall
  <2> HIDE DEF d
  <2>4. OneLock'
    BY <2>1, <2>3
  <2>5. LockedIsReserved'
    BY <2>1, <2>2, <2>3
  <2>6. CallsHaveDocuments'
    BY <2>1, <2>2, <2>3
  <2> QED
    BY <2>4, <2>5, <2>6
<1>5. ASSUME NEW c \in Calls, ChargeAccount(c)
      PROVE OneLock' /\ LockedIsReserved' /\ CallsHaveDocuments'
  <2>1. \A e \in Calls \ {c} :
          call'[e] = call[e] /\ (call[e].pc = "charge" => call[e].doc # call[c].doc)
    BY <1>5 DEF ChargeAccount, Return
  <2>2. call'[c].pc = "idle"
    BY <1>5 DEF ChargeAccount, Return, NoCall
  <2>3. \A d \in Documents : d # call[c].doc => reservation'[d] = reservation[d]
    BY <1>5 DEF ChargeAccount
  <2> QED
    BY <2>1, <2>2, <2>3
<1>6. ASSUME NEW c \in Calls, DeleteRefusedObject(c)
      PROVE OneLock' /\ LockedIsReserved' /\ CallsHaveDocuments'
  BY <1>6 DEF DeleteRefusedObject, Return, NoCall
<1>7. ASSUME NEW c \in Calls, CallEnds(c)
      PROVE OneLock' /\ LockedIsReserved' /\ CallsHaveDocuments'
  BY <1>7 DEF CallEnds, Return, NoCall
<1>8. ASSUME NEW s \in Sweeps, ExpireUploadReservations(s)
      PROVE OneLock' /\ LockedIsReserved' /\ CallsHaveDocuments'
  <2>1. call' = call
    BY <1>8 DEF ExpireUploadReservations
  <2>2. ASSUME NEW c \in Calls, call[c].pc = "charge"
        PROVE reservation'[call[c].doc].status = "reserved"
    BY <1>8, <2>2 DEF ExpireUploadReservations, Locked
  <2> QED
    BY <2>1, <2>2
<1>9. ASSUME NEW s \in Sweeps, SweepEnds(s)
      PROVE OneLock' /\ LockedIsReserved' /\ CallsHaveDocuments'
  BY <1>9 DEF SweepEnds
<1>10. ASSUME NEW s \in Sweeps, NEW d \in Documents, DeleteExpiredObject(s, d)
       PROVE OneLock' /\ LockedIsReserved' /\ CallsHaveDocuments'
  BY <1>10 DEF DeleteExpiredObject
<1>11. ASSUME NEW q \in Quotas, ApplyBillingEvent(q)
       PROVE OneLock' /\ LockedIsReserved' /\ CallsHaveDocuments'
  BY <1>11 DEF ApplyBillingEvent
<1>12. CASE Tick
  BY <1>12 DEF Tick
<1>13. CASE UNCHANGED vars
  BY <1>13 DEF vars
<1> QED
  BY <1>1, <1>2, <1>3, <1>4, <1>5, <1>6, <1>7, <1>8, <1>9, <1>10, <1>11, <1>12, <1>13
  DEF Next

-----------------------------------------------------------------------------

\* The objects, step by step.  An object goes away in two ways only: a call that
\* has refused the document deletes it, or a sweep that has expired it.
LEMMA ObjectStep ==
  Inv /\ [Next]_vars =>
    SeenObjectStays' /\ DeletedIsRefused' /\ SweptIsExpired' /\ ConfirmedKeepsObject'
<1> DEFINE Goal == /\ SeenObjectStays'
                   /\ DeletedIsRefused'
                   /\ SweptIsExpired'
                   /\ ConfirmedKeepsObject'
<1> SUFFICES ASSUME Inv, [Next]_vars PROVE Goal
  OBVIOUS
<1> USE DEF Inv, TypeOK, CallsHaveDocuments, SeenObjectStays, DeletedIsRefused, SweptIsExpired,
            ConfirmedKeepsObject, Confirmed, Call, Reservation
<1>1. ASSUME NEW d \in Documents, NEW size \in DeclaredSizes, NEW t \in 0..clock,
             CreateDocument(d, size, t)
      PROVE Goal
  <2>1. \A e \in Documents :
          \/ reservation'[e] = reservation[e]
          \/ reservation[e].status = "none" /\ reservation'[e].status = "reserved"
    BY <1>1 DEF CreateDocument
  <2>2. UNCHANGED <<bucket, call, sweep, refused>>
    BY <1>1 DEF CreateDocument
  <2>3. \A e \in Documents :
          reservation[e].status = "expired" => reservation'[e].status = "expired"
    BY <2>1
  <2>4. SeenObjectStays' /\ DeletedIsRefused'
    BY <2>2, <2>3
  <2>5. SweptIsExpired'
    BY <2>2, <2>3
  <2>6. ConfirmedKeepsObject'
    BY <2>1, <2>2
  <2> QED
    BY <2>4, <2>5, <2>6
<1>2. ASSUME NEW d \in Documents, NEW object \in Uploads, Upload(d, object)
      PROVE Goal
  <2>1. object # NoObject
    BY UploadIsObject
  <2>2. \A e \in Documents : bucket[e] # NoObject => bucket'[e] # NoObject
    BY <1>2, <2>1 DEF Upload
  <2>3. UNCHANGED <<reservation, call, sweep, refused>>
    BY <1>2 DEF Upload
  <2> QED
    BY <2>2, <2>3
<1>3. ASSUME NEW c \in Calls, NEW d \in Documents, GetObjectMetadata(c, d)
      PROVE Goal
  <2>1. \A e \in Calls \ {c} : call'[e] = call[e]
    BY <1>3 DEF GetObjectMetadata
  <2>2. \A e \in Documents : refused[e] \subseteq refused'[e]
    <3>1. CASE Refuse(d, "type")
      BY <3>1 DEF Refuse
    <3>2. CASE UNCHANGED refused
      BY <3>2
    <3> QED
      BY <1>3, <3>1, <3>2 DEF GetObjectMetadata
  <2>3. UNCHANGED <<reservation, bucket, sweep>>
    BY <1>3 DEF GetObjectMetadata
  <2>4. /\ call'[c].doc = d
        /\ \/ call'[c].pc = "confirm" /\ bucket[d] # NoObject
           \/ call'[c].pc = "delete" /\ "type" \in refused'[d]
    BY <1>3 DEF GetObjectMetadata, Refuse
  <2>5. SeenObjectStays'
    <3> SUFFICES ASSUME NEW e \in Calls, call'[e].pc \in {"confirm", "charge"}
                 PROVE \/ bucket'[call'[e].doc] # NoObject
                       \/ refused'[call'[e].doc] # {}
                       \/ reservation'[call'[e].doc].status = "expired"
      OBVIOUS
    <3>1. CASE e = c
      BY <2>2, <2>3, <2>4, <3>1
    <3>2. CASE e # c
      <4>1. call'[e] = call[e] /\ call[e].doc \in Documents
        BY <2>1, <3>2
      <4>2. refused[call[e].doc] # {} => refused'[call[e].doc] # {}
        BY <2>2, <4>1
      <4>3. \/ bucket[call[e].doc] # NoObject
            \/ refused[call[e].doc] # {}
            \/ reservation[call[e].doc].status = "expired"
        BY <4>1
      <4> QED
        BY <2>3, <4>1, <4>2, <4>3, Zenon
    <3> QED
      BY <3>1, <3>2
  <2>6. DeletedIsRefused'
    <3> SUFFICES ASSUME NEW e \in Calls, call'[e].pc = "delete"
                 PROVE refused'[call'[e].doc] # {}
      OBVIOUS
    <3>1. CASE e = c
      BY <2>4, <3>1
    <3>2. CASE e # c
      BY <2>1, <2>2, <3>2
    <3> QED
      BY <3>1, <3>2
  <2>7. SweptIsExpired' /\ ConfirmedKeepsObject'
    BY <2>2, <2>3
  <2> QED
    BY <2>5, <2>6, <2>7
<1>4. ASSUME NEW c \in Calls, LockReservation(c)
      PROVE Goal
  <2>1. \A e \in Calls \ {c} : call'[e] = call[e]
    BY <1>4 DEF LockReservation, Return
  <2>2. \A e \in Documents : refused[e] \subseteq refused'[e]
    <3>1. CASE Refuse(call[c].doc, "size")
      BY <3>1 DEF Refuse
    <3>2. CASE UNCHANGED refused
      BY <3>2
    <3> QED
      BY <1>4, <3>1, <3>2 DEF LockReservation
  <2>3. UNCHANGED <<reservation, bucket, sweep>>
    BY <1>4 DEF LockReservation
  <2>4. \/ call'[c].pc = "idle"
        \/ /\ call'[c].pc = "charge"
           /\ call'[c].doc = call[c].doc
           /\ call[c].pc = "confirm"
        \/ /\ call'[c].pc = "delete"
           /\ call'[c].doc = call[c].doc
           /\ "size" \in refused'[call[c].doc]
    BY <1>4 DEF LockReservation, Refuse, Return, NoCall
  <2>5. SeenObjectStays'
    <3> SUFFICES ASSUME NEW e \in Calls, call'[e].pc \in {"confirm", "charge"}
                 PROVE \/ bucket'[call'[e].doc] # NoObject
                       \/ refused'[call'[e].doc] # {}
                       \/ reservation'[call'[e].doc].status = "expired"
      OBVIOUS
    <3>1. CASE e = c
      BY <2>2, <2>3, <2>4, <3>1
    <3>2. CASE e # c
      <4>1. call'[e] = call[e] /\ call[e].doc \in Documents
        BY <2>1, <3>2
      <4>2. refused[call[e].doc] # {} => refused'[call[e].doc] # {}
        BY <2>2, <4>1
      <4>3. \/ bucket[call[e].doc] # NoObject
            \/ refused[call[e].doc] # {}
            \/ reservation[call[e].doc].status = "expired"
        BY <4>1
      <4> QED
        BY <2>3, <4>1, <4>2, <4>3, Zenon
    <3> QED
      BY <3>1, <3>2
  <2>6. DeletedIsRefused'
    <3> SUFFICES ASSUME NEW e \in Calls, call'[e].pc = "delete"
                 PROVE refused'[call'[e].doc] # {}
      OBVIOUS
    <3>1. CASE e = c
      BY <2>4, <3>1
    <3>2. CASE e # c
      BY <2>1, <2>2, <3>2
    <3> QED
      BY <3>1, <3>2
  <2>7. SweptIsExpired' /\ ConfirmedKeepsObject'
    BY <2>2, <2>3
  <2> QED
    BY <2>5, <2>6, <2>7
<1>5. ASSUME NEW c \in Calls, ChargeAccount(c)
      PROVE Goal
  <2> DEFINE d == call[c].doc
  <2>1. \A e \in Calls \ {c} : call'[e] = call[e]
    BY <1>5 DEF ChargeAccount, Return
  <2>2. call'[c].pc = "idle"
    BY <1>5 DEF ChargeAccount, Return, NoCall
  <2>3. UNCHANGED <<bucket, sweep, refused>>
    BY <1>5 DEF ChargeAccount
  <2>4. d \in Documents /\ reservation[d].status = "reserved"
    BY <1>5 DEF ChargeAccount, LockedIsReserved
  <2>5. \A e \in Documents : e # d => reservation'[e] = reservation[e]
    BY <1>5 DEF ChargeAccount
  <2>6. bucket[d] # NoObject \/ refused[d] # {}
    BY <1>5, <2>4 DEF ChargeAccount
  <2> HIDE DEF d
  <2>7. \A e \in Documents : reservation[e].status = "expired" => reservation'[e] = reservation[e]
    BY <2>4, <2>5
  <2>8. \A e \in Documents :
          reservation'[e].status = "confirmed" => e = d \/ reservation[e].status = "confirmed"
    BY <2>5
  <2>9. SeenObjectStays' /\ DeletedIsRefused'
    <3>1. \A e \in Calls :
            call'[e].pc # "idle" => call'[e] = call[e] /\ call[e].doc \in Documents
      BY <2>1, <2>2
    <3> QED
      BY <2>3, <2>7, <3>1
  <2>10. SweptIsExpired'
    BY <2>3, <2>7
  <2>11. ConfirmedKeepsObject'
    BY <2>3, <2>6, <2>8
  <2> QED
    BY <2>9, <2>10, <2>11
<1>6. ASSUME NEW c \in Calls, DeleteRefusedObject(c)
      PROVE Goal
  <2>1. \A e \in Calls \ {c} : call'[e] = call[e]
    BY <1>6 DEF DeleteRefusedObject, Return
  <2>2. call'[c].pc = "idle"
    BY <1>6 DEF DeleteRefusedObject, Return, NoCall
  <2>3. UNCHANGED <<reservation, sweep, refused>>
    BY <1>6 DEF DeleteRefusedObject
  <2>4. \A e \in Documents : bucket'[e] = bucket[e] \/ refused[e] # {}
    BY <1>6 DEF DeleteRefusedObject
  <2> QED
    BY <2>1, <2>2, <2>3, <2>4
<1>7. ASSUME NEW c \in Calls, CallEnds(c)
      PROVE Goal
  <2>1. \A e \in Calls : call'[e] = call[e] \/ call'[e].pc = "idle"
    BY <1>7 DEF CallEnds, Return, NoCall
  <2>2. UNCHANGED <<reservation, bucket, sweep, refused>>
    BY <1>7 DEF CallEnds
  <2> QED
    BY <2>1, <2>2
<1>8. ASSUME NEW s \in Sweeps, ExpireUploadReservations(s)
      PROVE Goal
  <2>1. UNCHANGED <<bucket, call, refused>>
    BY <1>8 DEF ExpireUploadReservations
  <2>2. \A d \in Documents :
          \/ reservation'[d] = reservation[d] /\ d \notin Expirable
          \/ reservation'[d].status = "expired"
    BY <1>8 DEF ExpireUploadReservations
  <2>3. \A r \in Sweeps : sweep'[r] = sweep[r] \/ sweep'[r] = Expirable
    BY <1>8 DEF ExpireUploadReservations
  <2>4. \A r \in Sweeps : sweep[r] \subseteq Documents
    OBVIOUS
  <2>5. Expirable \subseteq Documents
    BY DEF Expirable
  <2>6. SeenObjectStays'
    BY <2>1, <2>2
  <2>7. DeletedIsRefused'
    BY <2>1
  <2>8. SweptIsExpired'
    BY <2>2, <2>3, <2>4, <2>5
  <2>9. ConfirmedKeepsObject'
    BY <2>1, <2>2
  <2> QED
    BY <2>6, <2>7, <2>8, <2>9
<1>9. ASSUME NEW s \in Sweeps, SweepEnds(s)
      PROVE Goal
  BY <1>9 DEF SweepEnds
<1>10. ASSUME NEW s \in Sweeps, NEW d \in Documents, DeleteExpiredObject(s, d)
       PROVE Goal
  <2>1. UNCHANGED <<reservation, call, refused>>
    BY <1>10 DEF DeleteExpiredObject
  <2>2. \A e \in Documents : bucket'[e] = bucket[e] \/ reservation[e].status = "expired"
    BY <1>10 DEF DeleteExpiredObject
  <2>3. \A r \in Sweeps : sweep'[r] \subseteq sweep[r]
    BY <1>10 DEF DeleteExpiredObject
  <2> QED
    BY <2>1, <2>2, <2>3
<1>11. ASSUME NEW q \in Quotas, ApplyBillingEvent(q)
       PROVE Goal
  BY <1>11 DEF ApplyBillingEvent
<1>12. CASE Tick
  BY <1>12 DEF Tick
<1>13. CASE UNCHANGED vars
  BY <1>13 DEF vars
<1> HIDE DEF Goal
<1> QED
  BY <1>1, <1>2, <1>3, <1>4, <1>5, <1>6, <1>7, <1>8, <1>9, <1>10, <1>11, <1>12, <1>13
  DEF Next

-----------------------------------------------------------------------------

\* The invariant holds in every state.
THEOREM Invariance == Spec => []Inv
<1>1. Inv /\ [Next]_vars => Inv'
  BY TypeStep, LockStep, ObjectStep DEF Inv
<1> QED
  BY <1>1, InitInv, PTL DEF Spec

\* Every variable has its type, whatever order creations, uploads,
\* confirmations, sweeps and plan changes come in.
THEOREM Types == Spec => []TypeOK
<1>1. Inv => TypeOK
  BY DEF Inv
<1> QED
  BY <1>1, Invariance, PTL

\* A confirmed document has its object, unless a confirmation had refused the
\* document: neither the sweep nor a confirmation that lost a race deletes it.
THEOREM ConfirmedKeepsItsObject == Spec => []ConfirmedKeepsObject
<1>1. Inv => ConfirmedKeepsObject
  BY DEF Inv
<1> QED
  BY <1>1, Invariance, PTL

\* A reservation that is confirmed or expired stays so: the charge comes under
\* the row lock its check was made under, and the sweep takes reserved rows only.
THEOREM SettledStaySettled == Spec => SettledReservationsStay
<1> DEFINE Stays == \A d \in Documents :
                      reservation[d].status \in {"confirmed", "expired"} =>
                        reservation'[d].status = reservation[d].status
<1>1. Inv /\ [Next]_vars => [Stays]_vars
  <2> SUFFICES ASSUME Inv, Next PROVE Stays
    BY DEF vars
  <2> USE DEF Inv, TypeOK, Reservation
  <2>1. ASSUME NEW d \in Documents, NEW size \in DeclaredSizes, NEW t \in 0..clock,
               CreateDocument(d, size, t)
        PROVE Stays
    BY <2>1 DEF CreateDocument
  <2>2. ASSUME NEW c \in Calls, ChargeAccount(c)
        PROVE Stays
    <3>1. reservation[call[c].doc].status = "reserved"
      BY <2>2 DEF ChargeAccount, LockedIsReserved
    <3> QED
      BY <2>2, <3>1 DEF ChargeAccount
  <2>3. ASSUME NEW s \in Sweeps, ExpireUploadReservations(s)
        PROVE Stays
    BY <2>3 DEF ExpireUploadReservations, Expirable
  <2>4. CASE UNCHANGED reservation
    BY <2>4
  <2> HIDE DEF Stays
  <2> QED
    BY <2>1, <2>2, <2>3, <2>4
    DEF Next, Upload, GetObjectMetadata, LockReservation, DeleteRefusedObject, CallEnds,
        SweepEnds, DeleteExpiredObject, ApplyBillingEvent, Tick
<1> QED
  BY <1>1, Invariance, PTL DEF Spec, SettledReservationsStay

-----------------------------------------------------------------------------
(* Sums of sizes.  MapThenSumSet is a recursive function on the subsets of *)
(* its set; that it is well defined, and does not depend on the order in   *)
(* which the elements are taken, is an induction over finite sets.         *)

\* The sum of the sizes of the rows r over S.
Sum(r, S) == MapThenSumSet(LAMBDA d : r[d].size, S)

\* What the fold does with a set: the element it takes first, and the rest.
First(s) == CHOOSE x \in s : TRUE
Adds(r, g, s) == IF s = {} THEN 0 ELSE r[First(s)].size + g[s \ {First(s)}]
IsSum(r, S, g) ==
  g \in [SUBSET S -> Nat] /\ \A s \in SUBSET S : g[s] = Adds(r, g, s)

Sizes(r, S) == \A d \in S : r[d].size \in Nat

\* First takes an element.
LEMMA FirstIn == ASSUME NEW s, s # {} PROVE First(s) \in s
BY DEF First

\* Such a function exists: it is built up by the size of its arguments.
LEMMA SumExists ==
  ASSUME NEW r, NEW S, IsFiniteSet(S), Sizes(r, S)
  PROVE  \E g : IsSum(r, S, g)
<1> DEFINE UpTo(n, g) ==
             \A s \in SUBSET S : Cardinality(s) <= n => g[s] = Adds(r, g, s)
           Built == {n \in Nat : \E g \in [SUBSET S -> Nat] : UpTo(n, g)}
<1>1. \A s \in SUBSET S : IsFiniteSet(s) /\ Cardinality(s) \in Nat
  BY FS_Subset, FS_CardinalityType
<1>2. 0 \in Built
  <2> DEFINE g == [s \in SUBSET S |-> 0]
  <2>1. g \in [SUBSET S -> Nat]
    OBVIOUS
  <2>2. UpTo(0, g)
    <3>1. \A s \in SUBSET S : Cardinality(s) <= 0 => s = {}
      BY <1>1, FS_EmptySet
    <3>2. QED
      BY <3>1 DEF Adds
  <2>3. QED
    BY <2>1, <2>2
<1>3. ASSUME NEW n \in Built PROVE n + 1 \in Built
  <2>1. PICK g \in [SUBSET S -> Nat] : UpTo(n, g)
    OBVIOUS
  <2> DEFINE h == [s \in SUBSET S |-> Adds(r, g, s)]
  <2>2. h \in [SUBSET S -> Nat]
    <3>1. ASSUME NEW s \in SUBSET S PROVE Adds(r, g, s) \in Nat
      BY <2>1, FirstIn DEF Adds, Sizes
    <3>2. QED
      BY <3>1
  <2>3. ASSUME NEW s \in SUBSET S, Cardinality(s) <= n + 1 PROVE h[s] = Adds(r, h, s)
    <3>1. CASE s = {}
      BY <3>1 DEF Adds
    <3>2. CASE s # {}
      <4>1. First(s) \in s /\ s \ {First(s)} \in SUBSET S
        BY <3>2, FirstIn
      <4>2. Cardinality(s \ {First(s)}) <= n
        <5>1. Cardinality(s \ {First(s)}) = Cardinality(s) - 1
          BY <1>1, <4>1, FS_RemoveElement
        <5>2. QED
          BY <1>1, <2>3, <5>1
      <4>3. h[s \ {First(s)}] = g[s \ {First(s)}]
        BY <2>1, <4>1, <4>2
      <4>4. QED
        BY <4>3 DEF Adds
    <3>3. QED
      BY <3>1, <3>2
  <2> HIDE DEF h
  <2>4. UpTo(n + 1, h)
    BY <2>3
  <2>5. n + 1 \in Nat
    OBVIOUS
  <2>6. QED
    BY <2>2, <2>4, <2>5
<1>4. Built = Nat
  <2> HIDE DEF Built
  <2>1. Built \in SUBSET Nat
    BY DEF Built
  <2>2. QED
    BY <1>2, <1>3, <2>1, NaturalsAll
<1>5. Cardinality(S) \in Built
  BY <1>1, <1>4
<1>6. PICK g \in [SUBSET S -> Nat] : UpTo(Cardinality(S), g)
  BY <1>5
<1>7. \A s \in SUBSET S : Cardinality(s) <= Cardinality(S)
  BY FS_Subset
<1>8. IsSum(r, S, g)
  BY <1>6, <1>7 DEF IsSum
<1>9. QED
  BY <1>8

\* The sum is what such a function gives.
LEMMA SumIs ==
  ASSUME NEW r, NEW S, IsFiniteSet(S), Sizes(r, S)
  PROVE  \E g : IsSum(r, S, g) /\ Sum(r, S) = g[S]
<1> DEFINE Def(g) == g = [s \in SUBSET S |-> IF s = {} THEN 0
                                             ELSE r[First(s)].size + g[s \ {First(s)}]]
<1>1. Sum(r, S) = (CHOOSE g : Def(g))[S]
  BY Zenon DEF Sum, MapThenSumSet, MapThenFoldSet, First
<1>2. \E g : Def(g)
  <2>1. PICK g : IsSum(r, S, g)
    BY SumExists
  <2>2. g = [s \in SUBSET S |-> Adds(r, g, s)]
    BY <2>1 DEF IsSum
  <2>3. QED
    BY <2>2 DEF Adds
<1>3. PICK g : g = (CHOOSE f : Def(f))
  OBVIOUS
<1>4. Def(g)
  BY <1>2, <1>3
<1>5. \A s \in SUBSET S : g[s] = Adds(r, g, s)
  BY <1>4 DEF Adds
<1>6. g \in [SUBSET S -> Nat]
  <2>1. DOMAIN g = SUBSET S /\ g = [s \in SUBSET S |-> g[s]]
    BY <1>4
  <2> DEFINE P == {s \in SUBSET S : g[s] \in Nat}
  <2>2. ASSUME NEW t \in SUBSET S, \A x \in t : t \ {x} \in P PROVE t \in P
    <3>1. CASE t = {}
      BY <1>5, <3>1 DEF Adds
    <3>2. CASE t # {}
      <4>1. First(t) \in t
        BY <3>2, FirstIn
      <4>2. g[t \ {First(t)}] \in Nat /\ r[First(t)].size \in Nat
        BY <2>2, <4>1 DEF Sizes
      <4>3. g[t] = r[First(t)].size + g[t \ {First(t)}]
        BY <1>5, <3>2 DEF Adds
      <4>4. QED
        BY <4>2, <4>3
    <3>3. QED
      BY <3>1, <3>2
  <2>3. P = SUBSET S
    <3> HIDE DEF P
    <3>1. P \in SUBSET (SUBSET S)
      BY DEF P
    <3>2. QED
      BY <2>2, <3>1, SubsetsAll
  <2>4. \A s \in SUBSET S : g[s] \in Nat
    BY <2>3
  <2>5. QED
    BY <2>1, <2>4
<1>7. QED
  BY <1>1, <1>3, <1>5, <1>6 DEF IsSum

\* Whichever element is taken first, the sum is that element's size and the rest.
LEMMA AnyFirst ==
  ASSUME NEW r, NEW S, IsFiniteSet(S), Sizes(r, S), NEW g, IsSum(r, S, g)
  PROVE  \A s \in SUBSET S, x \in S : x \in s => g[s] = r[x].size + g[s \ {x}]
<1> DEFINE P == {s \in SUBSET S : \A x \in s : g[s] = r[x].size + g[s \ {x}]}
<1>1. ASSUME NEW t \in SUBSET S, \A x \in t : t \ {x} \in P PROVE t \in P
  <2> SUFFICES ASSUME NEW x \in t PROVE g[t] = r[x].size + g[t \ {x}]
    OBVIOUS
  <2>1. First(t) \in t /\ g[t] = r[First(t)].size + g[t \ {First(t)}]
    BY FirstIn DEF IsSum, Adds
  <2>2. CASE x = First(t)
    BY <2>1, <2>2
  <2>3. CASE x # First(t)
    <3>1. g[t \ {First(t)}] = r[x].size + g[(t \ {First(t)}) \ {x}]
      BY <1>1, <2>1, <2>3
    <3>2. g[t \ {x}] = r[First(t)].size + g[(t \ {x}) \ {First(t)}]
      BY <1>1, <2>1, <2>3
    <3>3. (t \ {First(t)}) \ {x} = (t \ {x}) \ {First(t)}
      OBVIOUS
    <3>4. /\ r[x].size \in Nat /\ r[First(t)].size \in Nat
          /\ g[(t \ {x}) \ {First(t)}] \in Nat
      BY <2>1 DEF IsSum, Sizes
    <3>5. PICK n \in Nat : n = g[(t \ {x}) \ {First(t)}]
      BY <3>4
    <3>6. g[t] = r[First(t)].size + (r[x].size + n) /\ g[t \ {x}] = r[First(t)].size + n
      BY <2>1, <3>1, <3>2, <3>3, <3>5
    <3>7. QED
      BY <3>4, <3>6
  <2>4. QED
    BY <2>2, <2>3
<1>2. P = SUBSET S
  <2> HIDE DEF P
  <2>1. P \in SUBSET (SUBSET S)
    BY DEF P
  <2>2. QED
    BY <1>1, <2>1, SubsetsAll
<1>3. QED
  BY <1>2

\* Rows with the same sizes have the same sums, whatever larger set the sum was
\* built for.
LEMMA SumsAgree ==
  ASSUME NEW q, NEW T, NEW g, IsSum(q, T, g),
         NEW r, NEW S, IsFiniteSet(S), NEW h, IsSum(r, S, h),
         S \subseteq T, \A d \in S : r[d].size = q[d].size
  PROVE  \A s \in SUBSET S : h[s] = g[s]
<1> DEFINE P == {s \in SUBSET S : h[s] = g[s]}
<1>1. ASSUME NEW t \in SUBSET S, \A x \in t : t \ {x} \in P PROVE t \in P
  <2>1. h[t] = Adds(r, h, t) /\ g[t] = Adds(q, g, t)
    BY DEF IsSum
  <2>2. CASE t = {}
    BY <2>1, <2>2 DEF Adds
  <2>3. CASE t # {}
    <3>1. First(t) \in t /\ First(t) \in S
      BY <2>3, FirstIn
    <3>2. h[t \ {First(t)}] = g[t \ {First(t)}] /\ r[First(t)].size = q[First(t)].size
      BY <1>1, <3>1
    <3>3. QED
      BY <2>1, <2>3, <3>2 DEF Adds
  <2>4. QED
    BY <2>2, <2>3
<1>2. P = SUBSET S
  <2> HIDE DEF P
  <2>1. P \in SUBSET (SUBSET S)
    BY DEF P
  <2>2. QED
    BY <1>1, <2>1, SubsetsAll
<1>3. QED
  BY <1>2

\* The empty sum.
LEMMA SumEmpty == ASSUME NEW r PROVE Sum(r, {}) = 0
<1>1. IsFiniteSet({}) /\ Sizes(r, {})
  BY FS_EmptySet DEF Sizes
<1>2. PICK g : IsSum(r, {}, g) /\ Sum(r, {}) = g[{}]
  BY <1>1, SumIs
<1>3. QED
  BY <1>2 DEF IsSum, Adds

\* A sum is a natural number.
LEMMA SumType ==
  ASSUME NEW r, NEW S, IsFiniteSet(S), Sizes(r, S)
  PROVE  Sum(r, S) \in Nat
<1>1. PICK g : IsSum(r, S, g) /\ Sum(r, S) = g[S]
  BY SumIs
<1>2. QED
  BY <1>1 DEF IsSum

\* The sum depends on the sizes alone.
LEMMA SumSame ==
  ASSUME NEW r, NEW q, NEW S, IsFiniteSet(S), Sizes(r, S),
         \A d \in S : r[d].size = q[d].size
  PROVE  Sum(q, S) = Sum(r, S)
<1>1. Sizes(q, S)
  BY DEF Sizes
<1>2. PICK g : IsSum(r, S, g) /\ Sum(r, S) = g[S]
  BY SumIs
<1>3. PICK h : IsSum(q, S, h) /\ Sum(q, S) = h[S]
  BY <1>1, SumIs
<1>4. h[S] = g[S]
  BY <1>2, <1>3, SumsAgree
<1>5. QED
  BY <1>2, <1>3, <1>4

\* Taking an element away takes its size away.
LEMMA SumWithout ==
  ASSUME NEW r, NEW S, IsFiniteSet(S), Sizes(r, S), NEW x \in S
  PROVE  Sum(r, S) = r[x].size + Sum(r, S \ {x})
<1>1. PICK g : IsSum(r, S, g) /\ Sum(r, S) = g[S]
  BY SumIs
<1>2. IsFiniteSet(S \ {x}) /\ Sizes(r, S \ {x}) /\ S \ {x} \subseteq S
  BY FS_RemoveElement DEF Sizes
<1>3. PICK h : IsSum(r, S \ {x}, h) /\ Sum(r, S \ {x}) = h[S \ {x}]
  BY <1>2, SumIs
<1>4. h[S \ {x}] = g[S \ {x}]
  BY <1>1, <1>2, <1>3, SumsAgree
<1>5. g[S] = r[x].size + g[S \ {x}]
  BY <1>1, AnyFirst
<1>6. QED
  BY <1>1, <1>3, <1>4, <1>5

\* A part has no larger sum than the whole.
LEMMA SumOfPart ==
  ASSUME NEW r, NEW S, IsFiniteSet(S), Sizes(r, S), NEW T \in SUBSET S
  PROVE  Sum(r, T) <= Sum(r, S)
<1>1. PICK g : IsSum(r, S, g) /\ Sum(r, S) = g[S]
  BY SumIs
<1>2. IsFiniteSet(T) /\ Sizes(r, T)
  BY FS_Subset DEF Sizes
<1>3. PICK h : IsSum(r, T, h) /\ Sum(r, T) = h[T]
  BY <1>2, SumIs
<1>4. h[T] = g[T]
  BY <1>1, <1>2, <1>3, SumsAgree
<1>0. \A s \in SUBSET S, x \in S : x \in s => g[s] = r[x].size + g[s \ {x}]
  BY <1>1, AnyFirst
<1> DEFINE P == {s \in SUBSET S : T \subseteq s => g[T] <= g[s]}
<1>5. ASSUME NEW t \in SUBSET S, \A x \in t : t \ {x} \in P PROVE t \in P
  <2> SUFFICES ASSUME T \subseteq t PROVE g[T] <= g[t]
    OBVIOUS
  <2>1. \A s \in SUBSET S : g[s] \in Nat
    BY <1>1 DEF IsSum
  <2>2. CASE T = t
    BY <2>1, <2>2
  <2>3. CASE T # t
    <3>1. PICK x \in t : x \notin T
      BY <2>3
    <3>2. g[T] <= g[t \ {x}]
      BY <1>5, <3>1
    <3>3. g[t] = r[x].size + g[t \ {x}]
      BY <1>0
    <3>4. r[x].size \in Nat
      BY DEF Sizes
    <3>5. PICK n \in Nat : n = g[t \ {x}]
      BY <2>1
    <3>6. PICK m \in Nat : m = g[T]
      BY <2>1
    <3>7. QED
      BY <3>2, <3>3, <3>4, <3>5, <3>6
  <2>4. QED
    BY <2>2, <2>3
<1>6. P = SUBSET S
  <2> HIDE DEF P
  <2>1. P \in SUBSET (SUBSET S)
    BY DEF P
  <2>2. QED
    BY <1>5, <2>1, SubsetsAll
<1>7. g[T] <= g[S]
  BY <1>6
<1>8. QED
  BY <1>1, <1>3, <1>4, <1>7

-----------------------------------------------------------------------------
(* The money: what is used, and what is promised.                          *)

\* The documents that have a reservation, in whatever state.
Made == {d \in Documents : reservation[d].status # "none"}

\* The reservations that hold room at t.
Promised(t) == {d \in Documents : reservation[d].status = "reserved"
                                  /\ reservation[d].expires > t}

\* Only so many documents have been made so far, however many there may be: the
\* sums are over finite sets.
MadeIsFinite == IsFiniteSet(Made)

\* A confirmation that is about to charge charges what its document reserved.
ChargeIsReserved ==
  \A c \in Calls : call[c].pc = "charge" => call[c].size = reservation[call[c].doc].size

\* What is true of the account between any two steps.
MoneyInv ==
  /\ Inv
  /\ MadeIsFinite
  /\ ChargeIsReserved
  /\ UsedIsConfirmed
  /\ RoomIsPromisedOnce

\* The two properties, as sums.
LEMMA AsSums ==
  /\ UsedIsConfirmed <=> used = Sum(reservation, Confirmed)
  /\ RoomIsPromisedOnce <=> (used + Sum(reservation, Promised(clock)) <= quota \/ excused)
  /\ \A t : activeReservedBytes(t) = Sum(reservation, Promised(t))
<1>1. \A t : activeReservedBytes(t) = Sum(reservation, Promised(t))
  BY Zenon DEF activeReservedBytes, Sum, Promised
<1>2. UsedIsConfirmed <=> used = Sum(reservation, Confirmed)
  BY Zenon DEF UsedIsConfirmed, Sum
<1>3. RoomIsPromisedOnce <=> (used + Sum(reservation, Promised(clock)) <= quota \/ excused)
  BY <1>1, Zenon DEF RoomIsPromisedOnce
<1> QED
  BY <1>1, <1>2, <1>3

\* The sets the sums are over are finite, and their rows have sizes.
LEMMA SumsAreFinite ==
  ASSUME TypeOK, MadeIsFinite
  PROVE  /\ IsFiniteSet(Confirmed) /\ Sizes(reservation, Confirmed)
         /\ \A t : IsFiniteSet(Promised(t)) /\ Sizes(reservation, Promised(t))
<1>1. \A d \in Documents : reservation[d].size \in Nat
  BY DEF TypeOK, Reservation
<1>2. Confirmed \subseteq Made /\ \A t : Promised(t) \subseteq Made
  BY DEF Confirmed, Promised, Made
<1>3. IsFiniteSet(Confirmed) /\ \A t : IsFiniteSet(Promised(t))
  BY <1>2, FS_Subset, Zenon DEF MadeIsFinite
<1>4. Sizes(reservation, Confirmed)
  BY <1>1 DEF Sizes, Confirmed
<1>5. \A t : Sizes(reservation, Promised(t))
  BY <1>1 DEF Sizes, Promised
<1> QED
  BY <1>3, <1>4, <1>5

\* Which steps touch the money at all.
LEMMA MoneyMoves ==
  ASSUME [Next]_vars
  PROVE  \/ \E d \in Documents, size \in DeclaredSizes, t \in 0..clock :
              CreateDocument(d, size, t)
         \/ \E c \in Calls : ChargeAccount(c)
         \/ \E s \in Sweeps : ExpireUploadReservations(s)
         \/ \E q \in Quotas : ApplyBillingEvent(q)
         \/ Tick
         \/ UNCHANGED <<clock, used, quota, reservation, excused>>
BY DEF Next, vars, Upload, GetObjectMetadata, LockReservation, DeleteRefusedObject, CallEnds,
       SweepEnds, DeleteExpiredObject

\* A creation makes one document more, a confirmation and a sweep none.
LEMMA MadeStep ==
  ASSUME Inv, MadeIsFinite, [Next]_vars
  PROVE  MadeIsFinite'
<1> USE DEF Inv, TypeOK, Reservation
<1>1. ASSUME NEW d \in Documents, NEW size \in DeclaredSizes, NEW t \in 0..clock,
             CreateDocument(d, size, t)
      PROVE MadeIsFinite'
  <2>1. Made' \subseteq Made \cup {d}
    BY <1>1 DEF CreateDocument, Made
  <2>2. IsFiniteSet(Made \cup {d})
    BY FS_AddElement DEF MadeIsFinite
  <2> QED
    BY <2>1, <2>2, FS_Subset DEF MadeIsFinite
<1>2. ASSUME NEW c \in Calls, ChargeAccount(c)
      PROVE MadeIsFinite'
  <2>1. reservation[call[c].doc].status = "reserved"
    BY <1>2 DEF ChargeAccount, LockedIsReserved
  <2>2. \A d \in Documents : reservation'[d].status # "none" => reservation[d].status # "none"
    BY <1>2, <2>1 DEF ChargeAccount
  <2>3. Made' \subseteq Made
    BY <2>2 DEF Made
  <2> QED
    BY <2>3, FS_Subset DEF MadeIsFinite
<1>3. ASSUME NEW s \in Sweeps, ExpireUploadReservations(s)
      PROVE MadeIsFinite'
  <2>1. \A d \in Documents : reservation'[d].status # "none" => reservation[d].status # "none"
    BY <1>3 DEF ExpireUploadReservations, Expirable
  <2>2. Made' \subseteq Made
    BY <2>1 DEF Made
  <2> QED
    BY <2>2, FS_Subset DEF MadeIsFinite
<1>4. CASE UNCHANGED reservation
  BY <1>4 DEF MadeIsFinite, Made
<1> QED
  BY <1>1, <1>2, <1>3, <1>4, MoneyMoves DEF ApplyBillingEvent, Tick

\* A call is about to charge what it found reserved; nobody changes the size of
\* a reservation that is made.
LEMMA ChargeStep ==
  ASSUME Inv, ChargeIsReserved, [Next]_vars
  PROVE  ChargeIsReserved'
<1> USE DEF Inv, TypeOK, Reservation, Call
<1> DEFINE SizesStay ==
             \A d \in Documents :
               reservation[d].status = "reserved" => reservation'[d].size = reservation[d].size
           Stays ==
             \A c \in Calls :
               call'[c].pc = "charge" =>
                 /\ call[c].pc \in {"confirm", "charge"}
                 /\ call'[c].doc = call[c].doc /\ call'[c].size = call[c].size
                 /\ reservation[call[c].doc].status = "reserved"
                 /\ call[c].size = reservation[call[c].doc].size
<1>1. SizesStay
  <2>1. ASSUME NEW d \in Documents, NEW size \in DeclaredSizes, NEW t \in 0..clock,
               CreateDocument(d, size, t)
        PROVE SizesStay
    BY <2>1 DEF CreateDocument
  <2>2. ASSUME NEW c \in Calls, ChargeAccount(c)
        PROVE SizesStay
    BY <2>2 DEF ChargeAccount
  <2>3. ASSUME NEW s \in Sweeps, ExpireUploadReservations(s)
        PROVE SizesStay
    BY <2>3 DEF ExpireUploadReservations
  <2>4. CASE UNCHANGED reservation
    BY <2>4
  <2> HIDE DEF SizesStay
  <2> QED
    BY <2>1, <2>2, <2>3, <2>4, MoneyMoves DEF ApplyBillingEvent, Tick
<1>2. Stays
  <2>1. ASSUME NEW c \in Calls, NEW d \in Documents, GetObjectMetadata(c, d)
        PROVE Stays
    BY <2>1 DEF GetObjectMetadata, LockedIsReserved, ChargeIsReserved
  <2>2. ASSUME NEW c \in Calls, LockReservation(c)
        PROVE Stays
    BY <2>2 DEF LockReservation, Return, NoCall, LockedIsReserved, ChargeIsReserved
  <2>3. ASSUME NEW c \in Calls, call' = [call EXCEPT ![c] = NoCall]
        PROVE Stays
    BY <2>3 DEF NoCall, LockedIsReserved, ChargeIsReserved
  <2>4. CASE UNCHANGED call
    BY <2>4 DEF LockedIsReserved, ChargeIsReserved
  <2> HIDE DEF Stays
  <2> QED
    BY <2>1, <2>2, <2>3, <2>4
    DEF Next, vars, CreateDocument, Upload, ChargeAccount, DeleteRefusedObject, CallEnds, Return,
        ExpireUploadReservations, SweepEnds, DeleteExpiredObject, ApplyBillingEvent, Tick
<1>3. \A c \in Calls : call[c].pc \in {"confirm", "charge"} => call[c].doc \in Documents
  BY DEF CallsHaveDocuments
<1> QED
  BY <1>1, <1>2, <1>3 DEF ChargeIsReserved

\* What is used and confirmed stays so while these variables do.
LEMMA UsedUnchanged ==
  ASSUME UsedIsConfirmed, UNCHANGED <<used, reservation>>
  PROVE  UsedIsConfirmed'
<1>1. used = Sum(reservation, Confirmed)
  BY AsSums
<1>2. (UsedIsConfirmed <=> used = Sum(reservation, Confirmed))'
  BY AsSums, PTL
<1>3. Confirmed' = Confirmed
  BY DEF Confirmed
<1> QED
  BY <1>1, <1>2, <1>3

\* And room is promised once while these do.
LEMMA RoomUnchanged ==
  ASSUME RoomIsPromisedOnce, UNCHANGED <<clock, used, quota, reservation, excused>>
  PROVE  RoomIsPromisedOnce'
<1>1. used + Sum(reservation, Promised(clock)) <= quota \/ excused
  BY AsSums, Zenon
<1>2. (RoomIsPromisedOnce <=>
         (used + Sum(reservation, Promised(clock)) <= quota \/ excused))'
  BY AsSums, PTL
<1>3. Promised(clock)' = Promised(clock)
  BY DEF Promised
<1> QED
  BY <1>1, <1>2, <1>3

\* What a creation promises fits beside what is promised already: it looks at
\* the reservations no later than it makes its own, and those that expire in
\* between count too.
LEMMA CreateKeepsMoney ==
  ASSUME MoneyInv, TypeOK', MadeIsFinite', NEW d \in Documents, NEW size \in DeclaredSizes,
         NEW t \in 0..clock, CreateDocument(d, size, t)
  PROVE  UsedIsConfirmed' /\ RoomIsPromisedOnce'
<1> DEFINE P == Promised(clock)
           Q == P \cup {d}
<1>1. /\ reservation[d].status = "none"
      /\ reservation'[d] = [status |-> "reserved", size |-> size, expires |-> t + ReservationTTL]
      /\ \A e \in Documents : e # d => reservation'[e] = reservation[e]
      /\ UNCHANGED <<clock, used, quota, excused>>
  BY DEF CreateDocument, MoneyInv, Inv, TypeOK
<1>2. used + Sum(reservation, Promised(t)) + size <= quota
  BY AsSums, Zenon DEF CreateDocument
<1>3. clock \in Nat /\ t \in Int /\ t <= clock /\ used \in Nat /\ quota \in Nat /\ size \in Nat
  BY SizesAssumption DEF MoneyInv, Inv, TypeOK
<1>4. /\ IsFiniteSet(Confirmed) /\ Sizes(reservation, Confirmed)
      /\ IsFiniteSet(P) /\ Sizes(reservation, P)
      /\ IsFiniteSet(Promised(t)) /\ Sizes(reservation, Promised(t))
  BY SumsAreFinite DEF MoneyInv, Inv
<1>5. UsedIsConfirmed'
  <2>1. Confirmed' = Confirmed /\ \A e \in Confirmed : reservation[e].size = reservation'[e].size
    BY <1>1 DEF Confirmed
  <2>2. Sum(reservation', Confirmed) = Sum(reservation, Confirmed)
    BY <1>4, <2>1, SumSame
  <2>3. used = Sum(reservation, Confirmed)
    BY AsSums DEF MoneyInv
  <2>4. (UsedIsConfirmed <=> used = Sum(reservation, Confirmed))'
    BY AsSums, PTL
  <2> QED
    BY <1>1, <2>1, <2>2, <2>3, <2>4
<1>6. Promised(clock)' \subseteq Q /\ P \subseteq Promised(t) /\ d \notin P
  <2>1. Promised(clock)' \subseteq Q
    BY <1>1 DEF Promised
  <2>2. \A e \in Documents : reservation[e].expires \in Nat
    BY DEF MoneyInv, Inv, TypeOK, Reservation
  <2>3. P \subseteq Promised(t)
    BY <1>3, <2>2 DEF Promised
  <2>4. d \notin P
    BY <1>1 DEF Promised
  <2> QED
    BY <2>1, <2>3, <2>4
<1>7. \A e \in P : reservation[e].size = reservation'[e].size
  BY <1>1, <1>6 DEF Promised
<1>8. IsFiniteSet(Q) /\ Sizes(reservation', Q)
  <2>1. IsFiniteSet(Q)
    BY <1>4, FS_AddElement
  <2>2. Sizes(reservation', Q)
    BY <1>1, <1>3, <1>4, <1>7 DEF Sizes
  <2> QED
    BY <2>1, <2>2
<1> HIDE DEF P
<1>9. Sum(reservation', Q) = size + Sum(reservation, P)
  <2>1. Q \ {d} = P /\ reservation'[d].size = size
    BY <1>1, <1>6
  <2>2. Sum(reservation', Q) = reservation'[d].size + Sum(reservation', Q \ {d})
    BY <1>8, SumWithout
  <2>3. Sum(reservation', P) = Sum(reservation, P)
    BY <1>4, <1>7, SumSame
  <2> QED
    BY <2>1, <2>2, <2>3
<1>10. Sum(reservation, P) <= Sum(reservation, Promised(t))
  BY <1>4, <1>6, SumOfPart
<1>11. Sum(reservation', Promised(clock)') <= Sum(reservation', Q)
  BY <1>6, <1>8, SumOfPart
<1>12. /\ Sum(reservation, P) \in Nat /\ Sum(reservation, Promised(t)) \in Nat
       /\ Sum(reservation', Q) \in Nat /\ Sum(reservation', Promised(clock)') \in Nat
  <2>1. IsFiniteSet(Promised(clock)') /\ Sizes(reservation', Promised(clock)')
    BY <1>6, <1>8, FS_Subset DEF Sizes
  <2> QED
    BY <1>4, <1>8, <2>1, SumType
<1>13. used + Sum(reservation', Promised(clock)') <= quota
  <2>1. PICK a \in Nat : a = Sum(reservation, P)
    BY <1>12
  <2>2. PICK b \in Nat : b = Sum(reservation, Promised(t))
    BY <1>12
  <2>3. PICK p \in Nat : p = Sum(reservation', Promised(clock)')
    BY <1>12
  <2>4. p <= size + a /\ a <= b /\ used + b + size <= quota
    BY <1>2, <1>9, <1>10, <1>11, <2>1, <2>2, <2>3
  <2>5. used + p <= quota
    BY <1>3, <2>4
  <2> QED
    BY <2>3, <2>5
<1>14. (RoomIsPromisedOnce <=>
          (used + Sum(reservation, Promised(clock)) <= quota \/ excused))'
  BY AsSums, PTL
<1>15. RoomIsPromisedOnce'
  BY <1>1, <1>13, <1>14
<1> QED
  BY <1>5, <1>15

\* A charge moves the size of a reservation from what is promised to what is
\* used, or is refused; when the reservation no longer held the room, the step
\* says so.
LEMMA ChargeKeepsMoney ==
  ASSUME MoneyInv, NEW c \in Calls, ChargeAccount(c)
  PROVE  UsedIsConfirmed' /\ RoomIsPromisedOnce'
<1> DEFINE d == call[c].doc
           n == call[c].size
<1>1. /\ d \in Documents /\ n \in Nat /\ n = reservation[d].size
      /\ reservation[d].status = "reserved"
      /\ clock \in Nat /\ used \in Nat /\ quota \in Nat
  BY SizesAssumption
  DEF ChargeAccount, MoneyInv, Inv, CallsHaveDocuments, LockedIsReserved, ChargeIsReserved,
      TypeOK, Call
<1>2. /\ IsFiniteSet(Confirmed) /\ Sizes(reservation, Confirmed)
      /\ IsFiniteSet(Promised(clock)) /\ Sizes(reservation, Promised(clock))
  BY SumsAreFinite DEF MoneyInv, Inv
<1>3. CASE UNCHANGED <<used, reservation, excused>>
  <2>1. UNCHANGED <<clock, quota>>
    BY DEF ChargeAccount
  <2> QED
    BY <1>3, <2>1, UsedUnchanged, RoomUnchanged DEF MoneyInv
<1>4. CASE /\ used' = used + n
           /\ reservation' = [reservation EXCEPT ![d].status = "confirmed"]
           /\ excused' = (excused \/ reservation[d].expires <= clock)
  <2>1. /\ reservation'[d].status = "confirmed"
        /\ \A e \in Documents : e # d => reservation'[e] = reservation[e]
        /\ \A e \in Documents : reservation'[e].size = reservation[e].size
    BY <1>1, <1>4 DEF MoneyInv, Inv, TypeOK, Reservation
  <2>2. UNCHANGED <<clock, quota>>
    BY DEF ChargeAccount
  <2>3. used' = used + n
    BY <1>4
  <2>4. excused' <=> excused \/ reservation[d].expires <= clock
    BY <1>4, Zenon
  <2> HIDE DEF d, n
  <2>5. UsedIsConfirmed'
    <3>1. Confirmed' = Confirmed \cup {d} /\ d \notin Confirmed
      BY <1>1, <2>1 DEF Confirmed
    <3>2. IsFiniteSet(Confirmed') /\ Sizes(reservation', Confirmed')
      <4>1. IsFiniteSet(Confirmed')
        BY <1>2, <3>1, FS_AddElement
      <4>2. Sizes(reservation', Confirmed')
        BY <1>1, <1>2, <2>1, <3>1 DEF Sizes, Confirmed
      <4> QED
        BY <4>1, <4>2
    <3>3. Sum(reservation', Confirmed') = reservation'[d].size + Sum(reservation', Confirmed' \ {d})
      BY <3>1, <3>2, SumWithout
    <3>4. Confirmed' \ {d} = Confirmed
      BY <3>1
    <3>5. Sum(reservation', Confirmed) = Sum(reservation, Confirmed)
      <4>1. \A e \in Confirmed : reservation[e].size = reservation'[e].size
        BY <2>1 DEF Confirmed
      <4> QED
        BY <1>2, <4>1, SumSame
    <3>6. reservation'[d].size = n
      BY <1>1, <2>1
    <3>7. used = Sum(reservation, Confirmed)
      BY AsSums DEF MoneyInv
    <3>8. Sum(reservation', Confirmed') = n + used
      BY <3>3, <3>4, <3>5, <3>6, <3>7
    <3>9. (UsedIsConfirmed <=> used = Sum(reservation, Confirmed))'
      BY AsSums, PTL
    <3> QED
      BY <1>1, <2>3, <3>8, <3>9
  <2>6. RoomIsPromisedOnce'
    <3>1. (RoomIsPromisedOnce <=>
             (used + Sum(reservation, Promised(clock)) <= quota \/ excused))'
      BY AsSums, PTL
    <3>2. CASE excused'
      BY <3>1, <3>2
    <3>3. CASE ~excused'
      <4>1. ~excused /\ reservation[d].expires > clock
        <5>1. reservation[d].expires \in Nat
          BY <1>1 DEF MoneyInv, Inv, TypeOK, Reservation
        <5>2. ~excused /\ ~(reservation[d].expires <= clock)
          BY <2>4, <3>3, Zenon
        <5> QED
          BY <1>1, <5>1, <5>2
      <4>2. used + Sum(reservation, Promised(clock)) <= quota
        BY <4>1, AsSums, Zenon DEF MoneyInv
      <4>3. d \in Promised(clock) /\ Promised(clock)' = Promised(clock) \ {d}
        BY <1>1, <2>1, <2>2, <4>1 DEF Promised
      <4>4. Sum(reservation, Promised(clock)) = n + Sum(reservation, Promised(clock) \ {d})
        BY <1>1, <1>2, <4>3, SumWithout
      <4>5. /\ IsFiniteSet(Promised(clock) \ {d})
            /\ Sizes(reservation, Promised(clock) \ {d})
        BY <1>2, FS_RemoveElement DEF Sizes
      <4>6. Sum(reservation', Promised(clock) \ {d}) = Sum(reservation, Promised(clock) \ {d})
        <5>1. \A e \in Promised(clock) \ {d} : reservation[e].size = reservation'[e].size
          BY <2>1 DEF Promised
        <5> QED
          BY <4>5, <5>1, SumSame
      <4>7. PICK m \in Nat : m = Sum(reservation, Promised(clock) \ {d})
        BY <4>5, SumType
      <4>8. used + (n + m) <= quota
        BY <4>2, <4>4, <4>7
      <4>9. (used + n) + m <= quota
        BY <1>1, <4>8
      <4> QED
        BY <2>2, <2>3, <3>1, <4>3, <4>6, <4>7, <4>9
    <3> QED
      BY <3>2, <3>3
  <2> QED
    BY <2>5, <2>6
<1> HIDE DEF d, n
<1>5. \/ UNCHANGED <<used, reservation, excused>>
      \/ /\ used' = used + n
         /\ reservation' = [reservation EXCEPT ![d].status = "confirmed"]
         /\ excused' = (excused \/ reservation[d].expires <= clock)
  BY Zenon DEF ChargeAccount, d, n
<1> QED
  BY <1>3, <1>4, <1>5

\* A sweep takes reservations that hold no room any more.
LEMMA ExpireKeepsMoney ==
  ASSUME MoneyInv, NEW s \in Sweeps, ExpireUploadReservations(s)
  PROVE  UsedIsConfirmed' /\ RoomIsPromisedOnce'
<1>1. /\ \A d \in Documents :
           \/ reservation'[d] = reservation[d]
           \/ /\ reservation[d].status = "reserved" /\ reservation[d].expires <= clock
              /\ reservation'[d].status = "expired"
      /\ \A d \in Documents : reservation'[d].size = reservation[d].size
  BY DEF ExpireUploadReservations, Expirable, MoneyInv, Inv, TypeOK, Reservation
<1>2. UNCHANGED <<clock, used, quota, excused>>
  BY DEF ExpireUploadReservations
<1>3. /\ IsFiniteSet(Confirmed) /\ Sizes(reservation, Confirmed)
      /\ IsFiniteSet(Promised(clock)) /\ Sizes(reservation, Promised(clock))
  BY SumsAreFinite DEF MoneyInv, Inv
<1>4. clock \in Nat /\ \A d \in Documents : reservation[d].expires \in Nat
  BY DEF MoneyInv, Inv, TypeOK, Reservation
<1>5. Confirmed' = Confirmed
  BY <1>1 DEF Confirmed
<1>6. Promised(clock)' = Promised(clock)
  BY <1>1, <1>2, <1>4 DEF Promised
<1>7. Sum(reservation', Confirmed) = Sum(reservation, Confirmed)
  <2>1. \A e \in Confirmed : reservation[e].size = reservation'[e].size
    BY <1>1 DEF Confirmed
  <2> QED
    BY <1>3, <2>1, SumSame
<1>8. Sum(reservation', Promised(clock)) = Sum(reservation, Promised(clock))
  <2>1. \A e \in Promised(clock) : reservation[e].size = reservation'[e].size
    BY <1>1 DEF Promised
  <2> QED
    BY <1>3, <2>1, SumSame
<1>9. (/\ UsedIsConfirmed <=> used = Sum(reservation, Confirmed)
       /\ RoomIsPromisedOnce <=>
            (used + Sum(reservation, Promised(clock)) <= quota \/ excused))'
  BY AsSums, PTL
<1>10. /\ used = Sum(reservation, Confirmed)
       /\ used + Sum(reservation, Promised(clock)) <= quota \/ excused
  BY AsSums, Zenon DEF MoneyInv
<1>11. UsedIsConfirmed'
  BY <1>2, <1>5, <1>7, <1>9, <1>10
<1>12. RoomIsPromisedOnce'
  BY <1>2, <1>6, <1>8, <1>9, <1>10
<1> QED
  BY <1>11, <1>12

\* Time passes: reservations stop holding room.
LEMMA TickKeepsMoney ==
  ASSUME MoneyInv, Tick
  PROVE  UsedIsConfirmed' /\ RoomIsPromisedOnce'
<1>1. UNCHANGED <<used, quota, reservation, excused>> /\ clock' = clock + 1
  BY DEF Tick
<1>2. /\ clock \in Nat /\ used \in Nat /\ quota \in Nat
      /\ \A d \in Documents : reservation[d].expires \in Nat
  BY SizesAssumption DEF MoneyInv, Inv, TypeOK, Reservation
<1>3. IsFiniteSet(Promised(clock)) /\ Sizes(reservation, Promised(clock))
  BY SumsAreFinite DEF MoneyInv, Inv
<1>4. UsedIsConfirmed'
  BY <1>1, UsedUnchanged DEF MoneyInv
<1>5. Promised(clock)' \subseteq Promised(clock)
  BY <1>1, <1>2 DEF Promised
<1>6. /\ IsFiniteSet(Promised(clock)') /\ Sizes(reservation, Promised(clock)')
      /\ Sum(reservation, Promised(clock)') <= Sum(reservation, Promised(clock))
  BY <1>3, <1>5, FS_Subset, SumOfPart DEF Sizes
<1>7. (RoomIsPromisedOnce <=>
         (used + Sum(reservation, Promised(clock)) <= quota \/ excused))'
  BY AsSums, PTL
<1>8. used + Sum(reservation, Promised(clock)) <= quota \/ excused
  BY AsSums, Zenon DEF MoneyInv
<1>9. PICK a \in Nat : a = Sum(reservation, Promised(clock))
  BY <1>3, SumType
<1>10. PICK b \in Nat : b = Sum(reservation, Promised(clock)')
  BY <1>6, SumType
<1>11. b <= a
  BY <1>6, <1>9, <1>10
<1>12. CASE used + Sum(reservation, Promised(clock)) <= quota
  <2>1. used + a <= quota
    BY <1>9, <1>12
  <2>2. used + b <= quota
    BY <1>2, <1>11, <2>1
  <2> QED
    BY <1>1, <1>4, <1>7, <1>10, <2>2
<1>13. CASE excused
  BY <1>1, <1>4, <1>7, <1>13
<1> QED
  BY <1>8, <1>12, <1>13

\* The money, step by step.
LEMMA MoneyStep == MoneyInv /\ [Next]_vars => MoneyInv'
<1> SUFFICES ASSUME MoneyInv, [Next]_vars PROVE MoneyInv'
  OBVIOUS
<1>1. Inv'
  BY TypeStep, LockStep, ObjectStep DEF Inv, MoneyInv
<1>2. MadeIsFinite'
  BY MadeStep DEF MoneyInv
<1>3. ChargeIsReserved'
  BY ChargeStep DEF MoneyInv
<1>4. UsedIsConfirmed' /\ RoomIsPromisedOnce'
  <2>1. ASSUME NEW d \in Documents, NEW size \in DeclaredSizes, NEW t \in 0..clock,
               CreateDocument(d, size, t)
        PROVE UsedIsConfirmed' /\ RoomIsPromisedOnce'
    <3>1. TypeOK'
      BY <1>1 DEF Inv
    <3> QED
      BY <1>2, <2>1, <3>1, CreateKeepsMoney
  <2>2. ASSUME NEW q \in Quotas, ApplyBillingEvent(q)
        PROVE UsedIsConfirmed' /\ RoomIsPromisedOnce'
    <3>1. UsedIsConfirmed'
      BY <2>2, UsedUnchanged DEF ApplyBillingEvent, MoneyInv
    <3>2. excused'
      BY <2>2 DEF ApplyBillingEvent
    <3> QED
      BY <3>1, <3>2 DEF RoomIsPromisedOnce
  <2>3. CASE UNCHANGED <<clock, used, quota, reservation, excused>>
    BY <2>3, UsedUnchanged, RoomUnchanged DEF MoneyInv
  <2> QED
    BY <2>1, <2>2, <2>3, MoneyMoves, ChargeKeepsMoney, ExpireKeepsMoney, TickKeepsMoney, Zenon
<1> QED
  BY <1>1, <1>2, <1>3, <1>4 DEF MoneyInv

\* Nothing is made, used or promised at first.
LEMMA InitMoney == Init => MoneyInv
<1> SUFFICES ASSUME Init PROVE MoneyInv
  OBVIOUS
<1>1. \A d \in Documents : reservation[d].status = "none"
  BY DEF Init, NoReservation
<1>2. Made = {} /\ Confirmed = {} /\ Promised(clock) = {}
  BY <1>1 DEF Made, Confirmed, Promised
<1>3. MadeIsFinite
  BY <1>2, FS_EmptySet DEF MadeIsFinite
<1>4. ChargeIsReserved
  BY DEF Init, NoCall, ChargeIsReserved
<1>5. UsedIsConfirmed
  <2>1. used = 0
    BY DEF Init
  <2> QED
    BY <1>2, <2>1, AsSums, SumEmpty
<1>6. RoomIsPromisedOnce
  <2>1. used = 0 /\ quota \in Nat
    BY SizesAssumption DEF Init
  <2>2. used + Sum(reservation, Promised(clock)) <= quota
    BY <1>2, <2>1, SumEmpty
  <2> QED
    BY <2>2, AsSums
<1> QED
  BY <1>3, <1>4, <1>5, <1>6, InitInv DEF MoneyInv

\* The account is charged for exactly the confirmed documents, each once: by
\* induction on the steps, with what sums over finite sets do.
THEOREM UsedIsWhatIsConfirmed == Spec => []UsedIsConfirmed
<1>1. MoneyInv => UsedIsConfirmed
  BY DEF MoneyInv
<1> QED
  BY <1>1, MoneyStep, InitMoney, PTL DEF Spec

\* Room in the quota is promised once: what is used and what is reserved fit
\* together, except as RoomIsPromisedOnce says.
THEOREM RoomIsNotPromisedTwice == Spec => []RoomIsPromisedOnce
<1>1. MoneyInv => RoomIsPromisedOnce
  BY DEF MoneyInv
<1> QED
  BY <1>1, MoneyStep, InitMoney, PTL DEF Spec

=============================================================================
