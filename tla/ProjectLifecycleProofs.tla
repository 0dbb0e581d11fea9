----------------------- MODULE ProjectLifecycleProofs -----------------------
(***************************************************************************)
(* What ProjectLifecycle guarantees for any number of handlers, uploads    *)
(* and backups.                                                            *)
(***************************************************************************)
EXTENDS ProjectLifecycle, TLAPS

USE DEF history

-----------------------------------------------------------------------------
(***************************************************************************)
(* Type correctness.  That a copy goes to a bucket that exists is part of  *)
(* the induction: the handler's own stamp names it, and backups stay.      *)
(***************************************************************************)
StampInv ==
    \A d \in Deleters : delete[d].call \notin {"idle", "backup"} =>
        delete[d].stamp \in Stamps /\ backups[delete[d].stamp] # NoBucket

TypeInv == TypeOK /\ StampInv

LEMMA InitType == Init => TypeInv
<1> SUFFICES ASSUME Init PROVE TypeInv
  OBVIOUS
<1>1. NotDeleting \in Deletion /\ NotDeleting.call = "idle"
  BY DEF NotDeleting, Deletion
<1> QED  BY <1>1 DEF Init, TypeInv, TypeOK, StampInv, Contents

LEMMA CreatorType ==
    ASSUME TypeInv, NEW c \in Creators,
           \/ CreateKDLProjectCR(c) \/ CreateBucket(c) \/ CreateProjectDirs(c)
           \/ InsertProject(c) \/ CreateRefused(c) \/ CreateFails(c)
    PROVE  TypeInv'
<1> USE DEF TypeInv, TypeOK, StampInv, Contents, CreateCalls
<1>1. CASE CreateKDLProjectCR(c)
  BY <1>1 DEF CreateKDLProjectCR, CreateStep
<1>2. CASE CreateBucket(c)
  BY <1>2 DEF CreateBucket, CreateStep
<1>3. CASE CreateProjectDirs(c)
  BY <1>3 DEF CreateProjectDirs, CreateStep
<1>4. CASE InsertProject(c)
  BY <1>4 DEF InsertProject, CreateStep
<1>5. CASE CreateRefused(c)
  BY <1>5 DEF CreateRefused, CreateStep
<1>6. CASE CreateFails(c)
  BY <1>6 DEF CreateFails
<1> QED  BY <1>1, <1>2, <1>3, <1>4, <1>5, <1>6

\* What a deletion may become: idle, or at a later call with the same stamp.
LEMMA DeletionMoves ==
    ASSUME TypeInv, NEW d \in Deleters, NEW new \in Deletion,
           delete' = [delete EXCEPT ![d] = new],
           new.call \in {"idle", "backup"}
             \/ (delete[d].call \notin {"idle", "backup"} /\ new.stamp = delete[d].stamp),
           UNCHANGED backups
    PROVE  delete' \in [Deleters -> Deletion] /\ StampInv'
<1> USE DEF TypeInv, TypeOK
<1>1. delete' \in [Deleters -> Deletion]
  OBVIOUS
<1>2. delete'[d] = new /\ \A e \in Deleters \ {d} : delete'[e] = delete[e]
  OBVIOUS
<1>3. ASSUME NEW e \in Deleters, delete'[e].call \notin {"idle", "backup"}
      PROVE  delete'[e].stamp \in Stamps /\ backups'[delete'[e].stamp] # NoBucket
  <2>1. CASE e = d
    BY <1>2, <1>3, <2>1 DEF StampInv
  <2>2. CASE e # d
    BY <1>2, <1>3, <2>2 DEF StampInv
  <2> QED  BY <2>1, <2>2
<1> QED  BY <1>1, <1>3 DEF StampInv

LEMMA DeleterType ==
    ASSUME TypeInv, NEW d \in Deleters,
           \/ StartDelete(d) \/ ListObjects(d) \/ RemoveBucket(d)
           \/ DeleteKDLProjectCR(d) \/ DeleteOne(d) \/ RecordActivity(d)
           \/ DeleteRefused(d) \/ DeleteFails(d)
    PROVE  TypeInv'
<1> DEFINE At(call) == [delete[d] EXCEPT !.call = call]
<1>1. delete[d] \in Deletion /\ delete \in [Deleters -> Deletion]
  BY DEF TypeInv, TypeOK
<1>2. \A call \in DeleteCalls : At(call) \in Deletion
                               /\ At(call).call = call /\ At(call).stamp = delete[d].stamp
  BY <1>1 DEF Deletion
<1>3. ASSUME NEW from \in DeleteCalls, NEW to \in DeleteCalls \ {"backup"}, from # "backup",
             DeleteStep(d, from, to), UNCHANGED backups
      PROVE  delete' \in [Deleters -> Deletion] /\ StampInv'
  <2>1. delete' = [delete EXCEPT ![d] = At(to)] /\ delete[d].call = from
    BY <1>1, <1>3 DEF DeleteStep
  <2> HIDE DEF At
  <2> QED  BY <1>2, <1>3, <2>1, DeletionMoves DEF DeleteCalls
<1>4. ASSUME DeleteEnds(d), UNCHANGED backups
      PROVE  delete' \in [Deleters -> Deletion] /\ StampInv'
  <2>1. NotDeleting \in Deletion /\ NotDeleting.call = "idle"
    BY DEF NotDeleting, Deletion
  <2> QED  BY <1>4, <2>1, DeletionMoves DEF DeleteEnds
<1> USE DEF DeleteCalls
<1>5. CASE StartDelete(d)
  <2>1. delete' = [delete EXCEPT ![d] = At("backup")] /\ UNCHANGED backups
    BY <1>1, <1>5 DEF StartDelete, DeleteStep
  <2> HIDE DEF At
  <2>2. delete' \in [Deleters -> Deletion] /\ StampInv'
    BY <1>2, <2>1, DeletionMoves
  <2> QED  BY <1>5, <2>2 DEF StartDelete, TypeInv, TypeOK
<1>6. CASE ListObjects(d)
  <2> DEFINE new == [delete[d] EXCEPT !.call = "copy", !.todo = bucket]
  <2>1. bucket \in SUBSET Objects
    BY <1>6 DEF ListObjects, TypeInv, TypeOK, Contents
  <2>2. new \in Deletion /\ new.call = "copy" /\ new.stamp = delete[d].stamp
    BY <1>1, <2>1 DEF Deletion
  <2>3. delete' = [delete EXCEPT ![d] = new] /\ UNCHANGED backups /\ delete[d].call = "list"
    BY <1>6 DEF ListObjects
  <2> HIDE DEF new
  <2>4. delete' \in [Deleters -> Deletion] /\ StampInv'
    BY <2>2, <2>3, DeletionMoves
  <2> QED  BY <1>6, <2>4 DEF ListObjects, TypeInv, TypeOK
<1>7. CASE RemoveBucket(d)
  BY <1>3, <1>7 DEF RemoveBucket, TypeInv, TypeOK, Contents
<1>8. CASE DeleteKDLProjectCR(d)
  BY <1>3, <1>8 DEF DeleteKDLProjectCR, TypeInv, TypeOK
<1>9. CASE DeleteOne(d)
  BY <1>3, <1>9 DEF DeleteOne, TypeInv, TypeOK
<1>10. CASE RecordActivity(d)
  <2>1. delete[d].stamp \in Stamps
    BY <1>10 DEF RecordActivity, TypeInv, StampInv
  <2> QED  BY <1>4, <1>10, <2>1 DEF RecordActivity, TypeInv, TypeOK
<1>11. CASE DeleteRefused(d)
  BY <1>4, <1>11 DEF DeleteRefused, TypeInv, TypeOK
<1>12. CASE DeleteFails(d)
  BY <1>4, <1>12 DEF DeleteFails, TypeInv, TypeOK
<1> QED  BY <1>5, <1>6, <1>7, <1>8, <1>9, <1>10, <1>11, <1>12

LEMMA ListingType ==
    ASSUME NEW r \in Deletion, NEW s \in Stamps
    PROVE  LET new == [r EXCEPT !.call = "list", !.stamp = s] IN
           new \in Deletion /\ new.call = "list" /\ new.stamp = s
BY DEF Deletion, DeleteCalls

LEMMA BackupType ==
    ASSUME TypeInv, NEW d \in Deleters, NEW s \in Stamps, CreateBackup(d, s)
    PROVE  TypeInv'
<1> USE DEF TypeInv, TypeOK, Contents, DeleteCalls, Deletion, CreateBackup
<1> DEFINE new == [delete[d] EXCEPT !.call = "list", !.stamp = s]
<1>a. new \in Deletion /\ new.call = "list" /\ new.stamp = s
  <2> HIDE DEF Deletion, CreateBackup, DeleteCalls
  <2> QED  BY ListingType
<1>b. delete' = [delete EXCEPT ![d] = new]
  OBVIOUS
<1> HIDE DEF new
<1>1. backups' \in [Stamps -> Contents] /\ delete' \in [Deleters -> Deletion]
  BY <1>a, <1>b
<1>2. {} # NoBucket
  BY DEF NoBucket
<1>3. \A t \in Stamps : backups[t] # NoBucket => backups'[t] # NoBucket
  BY <1>2
<1>4. StampInv'
  BY <1>a, <1>b, <1>2, <1>3 DEF StampInv
<1> QED  BY <1>1, <1>4

LEMMA CopyType ==
    ASSUME TypeInv, NEW d \in Deleters, NEW o \in Objects,
           ListLateObject(d, o) \/ MissErasedObject(d, o) \/ CopyObject(d, o)
    PROVE  TypeInv'
<1> USE DEF TypeInv, TypeOK, Contents, DeleteCalls, Deletion
<1>1. CASE ListLateObject(d, o)
  BY <1>1 DEF ListLateObject, StampInv
<1>3. CASE MissErasedObject(d, o)
  BY <1>3 DEF MissErasedObject, StampInv
<1>2. CASE CopyObject(d, o)
  <2> DEFINE s == delete[d].stamp
  <2>1. s \in Stamps /\ backups[s] \in SUBSET Objects
    <3>1. s \in Stamps /\ backups[s] # NoBucket
      BY <1>2 DEF CopyObject, StampInv
    <3> QED  BY <3>1
  <2>2. backups' = [backups EXCEPT ![s] = backups[s] \union {o}]
    BY <1>2 DEF CopyObject
  <2>3. backups[s] \union {o} # NoBucket /\ backups[s] \union {o} \in SUBSET Objects
    BY <2>1, GoneAssumption DEF NoBucket
  <2>4. \A t \in Stamps : backups[t] # NoBucket => backups'[t] # NoBucket
    BY <2>1, <2>2, <2>3
  <2>5. backups' \in [Stamps -> Contents]
    BY <2>1, <2>2, <2>3
  <2>6. /\ delete' \in [Deleters -> Deletion]
        /\ \A e \in Deleters : /\ delete'[e].call = delete[e].call
                               /\ delete'[e].stamp = delete[e].stamp
    BY <1>2 DEF CopyObject
  <2>7. StampInv'
    BY <2>4, <2>6 DEF StampInv
  <2> QED  BY <1>2, <2>5, <2>6, <2>7 DEF CopyObject
<1> QED  BY <1>1, <1>2, <1>3

LEMMA UserType ==
    ASSUME TypeInv, NEW o \in Objects, Upload(o) \/ Erase(o)
    PROVE  TypeInv'
<1> USE DEF TypeInv, TypeOK, StampInv, Contents
<1>1. CASE Upload(o)
  BY <1>1 DEF Upload
<1>2. CASE Erase(o)
  <2>1. bucket # NoBucket
    BY <1>2, GoneAssumption DEF Erase, NoBucket
  <2> QED  BY <1>2, <2>1 DEF Erase
<1> QED  BY <1>1, <1>2

LEMMA StepType == TypeInv /\ [Next]_vars => TypeInv'
<1>1. TypeInv /\ UNCHANGED vars => TypeInv'
  BY DEF vars, history, TypeInv, TypeOK, StampInv
<1>2. TypeInv /\ OperatorFinishes => TypeInv'
  BY DEF OperatorFinishes, TypeInv, TypeOK, StampInv
<1> QED
  BY <1>1, <1>2, CreatorType, DeleterType, BackupType, CopyType, UserType DEF Next

LEMMA TypeInvariance == Spec => []TypeInv
  BY InitType, StepType, PTL DEF Spec

(***************************************************************************)
(* Every state of every behaviour is of the declared types.                *)
(***************************************************************************)
THEOREM TypeCorrect == Spec => []TypeOK
<1>1. TypeInv => TypeOK
  BY DEF TypeInv
<1> QED  BY <1>1, TypeInvariance, PTL

-----------------------------------------------------------------------------
(***************************************************************************)
(* Settled uploads survive.  The induction needs what a deletion between   *)
(* its listing and its removal knows: of all that the bucket holds, only   *)
(* late uploads are neither still to be copied nor in its backup.          *)
(***************************************************************************)
ListedInv ==
    \A d \in Deleters, o \in Objects :
        delete[d].call = "copy" /\ o \in bucket /\ upload[o] = "settled" =>
            o \in delete[d].todo \/ o \in backups[delete[d].stamp]

\* An upload that has not happened is in no bucket.
NewInv == \A o \in Objects : upload[o] = "new" => o \notin bucket

KeptInv == SettledUploadsKept /\ ListedInv /\ NewInv

\* What a step that leaves uploads and bucket alone has to respect.
LEMMA KeptFrame ==
    ASSUME TypeInv, KeptInv, UNCHANGED <<bucket, upload>>,
           \A s \in Stamps, o \in Objects : o \in backups[s] => o \in backups'[s],
           \A d \in Deleters : delete'[d].call = "copy" =>
               /\ delete[d].call = "copy"
               /\ delete'[d].stamp = delete[d].stamp
               /\ \A o \in delete[d].todo :
                    o \in delete'[d].todo \/ o \in backups'[delete[d].stamp]
    PROVE  KeptInv'
<1>1. SettledUploadsKept'
  BY DEF KeptInv, SettledUploadsKept, BackedUp
<1>2. ListedInv'
  <2> SUFFICES ASSUME NEW d \in Deleters, NEW o \in Objects,
                      delete'[d].call = "copy", o \in bucket, upload[o] = "settled"
               PROVE  o \in delete'[d].todo \/ o \in backups'[delete'[d].stamp]
    BY DEF ListedInv
  <2>1. delete[d].call = "copy" /\ delete'[d].stamp = delete[d].stamp
    OBVIOUS
  <2>2. delete[d].stamp \in Stamps
    BY <2>1 DEF TypeInv, StampInv
  <2>3. o \in delete[d].todo \/ o \in backups[delete[d].stamp]
    BY <2>1 DEF KeptInv, ListedInv
  <2> QED  BY <2>1, <2>2, <2>3
<1>3. NewInv'
  BY DEF KeptInv, NewInv
<1> QED  BY <1>1, <1>2, <1>3 DEF KeptInv

LEMMA CreatorKeeps ==
    ASSUME TypeInv, KeptInv, NEW c \in Creators,
           \/ CreateKDLProjectCR(c) \/ CreateBucket(c) \/ CreateProjectDirs(c)
           \/ InsertProject(c) \/ CreateRefused(c) \/ CreateFails(c)
    PROVE  KeptInv'
<1>1. CASE CreateBucket(c)
  <2>1. bucket' = {} /\ UNCHANGED <<backups, delete, upload>>
    BY <1>1 DEF CreateBucket
  <2>2. \A o \in Objects : o \notin bucket
    BY <1>1, GoneAssumption DEF CreateBucket, NoBucket
  <2> QED
    BY <2>1, <2>2 DEF KeptInv, SettledUploadsKept, BackedUp, ListedInv, NewInv
<1>2. CASE UNCHANGED <<bucket, backups, delete, upload>>
  BY <1>2, KeptFrame
<1> QED
  BY <1>1, <1>2
  DEF CreateKDLProjectCR, CreateProjectDirs, InsertProject, CreateRefused, CreateFails

LEMMA DeleterKeeps ==
    ASSUME TypeInv, KeptInv, NEW d \in Deleters,
           \/ StartDelete(d) \/ \E s \in Stamps : CreateBackup(d, s)
           \/ ListObjects(d) \/ RemoveBucket(d)
           \/ DeleteKDLProjectCR(d) \/ DeleteOne(d) \/ RecordActivity(d)
           \/ DeleteRefused(d) \/ DeleteFails(d)
    PROVE  KeptInv'
<1> USE DEF TypeInv, TypeOK
<1>1. CASE ListObjects(d)
  <2>1. /\ delete'[d].call = "copy" /\ delete'[d].todo = bucket
        /\ \A e \in Deleters \ {d} : delete'[e] = delete[e]
        /\ UNCHANGED <<bucket, backups, upload>>
    BY <1>1 DEF ListObjects, Deletion
  <2>2. SettledUploadsKept' /\ NewInv'
    BY <2>1 DEF KeptInv, SettledUploadsKept, BackedUp, NewInv
  <2>3. ListedInv'
    BY <2>1 DEF KeptInv, ListedInv
  <2> QED  BY <2>2, <2>3 DEF KeptInv
<1>2. CASE RemoveBucket(d)
  <2>1. /\ bucket' = NoBucket /\ delete[d].call = "copy" /\ delete[d].todo = {}
        /\ UNCHANGED <<backups, upload>>
    BY <1>2 DEF RemoveBucket, DeleteStep
  <2>2. \A o \in Objects : o \notin bucket'
    BY <2>1, GoneAssumption DEF NoBucket
  <2>3. delete[d].stamp \in Stamps
    BY <2>1 DEF StampInv
  <2>4. SettledUploadsKept'
    BY <2>1, <2>3 DEF KeptInv, SettledUploadsKept, BackedUp, ListedInv
  <2>5. ListedInv' /\ NewInv'
    BY <2>2 DEF ListedInv, NewInv
  <2> QED  BY <2>4, <2>5 DEF KeptInv
<1>3. CASE \E s \in Stamps : CreateBackup(d, s)
  <2>1. PICK s \in Stamps : CreateBackup(d, s)
    BY <1>3
  <2>2. /\ delete'[d].call = "list" /\ \A e \in Deleters \ {d} : delete'[e] = delete[e]
        /\ UNCHANGED <<bucket, upload>>
    BY <2>1 DEF CreateBackup, Deletion
  <2>3. \A t \in Stamps, o \in Objects : o \in backups[t] => o \in backups'[t]
    BY <2>1, GoneAssumption DEF CreateBackup, NoBucket
  <2> QED  BY <2>2, <2>3, KeptFrame
<1>4. ASSUME NEW from, NEW to, to # "copy", DeleteStep(d, from, to),
             UNCHANGED <<bucket, backups, upload>>
      PROVE  KeptInv'
  <2>1. delete'[d].call = to /\ \A e \in Deleters \ {d} : delete'[e] = delete[e]
    BY <1>4 DEF DeleteStep, Deletion
  <2> QED  BY <1>4, <2>1, KeptFrame
<1>5. ASSUME DeleteEnds(d), UNCHANGED <<bucket, backups, upload>>
      PROVE  KeptInv'
  <2>1. delete'[d].call = "idle" /\ \A e \in Deleters \ {d} : delete'[e] = delete[e]
    BY <1>5 DEF DeleteEnds, NotDeleting
  <2> QED  BY <1>5, <2>1, KeptFrame
<1> QED
  BY <1>1, <1>2, <1>3, <1>4, <1>5
  DEF StartDelete, DeleteKDLProjectCR, DeleteOne, RecordActivity, DeleteRefused, DeleteFails

LEMMA CopierKeeps ==
    ASSUME TypeInv, KeptInv, NEW d \in Deleters, NEW o \in Objects,
           ListLateObject(d, o) \/ MissErasedObject(d, o) \/ CopyObject(d, o)
    PROVE  KeptInv'
<1> USE DEF TypeInv, TypeOK
<1>1. CASE ListLateObject(d, o)
  BY <1>1, KeptFrame DEF ListLateObject, Deletion
<1>3. CASE MissErasedObject(d, o)
  <2>1. o \notin bucket /\ UNCHANGED <<bucket, backups, upload>>
    BY <1>3 DEF MissErasedObject
  <2>2. /\ delete[d].call = "copy"
        /\ delete'[d].call = "copy" /\ delete'[d].stamp = delete[d].stamp
        /\ delete'[d].todo = delete[d].todo \ {o}
        /\ \A e \in Deleters \ {d} : delete'[e] = delete[e]
    BY <1>3 DEF MissErasedObject, Deletion
  <2>3. ListedInv'
    BY <2>1, <2>2 DEF KeptInv, ListedInv
  <2> QED  BY <2>1, <2>3 DEF KeptInv, SettledUploadsKept, BackedUp, NewInv
<1>2. CASE CopyObject(d, o)
  <2> DEFINE s == delete[d].stamp
  <2>1. s \in Stamps /\ delete[d].call = "copy"
    BY <1>2 DEF CopyObject, StampInv
  <2>2. /\ backups'[s] = backups[s] \union {o}
        /\ \A t \in Stamps \ {s} : backups'[t] = backups[t]
        /\ UNCHANGED <<bucket, upload>>
    BY <1>2, <2>1 DEF CopyObject
  <2>3. /\ delete'[d].stamp = s /\ delete'[d].todo = delete[d].todo \ {o}
        /\ \A e \in Deleters \ {d} : delete'[e] = delete[e]
    BY <1>2 DEF CopyObject, Deletion
  <2> QED  BY <2>1, <2>2, <2>3, KeptFrame
<1> QED  BY <1>1, <1>2, <1>3

LEMMA UserKeeps ==
    ASSUME TypeInv, KeptInv, NEW o \in Objects, Upload(o) \/ Erase(o)
    PROVE  KeptInv'
<1> USE DEF TypeInv, TypeOK
<1>1. CASE Upload(o)
  <2>1. /\ bucket' = bucket \union {o} /\ UNCHANGED <<backups, delete>>
        /\ upload'[o] \in {"settled", "late"}
        /\ (\E d \in Deleters : delete[d].call = "copy") => upload'[o] = "late"
        /\ \A p \in Objects \ {o} : upload'[p] = upload[p]
    BY <1>1 DEF Upload
  <2> QED  BY <2>1 DEF KeptInv, SettledUploadsKept, BackedUp, ListedInv, NewInv
<1>2. CASE Erase(o)
  <2>1. /\ bucket' = bucket \ {o} /\ UNCHANGED <<backups, delete>>
        /\ upload'[o] = "erased"
        /\ \A p \in Objects \ {o} : upload'[p] = upload[p]
    BY <1>2 DEF Erase
  <2> QED  BY <2>1 DEF KeptInv, SettledUploadsKept, BackedUp, ListedInv, NewInv
<1> QED  BY <1>1, <1>2

LEMMA KeptInvariance == Spec => []KeptInv
<1>1. Init => KeptInv
  BY GoneAssumption
  DEF Init, KeptInv, SettledUploadsKept, ListedInv, NewInv, NotDeleting, NoBucket
<1>2. TypeInv /\ KeptInv /\ [Next]_vars => KeptInv'
  <2>1. TypeInv /\ KeptInv /\ UNCHANGED vars => KeptInv'
    BY KeptFrame DEF vars, history
  <2>2. TypeInv /\ KeptInv /\ OperatorFinishes => KeptInv'
    BY KeptFrame DEF OperatorFinishes
  <2> QED
    BY <2>1, <2>2, CreatorKeeps, DeleterKeeps, CopierKeeps, UserKeeps DEF Next
<1> QED  BY <1>1, <1>2, TypeInvariance, PTL DEF Spec

(***************************************************************************)
(* No interleaving of handlers, faults and users loses an upload that was  *)
(* there when a deletion listed the bucket.                                *)
(***************************************************************************)
THEOREM SettledUploadsAreKept == Spec => []SettledUploadsKept
<1>1. KeptInv => SettledUploadsKept
  BY DEF KeptInv
<1> QED  BY <1>1, KeptInvariance, PTL

-----------------------------------------------------------------------------
LEMMA EndFacts ==
    ASSUME TypeInv, NEW d \in Deleters, RecordActivity(d) \/ DeleteRefused(d) \/ DeleteFails(d)
    PROVE  /\ delete'[d].call = "idle"
           /\ \A e \in Deleters \ {d} : delete'[e] = delete[e]
           /\ UNCHANGED <<cr, bucket, doc, create>>
BY DEF RecordActivity, DeleteRefused, DeleteFails, DeleteEnds, NotDeleting, TypeInv, TypeOK

(***************************************************************************)
(* A half-created or half-deleted project stays that way.                  *)
(***************************************************************************)
THEOREM HalfCreatedStays == Spec => HalfCreatedIsFinal
<1>1. TypeInv /\ [Next]_vars => [HalfCreated => HalfCreated']_vars
  <2> SUFFICES ASSUME TypeInv, HalfCreated, Next
               PROVE  HalfCreated'
    OBVIOUS
  <2> USE DEF TypeInv, TypeOK, HalfCreated, Quiet
  <2>1. ASSUME NEW c \in Creators
        PROVE  /\ ~CreateKDLProjectCR(c) /\ ~CreateBucket(c) /\ ~CreateProjectDirs(c)
               /\ ~InsertProject(c) /\ ~CreateRefused(c) /\ ~CreateFails(c)
    BY DEF CreateKDLProjectCR, CreateBucket, CreateProjectDirs, InsertProject,
           CreateRefused, CreateFails, CreateStep
  <2>2. ASSUME NEW d \in Deleters, RecordActivity(d) \/ DeleteRefused(d) \/ DeleteFails(d)
        PROVE  HalfCreated'
    BY <2>2, EndFacts
  <2>3. ASSUME NEW d \in Deleters
        PROVE  /\ ~StartDelete(d) /\ \A s \in Stamps : ~CreateBackup(d, s)
               /\ ~ListObjects(d)
               /\ \A o \in Objects : /\ ~ListLateObject(d, o) /\ ~MissErasedObject(d, o)
                                     /\ ~CopyObject(d, o)
               /\ ~RemoveBucket(d) /\ ~DeleteKDLProjectCR(d) /\ ~DeleteOne(d)
    BY DEF StartDelete, CreateBackup, ListObjects, ListLateObject, MissErasedObject,
           CopyObject, RemoveBucket, DeleteKDLProjectCR, DeleteOne, DeleteStep
  <2>4. ASSUME NEW o \in Objects, Upload(o) \/ Erase(o)
        PROVE  HalfCreated'
    <3>1. UNCHANGED <<cr, doc, create, delete>>
      BY <2>4 DEF Upload, Erase
    <3> QED  BY <3>1
  <2>5. ~OperatorFinishes
    BY DEF OperatorFinishes
  <2> QED  BY <2>1, <2>2, <2>3, <2>4, <2>5 DEF Next
<1> QED  BY <1>1, TypeInvariance, PTL DEF Spec, HalfCreatedIsFinal

THEOREM HalfDeletedStays == Spec => HalfDeletedIsFinal
<1>1. TypeInv /\ [Next]_vars => [HalfDeleted => HalfDeleted']_vars
  <2> SUFFICES ASSUME TypeInv, HalfDeleted, Next
               PROVE  HalfDeleted'
    OBVIOUS
  <2> USE DEF TypeInv, TypeOK, HalfDeleted
  <2>1. ASSUME NEW c \in Creators
        PROVE  /\ ~CreateKDLProjectCR(c) /\ ~CreateBucket(c) /\ ~CreateProjectDirs(c)
               /\ ~InsertProject(c) /\ ~CreateRefused(c) /\ ~CreateFails(c)
    BY DEF CreateKDLProjectCR, CreateBucket, CreateProjectDirs, InsertProject,
           CreateRefused, CreateFails, CreateStep
  <2>2. ASSUME NEW d \in Deleters, RecordActivity(d) \/ DeleteRefused(d) \/ DeleteFails(d)
        PROVE  HalfDeleted'
    BY <2>2, EndFacts
  <2>3. ASSUME NEW d \in Deleters, StartDelete(d)
        PROVE  HalfDeleted'
    BY <2>3 DEF StartDelete, DeleteStep, Deletion
  <2>4. ASSUME NEW d \in Deleters, NEW s \in Stamps, CreateBackup(d, s)
        PROVE  HalfDeleted'
    BY <2>4 DEF CreateBackup, Deletion
  <2>5. ASSUME NEW d \in Deleters
        PROVE  /\ ~ListObjects(d)
               /\ \A o \in Objects : /\ ~ListLateObject(d, o) /\ ~MissErasedObject(d, o)
                                     /\ ~CopyObject(d, o)
               /\ ~RemoveBucket(d) /\ ~DeleteKDLProjectCR(d) /\ ~DeleteOne(d)
    BY DEF ListObjects, ListLateObject, MissErasedObject, CopyObject,
           RemoveBucket, DeleteKDLProjectCR, DeleteOne, DeleteStep
  <2>6. ASSUME NEW o \in Objects
        PROVE  ~Upload(o) /\ ~Erase(o)
    BY GoneAssumption DEF Upload, Erase, NoBucket
  <2>7. ~OperatorFinishes
    BY DEF OperatorFinishes
  <2> QED  BY <2>1, <2>2, <2>3, <2>4, <2>5, <2>6, <2>7 DEF Next
<1> QED  BY <1>1, TypeInvariance, PTL DEF Spec, HalfDeletedIsFinal

-----------------------------------------------------------------------------
(***************************************************************************)
(* While everything is orderly, what users see is whole.                   *)
(***************************************************************************)
Visible == doc /\ \A d \in Deleters : delete[d].call \notin {"cr", "doc"}

\* A creation that is under way owns the resource, and a document can only
\* be there if a deletion is about to remove it.
CreationInv ==
    /\ \A c \in Creators : create[c] # "idle" =>
        /\ cr = "made"
        /\ doc => \E d \in Deleters : delete[d].call = "doc"
        /\ create[c] \in {"dirs", "insert"} => bucket # NoBucket
    /\ \A c, e \in Creators : create[c] # "idle" /\ create[e] # "idle" => c = e

\* The one deletion owns the document until it has removed it, and the
\* resource between the removal of the bucket and its own.
DeletionInv ==
    \A d \in Deleters :
        /\ delete[d].call \in {"backup", "list", "copy", "cr", "doc"} => doc
        /\ delete[d].call = "cr" => cr = "made"
        /\ delete[d].call # "idle" => Alone(d)

Whole == (Visible => cr = "made" /\ bucket # NoBucket) /\ CreationInv /\ DeletionInv

WholeInv == orderly => Whole

LEMMA CreatorWhole ==
    ASSUME TypeInv, Whole, orderly', NEW c \in Creators,
           \/ CreateKDLProjectCR(c) \/ CreateBucket(c) \/ CreateProjectDirs(c)
           \/ InsertProject(c) \/ CreateRefused(c) \/ CreateFails(c)
    PROVE  Whole'
<1> USE DEF TypeInv, TypeOK, Whole, Visible, CreationInv, DeletionInv, Alone
<1>1. CASE CreateKDLProjectCR(c)
  <2>1. /\ cr = "none" /\ cr' = "made" /\ create'[c] = "bucket"
        /\ \A e \in Creators \ {c} : create'[e] = create[e]
        /\ UNCHANGED <<bucket, doc, delete>>
    BY <1>1 DEF CreateKDLProjectCR, CreateStep
  <2>2. \A e \in Creators : create[e] = "idle"
    BY <2>1
  <2>3. doc => \E d \in Deleters : delete[d].call \in {"cr", "doc"}
    BY <2>1
  <2>4. doc => \E d \in Deleters : delete[d].call = "doc"
    BY <2>1, <2>3
  <2> QED  BY <2>1, <2>2, <2>4
<1>2. CASE CreateBucket(c)
  <2>1. /\ create[c] = "bucket" /\ create'[c] = "dirs" /\ bucket' = {}
        /\ \A e \in Creators \ {c} : create'[e] = create[e]
        /\ UNCHANGED <<cr, doc, delete>>
    BY <1>2 DEF CreateBucket, CreateStep
  <2>2. bucket' # NoBucket
    BY <2>1 DEF NoBucket
  <2> QED  BY <2>1, <2>2
<1>3. CASE CreateProjectDirs(c)
  BY <1>3 DEF CreateProjectDirs, CreateStep
<1>4. CASE InsertProject(c)
  BY <1>4 DEF InsertProject, CreateStep
<1>5. CASE CreateRefused(c)
  BY <1>5 DEF CreateRefused, CreateStep
<1>6. CASE CreateFails(c)
  BY <1>6 DEF CreateFails
<1> QED  BY <1>1, <1>2, <1>3, <1>4, <1>5, <1>6

LEMMA DeleterWhole ==
    ASSUME TypeInv, Whole, orderly', NEW d \in Deleters,
           \/ StartDelete(d) \/ \E s \in Stamps : CreateBackup(d, s)
           \/ ListObjects(d)
           \/ \E o \in Objects : ListLateObject(d, o) \/ MissErasedObject(d, o) \/ CopyObject(d, o)
           \/ RemoveBucket(d) \/ DeleteKDLProjectCR(d) \/ DeleteOne(d)
           \/ RecordActivity(d) \/ DeleteRefused(d) \/ DeleteFails(d)
    PROVE  Whole'
<1> USE DEF TypeInv, TypeOK
<1>f. /\ Alone(d)
      /\ \A e \in Deleters \ {d} : delete'[e] = delete[e]
      /\ UNCHANGED create
  <2>1. delete[d].call # "idle" => Alone(d)
    BY DEF Whole, DeletionInv
  <2> QED
    BY <2>1 DEF StartDelete, CreateBackup, ListObjects, ListLateObject, MissErasedObject,
       CopyObject, RemoveBucket, DeleteKDLProjectCR, DeleteOne, RecordActivity, DeleteRefused,
       DeleteFails, DeleteStep, DeleteEnds
<1>0. \A e \in Deleters \ {d} : delete[e].call = "idle" /\ delete'[e].call = "idle"
  BY <1>f DEF Alone
<1>a. \A e \in Deleters : delete'[e].call # "idle" => Alone(e)'
  BY <1>0 DEF Alone
<1>1. ASSUME NEW from, NEW to, delete[d].call = from, delete'[d].call = to,
             UNCHANGED <<cr, bucket, doc>>,
             from \notin {"cr", "doc"}, to \notin {"cr", "doc"},
             to \in {"backup", "list", "copy"} => doc
      PROVE  Whole'
  BY <1>f, <1>0, <1>a, <1>1 DEF Whole, Visible, CreationInv, DeletionInv
<1>2. CASE StartDelete(d)
  BY <1>1, <1>2 DEF StartDelete, DeleteStep, Deletion
<1>3. CASE \E s \in Stamps : CreateBackup(d, s)
  <2>0. PICK s \in Stamps : CreateBackup(d, s)
    BY <1>3
  <2>1. /\ delete[d].call = "backup" /\ delete'[d].call = "list"
        /\ UNCHANGED <<cr, bucket, doc>>
    BY <2>0 DEF CreateBackup, Deletion
  <2>2. doc
    BY <2>1 DEF Whole, DeletionInv
  <2> QED  BY <1>1, <2>1, <2>2
<1>4. CASE ListObjects(d)
  <2>1. /\ delete[d].call = "list" /\ delete'[d].call = "copy"
        /\ UNCHANGED <<cr, bucket, doc>>
    BY <1>4 DEF ListObjects, Deletion
  <2>2. doc
    BY <2>1 DEF Whole, DeletionInv
  <2> QED  BY <1>1, <2>1, <2>2
<1>5. CASE \E o \in Objects : ListLateObject(d, o) \/ MissErasedObject(d, o) \/ CopyObject(d, o)
  <2>0. PICK o \in Objects : ListLateObject(d, o) \/ MissErasedObject(d, o) \/ CopyObject(d, o)
    BY <1>5
  <2>1. /\ delete[d].call = "copy" /\ delete'[d].call = "copy"
        /\ UNCHANGED <<cr, bucket, doc>>
    <3> USE DEF Deletion
    <3>1. CASE ListLateObject(d, o)
      BY <3>1 DEF ListLateObject
    <3>2. CASE CopyObject(d, o)
      BY <3>2 DEF CopyObject
    <3>3. CASE MissErasedObject(d, o)
      BY <3>3 DEF MissErasedObject
    <3> QED  BY <2>0, <3>1, <3>2, <3>3
  <2>2. doc
    BY <2>1 DEF Whole, DeletionInv
  <2> QED  BY <1>1, <2>1, <2>2
<1>6. CASE RemoveBucket(d)
  <2>1. /\ delete[d].call = "copy" /\ delete'[d].call = "cr"
        /\ UNCHANGED <<cr, doc, create>>
    BY <1>6 DEF RemoveBucket, DeleteStep, Deletion
  <2>2. doc /\ (Visible => cr = "made") /\ Visible
    BY <1>0, <2>1 DEF Whole, DeletionInv, Visible
  <2>3. \A c \in Creators : create[c] = "idle"
    BY <1>0, <2>1, <2>2 DEF Whole, CreationInv
  <2> QED
    BY <1>0, <1>a, <2>1, <2>2, <2>3 DEF Whole, Visible, CreationInv, DeletionInv
<1>7. CASE DeleteKDLProjectCR(d)
  <2>1. /\ delete[d].call = "cr" /\ delete'[d].call = "doc" /\ cr' = "dying"
        /\ UNCHANGED <<bucket, doc, create>>
    BY <1>7 DEF DeleteKDLProjectCR, DeleteStep, Deletion
  <2>2. doc
    BY <2>1 DEF Whole, DeletionInv
  <2>3. \A c \in Creators : create[c] = "idle"
    BY <1>0, <2>1, <2>2 DEF Whole, CreationInv
  <2> QED
    BY <1>0, <1>a, <2>1, <2>2, <2>3 DEF Whole, Visible, CreationInv, DeletionInv
<1>8. CASE DeleteOne(d)
  <2>1. /\ delete[d].call = "doc" /\ delete'[d].call = "activity" /\ doc' = FALSE
        /\ UNCHANGED <<cr, bucket, create>>
    BY <1>8 DEF DeleteOne, DeleteStep, Deletion
  <2> QED
    BY <1>0, <1>a, <2>1 DEF Whole, Visible, CreationInv, DeletionInv
<1>9. CASE RecordActivity(d)
  BY <1>1, <1>9 DEF RecordActivity, DeleteEnds, NotDeleting
<1>10. CASE DeleteRefused(d)
  <2>1. delete'[d].call = "idle" /\ UNCHANGED <<cr, bucket, doc, create>>
    BY <1>10 DEF DeleteRefused, DeleteEnds, NotDeleting
  <2>2. delete[d].call \in {"backup", "list", "copy"}
    BY <1>10 DEF DeleteRefused, Whole, DeletionInv
  <2> QED  BY <1>1, <2>1, <2>2
<1>11. CASE DeleteFails(d)
  BY <1>11 DEF DeleteFails
<1> QED
  BY <1>2, <1>3, <1>4, <1>5, <1>6, <1>7, <1>8, <1>9, <1>10, <1>11

LEMMA UserWhole ==
    ASSUME TypeInv, Whole, NEW o \in Objects, Upload(o) \/ Erase(o)
    PROVE  Whole'
<1>1. bucket # NoBucket /\ bucket' # NoBucket /\ UNCHANGED <<cr, doc, create, delete>>
  <2>1. Gone \notin bucket \ {o} /\ bucket # NoBucket
    BY GoneAssumption DEF TypeInv, TypeOK, Contents, Upload, Erase, NoBucket
  <2>2. o # Gone
    BY GoneAssumption
  <2> QED  BY <2>1, <2>2 DEF Upload, Erase, NoBucket
<1> QED
  BY <1>1 DEF Whole, Visible, CreationInv, DeletionInv, Alone

LEMMA OperatorWhole ==
    ASSUME TypeInv, Whole, OperatorFinishes
    PROVE  Whole'
BY DEF OperatorFinishes, Whole, Visible, CreationInv, DeletionInv, Alone

\* What is no longer orderly stays so.
LEMMA OrderlyBefore ==
    ASSUME TypeInv, Next, orderly'
    PROVE  orderly
BY DEF Next, CreateKDLProjectCR, CreateBucket, CreateProjectDirs, InsertProject, CreateRefused,
       CreateFails, StartDelete, CreateBackup, ListObjects, ListLateObject,
       MissErasedObject, CopyObject, RemoveBucket, DeleteKDLProjectCR, DeleteOne, RecordActivity,
       DeleteRefused, DeleteFails, OperatorFinishes, Upload, Erase, history

LEMMA WholeInvariance == Spec => []WholeInv
<1>1. Init => WholeInv
  BY DEF Init, WholeInv, Whole, Visible, CreationInv, DeletionInv, NotDeleting
<1>2. TypeInv /\ WholeInv /\ [Next]_vars => WholeInv'
  <2>1. WholeInv /\ UNCHANGED vars => WholeInv'
    BY DEF vars, history, WholeInv, Whole, Visible, CreationInv, DeletionInv, Alone
  <2>2. ASSUME TypeInv, WholeInv, Next, orderly'
        PROVE  Whole'
    <3>1. Whole
      BY <2>2, OrderlyBefore DEF WholeInv
    <3> QED  BY <2>2, <3>1, CreatorWhole, DeleterWhole, OperatorWhole, UserWhole DEF Next
  <2> QED  BY <2>1, <2>2 DEF WholeInv
<1> QED  BY <1>1, <1>2, TypeInvariance, PTL DEF Spec

(***************************************************************************)
(* While deletions do not overlap and no call fails, a project that users  *)
(* see has its resource and its bucket, unless its deletion has begun to   *)
(* take them away.                                                         *)
(***************************************************************************)
THEOREM OrderlyProjectsAreWhole == Spec => []VisibleProjectIsWhole
<1>1. WholeInv => VisibleProjectIsWhole
  BY DEF WholeInv, Whole, Visible, VisibleProjectIsWhole
<1> QED  BY <1>1, WholeInvariance, PTL

-----------------------------------------------------------------------------
(***************************************************************************)
(* The way from the record to the data.  A step that removes nothing from  *)
(* the bucket's settled objects, from a backup, from the activity or from  *)
(* the deletions past the removal keeps it.                                *)
(***************************************************************************)
Reaches(o) ==
    \/ o \in bucket
    \/ \E s \in activity : o \in backups[s]
    \/ \E d \in Deleters : delete[d].call \in PastRemoval /\ o \in backups[delete[d].stamp]

LEMMA ReachFrame ==
    ASSUME TypeInv, NEW o \in Objects, Reaches(o),
           o \in bucket => o \in bucket',
           activity \subseteq activity',
           \A s \in Stamps : o \in backups[s] => o \in backups'[s],
           \A d \in Deleters : delete[d].call \in PastRemoval =>
               delete'[d].call \in PastRemoval /\ delete'[d].stamp = delete[d].stamp
    PROVE  Reaches(o)'
<1>1. CASE o \in bucket
  BY <1>1 DEF Reaches
<1>2. CASE \E s \in activity : o \in backups[s]
  BY <1>2 DEF Reaches, TypeInv, TypeOK
<1>3. CASE \E d \in Deleters : delete[d].call \in PastRemoval /\ o \in backups[delete[d].stamp]
  <2>1. PICK d \in Deleters : delete[d].call \in PastRemoval /\ o \in backups[delete[d].stamp]
    BY <1>3
  <2>2. delete[d].stamp \in Stamps
    BY <2>1 DEF TypeInv, StampInv, PastRemoval
  <2>3. o \in backups'[delete'[d].stamp]
    BY <2>1, <2>2
  <2> QED  BY <2>1, <2>3 DEF Reaches
<1> QED  BY <1>1, <1>2, <1>3 DEF Reaches

LEMMA DeleterReaches ==
    ASSUME TypeInv, KeptInv, Whole, orderly', NEW d \in Deleters,
           NEW o \in Objects, upload[o] = "settled", Reaches(o),
           \/ StartDelete(d) \/ \E s \in Stamps : CreateBackup(d, s)
           \/ ListObjects(d)
           \/ \E p \in Objects : ListLateObject(d, p) \/ MissErasedObject(d, p) \/ CopyObject(d, p)
           \/ RemoveBucket(d) \/ DeleteKDLProjectCR(d) \/ DeleteOne(d)
           \/ RecordActivity(d) \/ DeleteRefused(d) \/ DeleteFails(d)
    PROVE  Reaches(o)'
<1> USE DEF TypeInv, TypeOK
<1>1. ASSUME NEW from, NEW to, DeleteStep(d, from, to), UNCHANGED <<bucket, backups, activity>>,
             from \in PastRemoval => to \in PastRemoval
      PROVE  Reaches(o)'
  <2>1. /\ delete[d].call = from /\ delete'[d].call = to /\ delete'[d].stamp = delete[d].stamp
        /\ \A e \in Deleters \ {d} : delete'[e] = delete[e]
    BY <1>1 DEF DeleteStep, Deletion
  <2> QED  BY <1>1, <2>1, ReachFrame
<1>2. CASE StartDelete(d) \/ DeleteKDLProjectCR(d) \/ DeleteOne(d)
  BY <1>1, <1>2 DEF StartDelete, DeleteKDLProjectCR, DeleteOne, PastRemoval
<1>3. CASE \E s \in Stamps : CreateBackup(d, s)
  <2>1. PICK s \in Stamps : CreateBackup(d, s)
    BY <1>3
  <2>2. /\ delete[d].call = "backup" /\ \A e \in Deleters \ {d} : delete'[e] = delete[e]
        /\ UNCHANGED <<bucket, activity>>
    BY <2>1 DEF CreateBackup
  <2>3. \A t \in Stamps : o \in backups[t] => o \in backups'[t]
    BY <2>1, GoneAssumption DEF CreateBackup, NoBucket
  <2> QED  BY <2>2, <2>3, ReachFrame DEF PastRemoval
<1>4. CASE ListObjects(d)
  <2>1. /\ delete[d].call = "list" /\ \A e \in Deleters \ {d} : delete'[e] = delete[e]
        /\ UNCHANGED <<bucket, backups, activity>>
    BY <1>4 DEF ListObjects
  <2> QED  BY <2>1, ReachFrame DEF PastRemoval
<1>5. CASE \E p \in Objects : ListLateObject(d, p) \/ MissErasedObject(d, p) \/ CopyObject(d, p)
  <2>0. PICK p \in Objects : ListLateObject(d, p) \/ MissErasedObject(d, p) \/ CopyObject(d, p)
    BY <1>5
  <2>1. /\ delete[d].call = "copy" /\ \A e \in Deleters \ {d} : delete'[e] = delete[e]
        /\ UNCHANGED <<bucket, activity>>
    BY <2>0 DEF ListLateObject, MissErasedObject, CopyObject
  <2>2. \A t \in Stamps : o \in backups[t] => o \in backups'[t]
    BY <2>0 DEF ListLateObject, MissErasedObject, CopyObject
  <2> QED  BY <2>1, <2>2, ReachFrame DEF PastRemoval
<1>6. CASE RemoveBucket(d)
  <2>1. /\ delete[d].call = "copy" /\ delete'[d].call = "cr" /\ delete[d].todo = {}
        /\ delete'[d].stamp = delete[d].stamp
        /\ \A e \in Deleters \ {d} : delete'[e] = delete[e]
        /\ UNCHANGED <<backups, activity>>
    BY <1>6 DEF RemoveBucket, DeleteStep, Deletion
  <2>2. CASE o \in bucket
    <3>1. o \in backups[delete[d].stamp]
      BY <2>1, <2>2 DEF KeptInv, ListedInv
    <3> QED  BY <2>1, <3>1 DEF Reaches, PastRemoval
  <2>3. CASE o \notin bucket
    BY <2>1, <2>3, ReachFrame DEF PastRemoval
  <2> QED  BY <2>2, <2>3
<1>7. CASE RecordActivity(d)
  <2>1. /\ delete[d].call = "activity" /\ activity' = activity \union {delete[d].stamp}
        /\ \A e \in Deleters \ {d} : delete'[e] = delete[e]
        /\ UNCHANGED <<bucket, backups>>
    BY <1>7 DEF RecordActivity, DeleteEnds
  <2>2. CASE o \in backups[delete[d].stamp]
    BY <2>1, <2>2 DEF Reaches
  <2>3. CASE o \notin backups[delete[d].stamp]
    BY <2>1, <2>3 DEF Reaches
  <2> QED  BY <2>2, <2>3
<1>8. CASE DeleteRefused(d)
  <2>1. delete[d].call \in {"backup", "list", "copy"}
    BY <1>8 DEF DeleteRefused, Whole, DeletionInv
  <2>2. /\ \A e \in Deleters \ {d} : delete'[e] = delete[e]
        /\ UNCHANGED <<bucket, backups, activity>>
    BY <1>8 DEF DeleteRefused, DeleteEnds
  <2> QED  BY <2>1, <2>2, ReachFrame DEF PastRemoval
<1>9. CASE DeleteFails(d)
  BY <1>9 DEF DeleteFails
<1> QED  BY <1>2, <1>3, <1>4, <1>5, <1>6, <1>7, <1>8, <1>9

(***************************************************************************)
(* While deletions do not overlap and no call fails, the user activity     *)
(* leads to everything settled that is no longer in the bucket, or will    *)
(* once the deletion that took it has recorded itself.                     *)
(***************************************************************************)
THEOREM OrderlyRecordsLeadToData == Spec => []RecordsLeadToData
<1> DEFINE Reach == orderly => \A o \in Objects : upload[o] = "settled" => Reaches(o)
<1>1. Init => Reach
  BY DEF Init
<1>2. TypeInv /\ KeptInv /\ WholeInv /\ Reach /\ [Next]_vars => Reach'
  <2> SUFFICES ASSUME TypeInv, KeptInv, WholeInv, Reach, [Next]_vars, orderly',
                      NEW o \in Objects, upload'[o] = "settled"
               PROVE  Reaches(o)'
    OBVIOUS
  <2>1. CASE UNCHANGED vars
    <3>1. Reaches(o)
      BY <2>1 DEF vars
    <3> QED  BY <2>1, <3>1 DEF vars, Reaches
  <2>2. CASE Next
    <3>1. orderly /\ Whole
      BY <2>2, OrderlyBefore DEF WholeInv
    <3>2. ASSUME NEW c \in Creators,
                 \/ CreateKDLProjectCR(c) \/ CreateBucket(c) \/ CreateProjectDirs(c)
                 \/ InsertProject(c) \/ CreateRefused(c) \/ CreateFails(c)
          PROVE  Reaches(o)'
      <4>1. UNCHANGED <<activity, backups, delete, upload>> /\ (o \in bucket => o \in bucket')
        BY <3>2, GoneAssumption
        DEF CreateKDLProjectCR, CreateBucket, CreateProjectDirs, InsertProject, CreateRefused,
            CreateFails, NoBucket
      <4> QED  BY <3>1, <4>1, ReachFrame
    <3>3. ASSUME NEW p \in Objects, Upload(p) \/ Erase(p)
          PROVE  Reaches(o)'
      <4>1. UNCHANGED <<activity, backups, delete>>
        BY <3>3 DEF Upload, Erase
      <4>2. CASE p = o
        BY <3>3, <4>2 DEF Upload, Erase, Reaches, TypeInv, TypeOK
      <4>3. CASE p # o
        <5>1. upload[o] = "settled" /\ (o \in bucket => o \in bucket')
          BY <3>3, <4>3 DEF Upload, Erase, TypeInv, TypeOK
        <5> QED  BY <3>1, <4>1, <5>1, ReachFrame
      <4> QED  BY <4>2, <4>3
    <3>4. CASE OperatorFinishes
      BY <3>1, <3>4 DEF OperatorFinishes, Reaches
    <3>5. ASSUME NEW d \in Deleters,
                 \/ StartDelete(d) \/ \E s \in Stamps : CreateBackup(d, s)
                 \/ ListObjects(d)
                 \/ \E p \in Objects :
                      ListLateObject(d, p) \/ MissErasedObject(d, p) \/ CopyObject(d, p)
                 \/ RemoveBucket(d) \/ DeleteKDLProjectCR(d) \/ DeleteOne(d)
                 \/ RecordActivity(d) \/ DeleteRefused(d) \/ DeleteFails(d)
          PROVE  Reaches(o)'
      <4>1. UNCHANGED upload
        BY <3>5 DEF StartDelete, CreateBackup, ListObjects, ListLateObject, MissErasedObject,
                    CopyObject, RemoveBucket, DeleteKDLProjectCR, DeleteOne, RecordActivity,
                    DeleteRefused, DeleteFails
      <4>2. upload[o] = "settled" /\ Reaches(o)
        BY <3>1, <4>1
      <4> QED  BY <3>1, <3>5, <4>2, DeleterReaches
    <3> QED  BY <2>2, <3>2, <3>3, <3>4, <3>5 DEF Next
  <2> QED  BY <2>1, <2>2
<1>3. Reach => RecordsLeadToData
  BY DEF Reaches, RecordsLeadToData
<1> HIDE DEF Reach
<1> QED  BY <1>1, <1>2, <1>3, TypeInvariance, KeptInvariance, WholeInvariance, PTL DEF Spec

-----------------------------------------------------------------------------
(***************************************************************************)
(* The backups that the activity names.                                    *)
(***************************************************************************)
Stamped(d) == delete[d].call \notin {"idle", "backup"}

\* A stamp belongs to one deletion, until it is recorded; what is recorded exists.
RecordInv ==
    /\ \A d, e \in Deleters :
        Stamped(d) /\ Stamped(e) /\ delete[d].stamp = delete[e].stamp => d = e
    /\ \A s \in activity :
        backups[s] # NoBucket /\ \A d \in Deleters : Stamped(d) => delete[d].stamp # s

\* A deletion goes on with the stamp it has, or ends.
LEMMA StampKept ==
    ASSUME TypeInv, RecordInv, NEW d \in Deleters, UNCHANGED <<activity, backups>>,
           \A e \in Deleters \ {d} : delete'[e] = delete[e],
           Stamped(d)' => Stamped(d) /\ delete'[d].stamp = delete[d].stamp
    PROVE  RecordInv'
<1>1. \A e \in Deleters :
        Stamped(e)' => Stamped(e) /\ delete'[e].stamp = delete[e].stamp
  BY DEF Stamped
<1> QED  BY <1>1 DEF RecordInv

LEMMA RecordStep ==
    ASSUME TypeInv, RecordInv, [Next]_vars
    PROVE  RecordInv' /\ \A s \in activity : backups[s] # NoBucket /\ backups'[s] = backups[s]
<1> USE DEF TypeInv, TypeOK
<1>1. ASSUME NEW d \in Deleters,
             \/ StartDelete(d) \/ ListObjects(d) \/ RemoveBucket(d) \/ DeleteKDLProjectCR(d)
             \/ DeleteOne(d) \/ DeleteRefused(d) \/ DeleteFails(d)
      PROVE  RecordInv' /\ UNCHANGED backups
  <2>1. /\ UNCHANGED <<activity, backups>>
        /\ \A e \in Deleters \ {d} : delete'[e] = delete[e]
    BY <1>1 DEF StartDelete, ListObjects, RemoveBucket, DeleteKDLProjectCR, DeleteOne,
                DeleteRefused, DeleteFails, DeleteStep, DeleteEnds
  <2>2. CASE StartDelete(d) \/ DeleteRefused(d) \/ DeleteFails(d)
    <3>1. delete'[d].call \in {"idle", "backup"}
      BY <2>2 DEF StartDelete, DeleteRefused, DeleteFails, DeleteStep, DeleteEnds, NotDeleting,
                  Deletion
    <3> QED  BY <2>1, <3>1, StampKept DEF Stamped
  <2>3. CASE ListObjects(d)
    <3>1. Stamped(d) /\ delete'[d].stamp = delete[d].stamp
      BY <2>3 DEF ListObjects, Deletion, Stamped
    <3> QED  BY <2>1, <3>1, StampKept
  <2>4. CASE RemoveBucket(d) \/ DeleteKDLProjectCR(d) \/ DeleteOne(d)
    <3>1. Stamped(d) /\ delete'[d].stamp = delete[d].stamp
      BY <2>4 DEF RemoveBucket, DeleteKDLProjectCR, DeleteOne, DeleteStep, Deletion, Stamped
    <3> QED  BY <2>1, <3>1, StampKept
  <2> QED  BY <1>1, <2>1, <2>2, <2>3, <2>4
<1>2. ASSUME NEW d \in Deleters, NEW s \in Stamps, CreateBackup(d, s)
      PROVE  RecordInv' /\ \A t \in activity : backups'[t] = backups[t]
  <2>1. /\ backups[s] = NoBucket /\ s \notin activity /\ UNCHANGED activity
        /\ delete'[d].stamp = s /\ \A e \in Deleters \ {d} : delete'[e] = delete[e]
        /\ \A t \in Stamps : t # s => backups'[t] = backups[t]
    BY <1>2 DEF CreateBackup, RecordInv, Deletion
  <2>2. \A e \in Deleters : Stamped(e) => delete[e].stamp # s
    BY <2>1 DEF StampInv, Stamped
  <2>3. \A e \in Deleters : Stamped(e)' =>
            e = d \/ (Stamped(e) /\ delete'[e].stamp = delete[e].stamp)
    BY <2>1 DEF Stamped
  <2> QED  BY <2>1, <2>2, <2>3 DEF RecordInv
<1>3. ASSUME NEW d \in Deleters, NEW o \in Objects,
             ListLateObject(d, o) \/ MissErasedObject(d, o) \/ CopyObject(d, o)
      PROVE  RecordInv' /\ \A t \in activity : backups'[t] = backups[t]
  <2>1. /\ UNCHANGED activity /\ Stamped(d)
        /\ \A t \in Stamps : t # delete[d].stamp => backups'[t] = backups[t]
    BY <1>3 DEF ListLateObject, MissErasedObject, CopyObject, Stamped
  <2>2. \A e \in Deleters : /\ delete'[e].call = delete[e].call
                            /\ delete'[e].stamp = delete[e].stamp
    <3>1. CASE ListLateObject(d, o)
      BY <3>1 DEF ListLateObject, Deletion
    <3>2. CASE CopyObject(d, o)
      BY <3>2 DEF CopyObject, Deletion
    <3>3. CASE MissErasedObject(d, o)
      BY <3>3 DEF MissErasedObject, Deletion
    <3> QED  BY <1>3, <3>1, <3>2, <3>3
  <2>3. \A t \in activity : backups'[t] = backups[t]
    BY <2>1 DEF RecordInv
  <2> QED  BY <2>1, <2>2, <2>3 DEF RecordInv, Stamped
<1>4. ASSUME NEW d \in Deleters, RecordActivity(d)
      PROVE  RecordInv' /\ UNCHANGED backups
  <2>1. /\ activity' = activity \union {delete[d].stamp} /\ UNCHANGED backups /\ Stamped(d)
        /\ ~Stamped(d)' /\ \A e \in Deleters \ {d} : delete'[e] = delete[e]
    BY <1>4 DEF RecordActivity, DeleteEnds, NotDeleting, Stamped
  <2>2. backups[delete[d].stamp] # NoBucket
    BY <2>1 DEF StampInv, Stamped
  <2>3. \A e \in Deleters : Stamped(e)' =>
            e # d /\ Stamped(e) /\ delete'[e].stamp = delete[e].stamp
    BY <2>1 DEF Stamped
  <2> QED  BY <2>1, <2>2, <2>3 DEF RecordInv
<1>5. CASE \/ UNCHANGED vars
           \/ \E c \in Creators :
                \/ CreateKDLProjectCR(c) \/ CreateBucket(c) \/ CreateProjectDirs(c)
                \/ InsertProject(c) \/ CreateRefused(c) \/ CreateFails(c)
           \/ OperatorFinishes
           \/ \E o \in Objects : Upload(o) \/ Erase(o)
  <2>1. UNCHANGED <<activity, backups, delete>>
    BY <1>5 DEF vars, CreateKDLProjectCR, CreateBucket, CreateProjectDirs, InsertProject,
                CreateRefused, CreateFails, OperatorFinishes, Upload, Erase
  <2> QED  BY <2>1 DEF RecordInv, Stamped
<1> QED
  BY <1>1, <1>2, <1>3, <1>4, <1>5 DEF Next, RecordInv

(***************************************************************************)
(* A backup that the activity names exists, and no deletion writes to it   *)
(* any more, however many deletions there are.                             *)
(***************************************************************************)
THEOREM RecordedBackupsStay == Spec => RecordedBackupsAreFinal
<1>1. Init => RecordInv
  BY DEF Init, RecordInv, Stamped, NotDeleting
<1>2. TypeInv /\ RecordInv /\ [Next]_vars =>
        /\ RecordInv'
        /\ [\A s \in activity : backups[s] # NoBucket /\ backups'[s] = backups[s]]_vars
  BY RecordStep
<1> QED  BY <1>1, <1>2, TypeInvariance, PTL DEF Spec, RecordedBackupsAreFinal

=============================================================================
