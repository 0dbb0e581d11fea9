-------------------------- MODULE ProjectLifecycle --------------------------
(***************************************************************************)
(* The life of one project id: interactor.Create and interactor.Delete     *)
(* (app/api/usecase/project/interactor.go) over the three stores they      *)
(* change one after the other without a transaction or a compensation:     *)
(* the KDLProject resource in Kubernetes, the bucket in MinIO and the      *)
(* document in MongoDB.                                                    *)
(*                                                                         *)
(* Each external call is one action.  A call that finds the store in the   *)
(* wrong state (a name that exists, an object that is gone) ends its       *)
(* handler with an error, and what the earlier calls did stays.  Any call  *)
(* may fail for a reason of its own, which also stands for a server that   *)
(* stops: nothing about a handler is stored.                               *)
(*                                                                         *)
(* Whoever works in the project's tools reads and writes the bucket        *)
(* directly, while the handlers run.                                       *)
(***************************************************************************)
CONSTANTS
    Creators,   \* the createProject handlers that can run at once
    Deleters,   \* the deleteProject handlers that can run at once
    Objects,    \* the uploads users make to the bucket: each happens once
    Stamps,     \* the milliseconds that name a backup bucket
    NoStamp,    \* a deleteProject handler that has no backup yet
    Gone        \* marks a bucket that does not exist

ASSUME GoneAssumption == Gone \notin Objects
ASSUME StampAssumption == NoStamp \notin Stamps

VARIABLES
    cr,         \* the KDLProject resource: none, made, or dying in the operator's hands
    bucket,     \* what the project's bucket holds
    backups,    \* what the backup bucket of each stamp holds
    doc,        \* the project's document exists
    activity,   \* the backups that the user activity collection names
    create,     \* the next call of each createProject handler
    delete,     \* the next call of each deleteProject handler, with its data
    upload,     \* history: what became of each upload
    orderly     \* history: no call has failed of its own, no deletions overlapped

history == <<upload, orderly>>

vars == <<cr, bucket, backups, doc, activity, create, delete, history>>

-----------------------------------------------------------------------------

CreateCalls == {"bucket", "dirs", "insert"}

DeleteCalls == {"backup", "list", "copy", "cr", "doc", "activity"}

NoBucket == {Gone}

Contents == (SUBSET Objects) \union {NoBucket}

Deletion ==
    [call : DeleteCalls \union {"idle"}, stamp : Stamps \union {NoStamp},
     todo : SUBSET Objects]

\* A handler that is not running.
NotDeleting == [call |-> "idle", stamp |-> NoStamp, todo |-> {}]

TypeOK ==
    /\ cr \in {"none", "made", "dying"}
    /\ bucket \in Contents
    /\ backups \in [Stamps -> Contents]
    /\ doc \in BOOLEAN
    /\ activity \in SUBSET Stamps
    /\ create \in [Creators -> CreateCalls \union {"idle"}]
    /\ delete \in [Deleters -> Deletion]
    /\ upload \in [Objects -> {"new", "settled", "late", "erased"}]
    /\ orderly \in BOOLEAN

Init ==
    /\ cr = "none"
    /\ bucket = NoBucket
    /\ backups = [s \in Stamps |-> NoBucket]
    /\ doc = FALSE
    /\ activity = {}
    /\ create = [c \in Creators |-> "idle"]
    /\ delete = [d \in Deleters |-> NotDeleting]
    /\ upload = [o \in Objects |-> "new"]
    /\ orderly = TRUE

-----------------------------------------------------------------------------
(***************************************************************************)
(* createProject.                                                          *)
(***************************************************************************)
CreateStep(c, call, next) ==
    /\ create[c] = call
    /\ create' = [create EXCEPT ![c] = next]

\* Mutant: the document is stored with the resource, not last.
CreateKDLProjectCRAndInsert(c) ==
    /\ cr = "none" /\ ~doc
    /\ cr' = "made" /\ doc' = TRUE
    /\ CreateStep(c, "idle", "bucket")
    /\ UNCHANGED <<bucket, backups, activity, delete, history>>

\* The validated request creates the resource.  While one of that name
\* exists, or is still dying, the request ends without effect.
CreateKDLProjectCR(c) ==
    /\ cr = "none"
    /\ cr' = "made"
    /\ CreateStep(c, "idle", "bucket")
    /\ UNCHANGED <<bucket, backups, doc, activity, delete, history>>

CreateBucket(c) ==
    /\ bucket = NoBucket
    /\ bucket' = {}
    /\ CreateStep(c, "bucket", "dirs")
    /\ UNCHANGED <<cr, backups, doc, activity, delete, history>>

\* The folder markers: empty objects, which no property tells apart.
CreateProjectDirs(c) ==
    /\ bucket # NoBucket
    /\ CreateStep(c, "dirs", "insert")
    /\ UNCHANGED <<cr, bucket, backups, doc, activity, delete, history>>

InsertProject(c) ==
    /\ ~doc
    /\ doc' = TRUE
    /\ CreateStep(c, "insert", "idle")
    /\ UNCHANGED <<cr, bucket, backups, activity, delete, history>>

\* ErrBucketAlreadyExists, no such bucket, or a duplicate _id.
CreateRefused(c) ==
    /\ \/ CreateStep(c, "bucket", "idle") /\ bucket # NoBucket
       \/ CreateStep(c, "dirs", "idle") /\ bucket = NoBucket
       \/ CreateStep(c, "insert", "idle") /\ doc
    /\ UNCHANGED <<cr, bucket, backups, doc, activity, delete, history>>

CreateFails(c) ==
    /\ create[c] # "idle"
    /\ create' = [create EXCEPT ![c] = "idle"]
    /\ orderly' = FALSE
    /\ UNCHANGED <<cr, bucket, backups, doc, activity, delete, upload>>

-----------------------------------------------------------------------------
(***************************************************************************)
(* deleteProject.                                                          *)
(***************************************************************************)
DeleteStep(d, call, next) ==
    /\ delete[d].call = call
    /\ delete' = [delete EXCEPT ![d].call = next]

DeleteEnds(d) == delete' = [delete EXCEPT ![d] = NotDeleting]

Alone(d) == \A e \in Deleters \ {d} : delete[e].call = "idle"

\* Mutant: a project without a document is deleted all the same.
StartDeleteWithoutProject(d) ==
    /\ DeleteStep(d, "idle", "backup")
    /\ orderly' = (orderly /\ Alone(d))
    /\ UNCHANGED <<cr, bucket, backups, doc, activity, create, upload>>

\* The handler reads the document and finds its caller among the admins.
\* Without a document it skips the deletion, and without the level it errs.
StartDelete(d) ==
    /\ doc
    /\ DeleteStep(d, "idle", "backup")
    /\ orderly' = (orderly /\ Alone(d))
    /\ UNCHANGED <<cr, bucket, backups, doc, activity, create, upload>>

\* Mutant: a backup bucket that exists is emptied and used again.
CreateBackupAgain(d, s) ==
    /\ delete[d].call = "backup"
    /\ backups' = [backups EXCEPT ![s] = {}]
    /\ delete' = [delete EXCEPT ![d] = [@ EXCEPT !.call = "list", !.stamp = s]]
    /\ UNCHANGED <<cr, bucket, doc, activity, create, history>>

\* The name is <bucket>-backup-<now>: CreateBucket refuses a name in use.
CreateBackup(d, s) ==
    /\ delete[d].call = "backup"
    /\ backups[s] = NoBucket
    /\ backups' = [backups EXCEPT ![s] = {}]
    /\ delete' = [delete EXCEPT ![d] = [@ EXCEPT !.call = "list", !.stamp = s]]
    /\ UNCHANGED <<cr, bucket, doc, activity, create, history>>

\* Mutant: a bucket that does not exist lists as empty.
ListObjectsOfNoBucket(d) ==
    /\ delete[d].call = "list"
    /\ delete' = [delete EXCEPT ![d] = [@ EXCEPT !.call = "copy", !.todo = bucket \ {Gone}]]
    /\ UNCHANGED <<cr, bucket, backups, doc, activity, create, history>>

ListObjects(d) ==
    /\ delete[d].call = "list"
    /\ bucket # NoBucket
    /\ delete' = [delete EXCEPT ![d] = [@ EXCEPT !.call = "copy", !.todo = bucket]]
    /\ UNCHANGED <<cr, bucket, backups, doc, activity, create, history>>

\* The listing is paged while the copying goes on: a late page may hold a late
\* upload, and may lack what was erased since.
ListLateObject(d, o) ==
    /\ delete[d].call = "copy"
    /\ o \in bucket
    /\ delete' = [delete EXCEPT ![d].todo = @ \union {o}]
    /\ UNCHANGED <<cr, bucket, backups, doc, activity, create, history>>

MissErasedObject(d, o) ==
    /\ delete[d].call = "copy"
    /\ bucket # NoBucket
    /\ o \in delete[d].todo \ bucket
    /\ delete' = [delete EXCEPT ![d].todo = @ \ {o}]
    /\ UNCHANGED <<cr, bucket, backups, doc, activity, create, history>>

CopyObject(d, o) ==
    LET s == delete[d].stamp IN
    /\ delete[d].call = "copy"
    /\ o \in delete[d].todo
    /\ o \in bucket
    /\ backups' = [backups EXCEPT ![s] = @ \union {o}]
    /\ delete' = [delete EXCEPT ![d].todo = @ \ {o}]
    /\ UNCHANGED <<cr, bucket, doc, activity, create, history>>

\* Mutant: the removal does not wait for the copies.
RemoveBucketEarly(d) ==
    /\ bucket # NoBucket
    /\ bucket' = NoBucket
    /\ DeleteStep(d, "copy", "cr")
    /\ UNCHANGED <<cr, backups, doc, activity, create, history>>

\* ForceDelete removes the bucket with whatever it holds by now.
RemoveBucket(d) ==
    /\ delete[d].todo = {}
    /\ bucket # NoBucket
    /\ bucket' = NoBucket
    /\ DeleteStep(d, "copy", "cr")
    /\ UNCHANGED <<cr, backups, doc, activity, create, history>>

\* The operator's finalizer keeps the resource; to delete it again is no error.
DeleteKDLProjectCR(d) ==
    /\ cr # "none"
    /\ cr' = "dying"
    /\ DeleteStep(d, "cr", "doc")
    /\ UNCHANGED <<bucket, backups, doc, activity, create, history>>

\* The operator has uninstalled the release and lets the resource go.
OperatorFinishes ==
    /\ cr = "dying"
    /\ cr' = "none"
    /\ UNCHANGED <<bucket, backups, doc, activity, create, delete, history>>

DeleteOne(d) ==
    /\ doc
    /\ doc' = FALSE
    /\ DeleteStep(d, "doc", "activity")
    /\ UNCHANGED <<cr, bucket, backups, activity, create, history>>

\* Mutant: the clock is read again for the record, which names no backup.
RecordLaterStamp(d) ==
    /\ delete[d].call = "activity"
    /\ activity' \in {activity \union {s} : s \in Stamps \ {delete[d].stamp}}
    /\ DeleteEnds(d)
    /\ UNCHANGED <<cr, bucket, backups, doc, create, history>>

RecordActivity(d) ==
    /\ delete[d].call = "activity"
    /\ activity' = activity \union {delete[d].stamp}
    /\ DeleteEnds(d)
    /\ UNCHANGED <<cr, bucket, backups, doc, create, history>>

\* A name in use, no such bucket, no such object, no such resource, or no document.
DeleteRefused(d) ==
    /\ \/ delete[d].call = "backup" /\ \E s \in Stamps : backups[s] # NoBucket
       \/ delete[d].call = "list" /\ bucket = NoBucket
       \/ delete[d].call = "copy" /\ (bucket = NoBucket \/ ~(delete[d].todo \subseteq bucket))
       \/ delete[d].call = "cr" /\ cr = "none"
       \/ delete[d].call = "doc" /\ ~doc
    /\ DeleteEnds(d)
    /\ UNCHANGED <<cr, bucket, backups, doc, activity, create, history>>

DeleteFails(d) ==
    /\ delete[d].call # "idle"
    /\ DeleteEnds(d)
    /\ orderly' = FALSE
    /\ UNCHANGED <<cr, bucket, backups, doc, activity, create, upload>>

-----------------------------------------------------------------------------
(***************************************************************************)
(* The users of the bucket.  An upload is late when a deletion has already *)
(* listed the bucket it goes to.                                           *)
(***************************************************************************)
Upload(o) ==
    /\ upload[o] = "new"
    /\ bucket # NoBucket
    /\ bucket' = bucket \union {o}
    /\ upload' = [upload EXCEPT ![o] =
                    IF \E d \in Deleters : delete[d].call = "copy" THEN "late" ELSE "settled"]
    /\ UNCHANGED <<cr, backups, doc, activity, create, delete, orderly>>

Erase(o) ==
    /\ o \in bucket
    /\ bucket' = bucket \ {o}
    /\ upload' = [upload EXCEPT ![o] = "erased"]
    /\ UNCHANGED <<cr, backups, doc, activity, create, delete, orderly>>

Next ==
    \/ \E c \in Creators :
        \/ CreateKDLProjectCR(c)
        \/ CreateBucket(c)
        \/ CreateProjectDirs(c)
        \/ InsertProject(c)
        \/ CreateRefused(c)
        \/ CreateFails(c)
    \/ \E d \in Deleters :
        \/ StartDelete(d)
        \/ \E s \in Stamps : CreateBackup(d, s)
        \/ ListObjects(d)
        \/ \E o \in Objects : ListLateObject(d, o) \/ MissErasedObject(d, o) \/ CopyObject(d, o)
        \/ RemoveBucket(d)
        \/ DeleteKDLProjectCR(d)
        \/ DeleteOne(d)
        \/ RecordActivity(d)
        \/ DeleteRefused(d)
        \/ DeleteFails(d)
    \/ OperatorFinishes
    \/ \E o \in Objects : Upload(o) \/ Erase(o)

Spec == Init /\ [][Next]_vars

-----------------------------------------------------------------------------

BackedUp(o) == \E s \in Stamps : o \in backups[s]

(***************************************************************************)
(* DeleteBucket copies before it removes: however creations, deletions,    *)
(* faults and users interleave, an upload that nobody erased and that did  *)
(* not arrive after a deletion had listed the bucket is in the project's   *)
(* bucket or in a backup.                                                  *)
(***************************************************************************)
SettledUploadsKept ==
    \A o \in Objects : upload[o] = "settled" => o \in bucket \/ BackedUp(o)

(***************************************************************************)
(* A project that users can see has its resource and its bucket unless a   *)
(* deletion is taking them away.  Create writes the document last and      *)
(* Delete removes it last, but that is enough only while no call fails and *)
(* deletions do not overlap: without rollback the stores part for good.    *)
(***************************************************************************)
VisibleProjectIsWhole ==
    orderly /\ doc /\ (\A d \in Deleters : delete[d].call \notin {"cr", "doc"})
        => cr = "made" /\ bucket # NoBucket

(***************************************************************************)
(* A backup that the user activity names exists and is written no more,    *)
(* though a deletion writes its backup long before the record and other    *)
(* deletions of the same project may be making theirs.  It need not hold   *)
(* all that was settled: after deletions that failed half-way, the one     *)
(* that succeeds may record an empty backup of a bucket made anew, while   *)
(* the data is in a backup that no record names.                           *)
(***************************************************************************)
RecordedBackupsAreFinal ==
    [][\A s \in activity : backups[s] # NoBucket /\ backups'[s] = backups[s]]_vars

PastRemoval == {"cr", "doc", "activity"}

(***************************************************************************)
(* The record leads to the data while no call fails and deletions do not   *)
(* overlap: a settled upload that nobody erased is in the bucket, in a     *)
(* backup that the user activity names, or in the backup of a deletion     *)
(* that has removed the bucket and is on its way to record it, whatever    *)
(* was created, deleted and created again before.                          *)
(***************************************************************************)
RecordsLeadToData ==
    orderly => \A o \in Objects : upload[o] = "settled" =>
        \/ o \in bucket
        \/ \E s \in activity : o \in backups[s]
        \/ \E d \in Deleters : /\ delete[d].call \in PastRemoval
                               /\ o \in backups[delete[d].stamp]

Quiet ==
    /\ \A c \in Creators : create[c] = "idle"
    /\ \A d \in Deleters : delete[d].call \in {"idle", "activity"}

(***************************************************************************)
(* Creation is not retryable: what a creation that failed after its first  *)
(* call leaves behind makes every later one fail on the resource, and      *)
(* Delete skips a project that has no document.                            *)
(***************************************************************************)
HalfCreated == cr = "made" /\ ~doc /\ Quiet

HalfCreatedIsFinal == [][HalfCreated => HalfCreated']_vars

(***************************************************************************)
(* Deletion is not retryable: once the bucket is gone and the resource and *)
(* the document are not, every later deletion fails on the listing of the  *)
(* missing bucket, and every creation on the resource.                     *)
(***************************************************************************)
HalfDeleted ==
    /\ doc /\ cr = "made" /\ bucket = NoBucket
    /\ \A c \in Creators : create[c] = "idle"
    /\ \A d \in Deleters : delete[d].call \in {"idle", "backup", "list", "activity"}

HalfDeletedIsFinal == [][HalfDeleted => HalfDeleted']_vars

=============================================================================
