---------------------------- MODULE ObjectStore ----------------------------
(***************************************************************************)
(* The buckets of a MinIO server and what the program does to them:        *)
(* Backup and Apply of the minio service (minio.go), and the handlers of   *)
(* the object browser that upload, delete and archive (server/browse.go).  *)
(*                                                                         *)
(* Every call of the S3 API is a step, and backups, applies, browser       *)
(* requests and other clients of the server interleave between any two.    *)
(* A call may fail, and a session or a request be cut off, at any step.    *)
(*                                                                         *)
(* A key is the sequence of its segments.  Folders are prefixes of keys; a *)
(* key that ends in "/", as other clients write to make an empty folder,   *)
(* has "" for its last segment.                                            *)
(***************************************************************************)
EXTENDS Integers, Sequences, FiniteSets, SequencesExt

CONSTANTS
  Bucket,      \* bucket names
  Configured,  \* the buckets field of the service's definition
  Key,         \* object keys
  Content,     \* what an object may hold
  Job,         \* sessions that back up or apply
  Request,     \* browser requests to delete or to archive
  Together,    \* bound: the sets of jobs and requests that run side by side
  MaxSelected, \* bound: the keys and folders of a selection
  MaxPending,  \* bound: the depth to which a folder that lists itself is walked
  MaxObjects,  \* bound: the objects at the start
  MaxWrites,   \* bound: uploads, and changes by other clients
  None

ASSUME BucketAssumption == Bucket # {} /\ Configured \subseteq Bucket
ASSUME NoneAssumption == None \notin Content \cup Bucket \cup Job \cup Request
ASSUME BoundAssumption == {MaxSelected, MaxPending, MaxObjects, MaxWrites} \subseteq Nat

ASSUME ActorAssumption == Job \cap Request = {}

ASSUME FiniteAssumption == Key # {} /\ IsFiniteSet(Key) /\ Key \subseteq Seq(STRING)

\* MinIO has no object under the name of a folder, nor one without a name.
ASSUME KeyAssumption ==
  \A k \in Key : /\ Len(k) >= 1 /\ k # <<"">>
                 /\ \A l \in Key : ~IsStrictPrefix(k, l)

VARIABLES
  store,   \* the objects of each bucket
  disk,    \* the snapshot folder of each backup
  job,     \* backups and applies
  req,     \* browser requests
  calm,    \* history: jobs and requests since whose begin nobody else has
           \* changed the store
  since,   \* history: what was put into its bucket since a request came
  writes   \* how many uploads and foreign changes there were

vars == <<store, disk, job, req, calm, since, writes>>

\* The objects of a bucket that is not there.
Gone == <<>>

Empty == [k \in Key |-> None]

Exists(b) == store[b] # Gone

KeysIn(b) == {k \in Key : Exists(b) /\ store[b][k] # None}

\* The folders that a listing can name: every "/" in a key ends one.
Folder == UNION {{SubSeq(k, 1, n) : n \in 1 .. Len(k) - 1} : k \in Key}

\* A key ending in "/" has its folder's name once filepath.Join has cleaned it.
Path(k) == IF Last(k) = "" THEN Front(k) ELSE k

Objects == Bucket \X Key

Manifests == [buckets : SUBSET Bucket, objects : SUBSET Objects]

NoManifest == [buckets |-> {}, objects |-> {}]

Files == Bucket \X {Path(k) : k \in Key} \X Content

Holds(files, b, k, c) == <<b, Path(k), c>> \in files

\* manifest: what a backup collects or an apply has read; left, todo: the buckets
\* and objects still to come; ask: what an apply is still to ensure, the configured
\* buckets (1) before those of the manifest (2); at: the one it has found missing.
Jobs == [step : {"idle", "list", "objects", "ensure", "success", "failed"},
         kind : {"backup", "apply"}, of : Job, want : SUBSET Bucket,
         manifest : Manifests, left : SUBSET Bucket, todo : SUBSET Objects,
         ask : SUBSET ({1, 2} \X Bucket), at : Bucket \cup {None}]

\* folders: those still to be listed, as the recursion will come to them; out: what
\* collectSelectionKeys has collected; todo: what of it is still to be deleted or
\* archived; directory: whether the zip was completed with its list of entries.
Requests == [step : {"idle", "walk", "act", "done", "failed"},
             kind : {"delete", "archive"}, bucket : Bucket,
             keys : SUBSET Key, prefixes : SUBSET Folder,
             folders : Seq(Folder), out : SUBSET Key, todo : SUBSET Key,
             directory : BOOLEAN]

\* The type invariant; what is on disk are files of known contents.
TypeOK ==
  /\ store \in [Bucket -> [Key -> Content \cup {None}] \cup {Gone}]
  /\ disk \in [Job -> [files : SUBSET Files, manifest : Manifests \cup {None}]]
  /\ job \in [Job -> Jobs]
  /\ req \in [Request -> Requests]
  /\ calm \in SUBSET (Job \cup Request)
  /\ since \in [Request -> SUBSET Key]
  /\ writes \in 0 .. MaxWrites

NoFolder == [files |-> {}, manifest |-> None]

Init ==
  /\ \E c \in Content : store \in [Bucket -> [Key -> {c, None}] \cup {Gone}]
  /\ Cardinality(UNION {{b} \X KeysIn(b) : b \in Bucket}) <= MaxObjects
  /\ disk = [j \in Job |-> NoFolder]
  /\ job = [j \in Job |-> [step |-> "idle", kind |-> "backup", of |-> j, want |-> {},
                           manifest |-> NoManifest, left |-> {}, todo |-> {}, ask |-> {},
                           at |-> None]]
  /\ req = [r \in Request |-> [step |-> "idle", kind |-> "delete",
                               bucket |-> CHOOSE b \in Bucket : TRUE,
                               keys |-> {}, prefixes |-> {}, folders |-> <<>>,
                               out |-> {}, todo |-> {}, directory |-> FALSE]]
  /\ calm = {}
  /\ since = [r \in Request |-> {}]
  /\ writes = 0

Begun == {j \in Job : job[j].step # "idle"} \cup {r \in Request : req[r].step # "idle"}

MayBegin(p) == \E s \in Together : Begun \cup {p} \subseteq s

-----------------------------------------------------------------------------
(***************************************************************************)
(* Calls that change the store, by p.                                      *)
(***************************************************************************)
Change(p, b, objects, puts) ==
  /\ store' = [store EXCEPT ![b] = objects]
  /\ calm' = calm \cap {p}
  /\ since' = [r \in Request |-> IF req[r].step # "idle" /\ req[r].bucket = b
                                THEN since[r] \cup puts ELSE since[r]]

Put(p, b, k, c) == Exists(b) /\ Change(p, b, [store[b] EXCEPT ![k] = c], {k})

\* S3 does not tell whether the object was there.
RemoveObject(p, b, k) == Exists(b) /\ Change(p, b, [store[b] EXCEPT ![k] = None], {})

MakeBucket(p, b) == ~Exists(b) /\ Change(p, b, Empty, {})

RemoveBucket(p, b) == store[b] = Empty /\ Change(p, b, Gone, {})

Reads == UNCHANGED <<store, calm, since>>

JobGoes(j, job1) == job' = [job EXCEPT ![j] = job1]

JobEnds(j, step) == JobGoes(j, [job[j] EXCEPT !.step = step, !.left = {}, !.todo = {},
                                              !.ask = {}, !.at = None])

-----------------------------------------------------------------------------
(***************************************************************************)
(* Backup: the buckets, the objects of one bucket after the other, and the *)
(* manifest when all are on disk.  The order within a listing is left open.*)
(* A backup that fails is cleaned up by its session, which BackupSessions  *)
(* models: its folder is gone.                                             *)
(***************************************************************************)
StartBackup(j) ==
  /\ job[j].step = "idle" /\ MayBegin(j)
  /\ \E want \in SUBSET Bucket : JobGoes(j, [job[j] EXCEPT !.step = "list", !.want = want])
  /\ calm' = calm \cup {j}
  /\ UNCHANGED <<store, disk, req, since, writes>>

\* No selection is every bucket; a selected bucket that is gone is skipped.
Selected(want) == {b \in Bucket : Exists(b) /\ (want = {} \/ b \in want)}

ListBuckets(j) ==
  /\ job[j].step = "list"
  /\ JobGoes(j, [job[j] EXCEPT !.step = "objects", !.left = Selected(job[j].want),
                               !.manifest.buckets = Selected(job[j].want)])
  /\ UNCHANGED <<disk, req, writes>> /\ Reads

BackupFails(j) ==
  /\ JobEnds(j, "failed")
  /\ disk' = [disk EXCEPT ![j] = NoFolder]

ListObjects(j) ==
  /\ job[j].step = "objects" /\ job[j].todo = {}
  /\ \E b \in job[j].left :
       \/ /\ Exists(b)
          /\ JobGoes(j, [job[j] EXCEPT !.left = @ \ {b}, !.todo = {b} \X KeysIn(b)])
          /\ UNCHANGED disk
       \/ ~Exists(b) /\ BackupFails(j)
  /\ UNCHANGED <<req, writes>> /\ Reads

\* A file cannot be made where a directory is, nor below a file.
Blocked(files, b, path) ==
  \E f \in files : f[1] = b /\ (IsStrictPrefix(f[2], path) \/ IsStrictPrefix(path, f[2]))

\* os.Create truncates what is there.
\* Mutant: the folder of the bucket is made anew for each object.
WrittenAlone(files, b, path, c) == {f \in files : f[1] # b} \cup {<<b, path, c>>}

Written(files, b, path, c) ==
  {f \in files : f[1] # b \/ f[2] # path} \cup {<<b, path, c>>}

Downloadable(j, b, k) == k \in KeysIn(b) /\ ~Blocked(disk[j].files, b, Path(k))

Download(j) ==
  /\ job[j].step = "objects"
  /\ \E o \in job[j].todo :
       LET b == o[1]
           k == o[2]
       IN \/ /\ Downloadable(j, b, k)
             /\ disk' = [disk EXCEPT ![j].files = Written(@, b, Path(k), store[b][k])]
             /\ JobGoes(j, [job[j] EXCEPT !.todo = @ \ {o}, !.manifest.objects = @ \cup {o}])
          \/ ~Downloadable(j, b, k) /\ BackupFails(j)
  /\ UNCHANGED <<req, writes>> /\ Reads

\* Mutant: after the first bucket.
WriteManifestEarly(j) ==
  /\ job[j].step = "objects" /\ job[j].todo = {}
  /\ disk' = [disk EXCEPT ![j].manifest = job[j].manifest]
  /\ JobEnds(j, "success")
  /\ UNCHANGED <<req, writes>> /\ Reads

WriteManifest(j) ==
  /\ job[j].step = "objects" /\ job[j].left = {} /\ job[j].todo = {}
  /\ disk' = [disk EXCEPT ![j].manifest = job[j].manifest]
  /\ JobEnds(j, "success")
  /\ UNCHANGED <<req, writes>> /\ Reads

-----------------------------------------------------------------------------
(***************************************************************************)
(* Apply: the manifest is read at once; then the configured buckets and    *)
(* those of the manifest are ensured, and its objects are uploaded.        *)
(***************************************************************************)
StartApply(j) ==
  /\ job[j].step = "idle" /\ MayBegin(j)
  /\ \E i \in Job :
       LET read == IF disk[i].manifest = None THEN NoManifest ELSE disk[i].manifest
       IN  JobGoes(j, [job[j] EXCEPT !.step = "ensure", !.kind = "apply", !.of = i,
                         !.manifest = read, !.todo = read.objects,
                         !.ask = ({1} \X Configured) \cup ({2} \X read.buckets)])
  /\ calm' = calm \cup {j}
  /\ UNCHANGED <<store, disk, req, since, writes>>

\* ensureBucket asks whether the bucket is there, and makes it if it was not.
AskForBucket(j) ==
  /\ job[j].step = "ensure" /\ job[j].at = None
  /\ \E a \in job[j].ask :
       /\ \A a1 \in job[j].ask : a[1] <= a1[1]
       /\ JobGoes(j, [job[j] EXCEPT !.ask = @ \ {a}, !.at = IF Exists(a[2]) THEN None ELSE a[2]])
  /\ UNCHANGED <<disk, req, writes>> /\ Reads

MakeMissing(j) ==
  /\ job[j].step = "ensure" /\ job[j].at # None
  /\ \/ MakeBucket(j, job[j].at) /\ JobGoes(j, [job[j] EXCEPT !.at = None])
     \/ Exists(job[j].at) /\ JobEnds(j, "failed") /\ Reads
  /\ UNCHANGED <<disk, req, writes>>

\* Mutant: the buckets are made by the way.
EnsuredLater(j) == job[j].step = "ensure" /\ job[j].at = None

Ensured(j) == job[j].step = "ensure" /\ job[j].at = None /\ job[j].ask = {}

\* An upload opens the object's file and puts it under its key.
Upload(j) ==
  /\ Ensured(j)
  /\ \E o \in job[j].todo :
       LET files == disk[job[j].of].files
           found == {c \in Content : Holds(files, o[1], o[2], c)}
       IN \/ /\ \E c \in found : Put(j, o[1], o[2], c)
             /\ JobGoes(j, [job[j] EXCEPT !.todo = @ \ {o}])
          \/ /\ ~Exists(o[1]) \/ found = {}
             /\ JobEnds(j, "failed") /\ Reads
  /\ UNCHANGED <<disk, req, writes>>

Applied(j) ==
  /\ Ensured(j) /\ job[j].todo = {}
  /\ JobEnds(j, "success")
  /\ UNCHANGED <<disk, req, writes>> /\ Reads

\* A call fails, or the session is cancelled.
JobIsCut(j) ==
  /\ job[j].step \in {"list", "objects", "ensure"}
  /\ IF job[j].kind = "backup" THEN BackupFails(j)
     ELSE JobEnds(j, "failed") /\ UNCHANGED disk
  /\ UNCHANGED <<req, writes>> /\ Reads

-----------------------------------------------------------------------------
(***************************************************************************)
(* Delete and archive of a selection: its folders are listed, one level at *)
(* a time, before anything is deleted or archived.                         *)
(***************************************************************************)
ReqGoes(r, req1) == req' = [req EXCEPT ![r] = req1]

ReqEnds(r, step) == ReqGoes(r, [req[r] EXCEPT !.step = step])

Begin(r) ==
  /\ req[r].step = "idle" /\ MayBegin(r)
  /\ \E kind \in {"delete", "archive"}, b \in Bucket,
        keys \in SUBSET Key, prefixes \in SUBSET Folder :
       /\ Cardinality(keys) + Cardinality(prefixes) \in 1 .. MaxSelected
       /\ ReqGoes(r, [req[r] EXCEPT !.step = "walk", !.kind = kind, !.bucket = b,
                        !.keys = keys, !.prefixes = prefixes, !.out = keys,
                        !.folders = SetToSeq(prefixes)])
  /\ calm' = calm \cup {r}
  /\ UNCHANGED <<store, disk, job, since, writes>>

Under(f, k) == IsStrictPrefix(f, k)

\* Mutant: a listing of the bucket.
ObjectsOfBucket(b, f) == {k \in KeysIn(b) : Last(k) # ""}

\* What a listing of folder f shows as objects: what ends in "/" is not one.
ObjectsAt(b, f) == {k \in KeysIn(b) : Under(f, k) /\ Len(k) = Len(f) + 1 /\ Last(k) # ""}

\* Mutant: only the level itself.
NoFoldersAt(b, f) == {}

\* What it shows as folders: f itself, first, if its marker is there, and those of the
\* next level that hold something.
FoldersAt(b, f) ==
  {SubSeq(k, 1, Len(f) + 1) : k \in {l \in KeysIn(b) : Under(f, l) /\ Len(l) > Len(f) + 1}}

Itself(b, f) == IF f \o <<"">> \in KeysIn(b) THEN <<f>> ELSE <<>>

Walk(r) ==
  /\ req[r].step = "walk" /\ req[r].folders # <<>> /\ Len(req[r].folders) <= MaxPending
  /\ LET b == req[r].bucket
         f == Head(req[r].folders)
     IN \/ /\ Exists(b)
           /\ ReqGoes(r, [req[r] EXCEPT !.out = @ \cup ObjectsAt(b, f),
                            !.folders = Itself(b, f) \o SetToSeq(FoldersAt(b, f)) \o Tail(@)])
        \/ ~Exists(b) /\ ReqEnds(r, "failed")
  /\ UNCHANGED <<disk, job, writes>> /\ Reads

\* An archive of nothing is refused.
Walked(r) ==
  /\ req[r].step = "walk" /\ req[r].folders = <<>>
  /\ IF req[r].kind = "archive" /\ req[r].out = {}
     THEN ReqEnds(r, "failed")
     ELSE ReqGoes(r, [req[r] EXCEPT !.step = "act", !.todo = req[r].out])
  /\ UNCHANGED <<disk, job, writes>> /\ Reads

DeleteOne(r) ==
  /\ req[r].step = "act" /\ req[r].kind = "delete"
  /\ \E k \in req[r].todo :
       \/ /\ RemoveObject(r, req[r].bucket, k)
          /\ ReqGoes(r, [req[r] EXCEPT !.todo = @ \ {k}])
       \/ ~Exists(req[r].bucket) /\ ReqEnds(r, "failed") /\ Reads
  /\ UNCHANGED <<disk, job, writes>>

\* The zip is closed on every return of the handler, which completes it.
Closed(r, step) == ReqGoes(r, [req[r] EXCEPT !.step = step, !.directory = TRUE])

\* Mutant: an object that is not there is left out.
ArchiveIfThere(r) ==
  /\ req[r].step = "act" /\ req[r].kind = "archive"
  /\ \E k \in req[r].todo : ReqGoes(r, [req[r] EXCEPT !.todo = @ \ {k}])
  /\ UNCHANGED <<disk, job, writes>> /\ Reads

ArchiveOne(r) ==
  /\ req[r].step = "act" /\ req[r].kind = "archive"
  /\ \E k \in req[r].todo :
       IF k \in KeysIn(req[r].bucket)
       THEN ReqGoes(r, [req[r] EXCEPT !.todo = @ \ {k}])
       ELSE Closed(r, "failed")
  /\ UNCHANGED <<disk, job, writes>> /\ Reads

Answer(r) ==
  /\ req[r].step = "act" /\ req[r].todo = {}
  /\ IF req[r].kind = "archive" THEN Closed(r, "done") ELSE ReqEnds(r, "done")
  /\ UNCHANGED <<disk, job, writes>> /\ Reads

\* A call fails or times out.
ReqIsCut(r) ==
  /\ req[r].step \in {"walk", "act"}
  /\ IF req[r].kind = "archive" /\ req[r].step = "act" THEN Closed(r, "failed")
     ELSE ReqEnds(r, "failed")
  /\ UNCHANGED <<disk, job, writes>> /\ Reads

\* handleBrowseUpload: one call, whose object appears when it is complete.
HandleUpload ==
  /\ writes < MaxWrites /\ writes' = writes + 1
  /\ \E b \in Bucket, k \in Key, c \in Content : Last(k) # "" /\ Put(None, b, k, c)
  /\ UNCHANGED <<disk, job, req>>

\* Other clients of the server.
OthersChange ==
  /\ writes < MaxWrites /\ writes' = writes + 1
  /\ \E b \in Bucket : \/ MakeBucket(None, b) \/ RemoveBucket(None, b)
                       \/ \E k \in Key : \/ RemoveObject(None, b, k)
                                         \/ \E c \in Content : Put(None, b, k, c)
  /\ UNCHANGED <<disk, job, req>>

Next ==
  \/ \E j \in Job : \/ StartBackup(j) \/ ListBuckets(j) \/ ListObjects(j) \/ Download(j)
                    \/ WriteManifest(j) \/ StartApply(j) \/ AskForBucket(j)
                    \/ MakeMissing(j) \/ Upload(j) \/ Applied(j) \/ JobIsCut(j)
  \/ \E r \in Request : \/ Begin(r) \/ Walk(r) \/ Walked(r) \/ DeleteOne(r)
                        \/ ArchiveOne(r) \/ Answer(r) \/ ReqIsCut(r)
  \/ HandleUpload
  \/ OthersChange

Spec == Init /\ [][Next]_vars

-----------------------------------------------------------------------------
(***************************************************************************)
(* Properties.                                                             *)
(***************************************************************************)

\* A snapshot that has a manifest has a file for every object it lists, whatever
\* other clients did meanwhile: Apply uploads from the list, and stops at the first
\* file that it lacks (minio.go, Backup and uploadObject).
ManifestIsBacked ==
  \A j \in Job : disk[j].manifest # None =>
    \A o \in disk[j].manifest.objects :
      /\ o[1] \in disk[j].manifest.buckets
      /\ \E c \in Content : Holds(disk[j].files, o[1], o[2], c)

\* A backup that succeeded while nobody wrote to the store mirrors the buckets it
\* was asked for: the empty ones, and each object under its key with its content
\* (minio.go, Backup).
BackupIsFaithful ==
  \A j \in calm \cap Job :
    job[j].step = "success" /\ job[j].kind = "backup" =>
      LET buckets == Selected(job[j].want)
      IN  /\ disk[j].manifest.buckets = buckets
          /\ disk[j].manifest.objects = UNION {{b} \X KeysIn(b) : b \in buckets}
          /\ \A b \in buckets : \A k \in KeysIn(b) : Holds(disk[j].files, b, k, store[b][k])

\* An apply that succeeded while nobody else wrote has brought back what its
\* snapshot holds and made the configured buckets, whatever the store held before
\* (minio.go, Apply).
RestoreBringsBack ==
  \A j \in calm \cap Job :
    job[j].step = "success" /\ job[j].kind = "apply" =>
      /\ \A b \in Configured \cup job[j].manifest.buckets : Exists(b)
      /\ \A o \in job[j].manifest.objects :
           /\ o[2] \in KeysIn(o[1])
           /\ Holds(disk[job[j].of].files, o[1], o[2], store[o[1]][o[2]])

Covered(r) == req[r].keys \cup {k \in Key : \E f \in req[r].prefixes : Under(f, k)}

\* After a delete that was answered with success, of the selected objects and of
\* what was anywhere below the selected folders only that is there which was put
\* there since the request came (browse.go, handleBrowseDelete).
DeletedAreGone ==
  \A r \in Request :
    req[r].step = "done" /\ req[r].kind = "delete" =>
      Covered(r) \cap KeysIn(req[r].bucket) \subseteq since[r]

\* A request removes nothing outside its selection, and an archive nothing at all,
\* however the folders change while it walks them (browse.go, collectSelectionKeys).
OnlySelectedGo ==
  [][\A r \in Request : req'[r] # req[r] =>
       \A b \in Bucket : \A k \in KeysIn(b) \ KeysIn(b)' :
         b = req[r].bucket /\ k \in Covered(r) /\ req[r].kind = "delete"]_vars

\* An archive that was written to its end while nobody wrote to the store holds
\* exactly the selected objects and what is below the selected folders; a selection
\* that names an object that is not there does not get this far (browse.go,
\* handleBrowseArchive).
ArchiveIsWhole ==
  \A r \in calm \cap Request :
    req[r].step = "done" /\ req[r].kind = "archive" =>
      req[r].out = Covered(r) \cap KeysIn(req[r].bucket)

\* An archive that lacks some of its objects is truncated, so that the client can
\* tell (browse.go:207-209).  The code closes the zip, and the client cannot.
TruncationShows ==
  \A r \in Request : req[r].directory => req[r].todo = {}

=============================================================================
