--------------------------- MODULE ServicesProofs ---------------------------
(***************************************************************************)
(* What backups, applies, deletes and archives of objects that succeed     *)
(* have done, for any buckets, any finite set of keys of any depth, any    *)
(* number of sessions and requests, and any changes by other clients; and  *)
(* what a dump of a Postgres database and its restore do, for any tables,  *)
(* whatever refers to what, any ids and any writes beside the dump.        *)
(***************************************************************************)
EXTENDS Services, FiniteSetTheorems, WellFoundedInduction, TLAPS

-----------------------------------------------------------------------------
(***************************************************************************)
(* Sequences of the elements of a set.                                     *)
(***************************************************************************)

\* The values of a function on a finite set are finitely many.
LEMMA FiniteImage ==
  ASSUME NEW S, IsFiniteSet(S), NEW f, DOMAIN f = S
  PROVE  IsFiniteSet({f[x] : x \in S})
<1> DEFINE T == {f[x] : x \in S}
           g == [x \in S |-> f[x]]
<1>1. g \in Surjection(S, T)
  BY DEF Surjection
<1> QED BY <1>1, FS_Surjection

\* SetToSeq lists every element of a finite set, and nothing else.
LEMMA SetToSeqLists ==
  ASSUME NEW S, IsFiniteSet(S)
  PROVE  /\ SetToSeq(S) \in Seq(S)
         /\ \A x \in S : \E i \in 1 .. Len(SetToSeq(S)) : SetToSeq(S)[i] = x
<1> DEFINE n == Cardinality(S)
           s == SetToSeq(S)
<1>1. n \in Nat /\ ExistsBijection(1 .. n, S)
  BY FS_CardinalityType
<1>2. \E f \in [1 .. n -> S] : IsInjective(f)
  BY <1>1 DEF ExistsBijection, Bijection, Injection
<1>3. s \in [1 .. n -> S] /\ IsInjective(s)
  BY <1>2 DEF SetToSeq
<1>4. s \in Injection(1 .. n, S)
  BY <1>3 DEF Injection
<1>5. Cardinality(1 .. n) = n
  BY <1>1, FS_Interval
<1>6. s \in Surjection(1 .. n, S)
  BY <1>4, <1>5, FS_Injection
<1>7. s \in Seq(S) /\ Len(s) = n
  BY <1>1, <1>3
<1> QED BY <1>6, <1>7 DEF Surjection

-----------------------------------------------------------------------------
(***************************************************************************)
(* Keys and folders.                                                       *)
(***************************************************************************)

LEMMA FolderType ==
  ASSUME NEW f \in Folder
  PROVE  f \in Seq(STRING) /\ Len(f) >= 1
<1>1. PICK k \in Key : \E n \in 1 .. Len(k) - 1 : f = SubSeq(k, 1, n)
  BY DEF Folder
<1>2. PICK n \in 1 .. Len(k) - 1 : f = SubSeq(k, 1, n)
  BY <1>1
<1>3. k \in Seq(STRING)
  BY FiniteAssumption
<1> QED BY <1>2, <1>3

\* There are finitely many folders.
LEMMA FoldersFinite == IsFiniteSet(Folder)
<1> DEFINE g == [k \in Key |-> {SubSeq(k, 1, n) : n \in 1 .. Len(k) - 1}]
<1>1. ASSUME NEW k \in Key PROVE IsFiniteSet(g[k])
  <2> DEFINE m == Len(k) - 1
             h == [n \in 1 .. m |-> SubSeq(k, 1, n)]
  <2>1. m \in Int
    BY FiniteAssumption
  <2>2. IsFiniteSet(1 .. m)
    BY <2>1, FS_Interval
  <2>3. IsFiniteSet({h[n] : n \in 1 .. m})
    BY <2>2, FiniteImage
  <2>4. g[k] = {h[n] : n \in 1 .. m}
    OBVIOUS
  <2> QED BY <2>3, <2>4
<1>2. IsFiniteSet({g[k] : k \in Key})
  BY FiniteAssumption, FiniteImage
<1>3. IsFiniteSet(UNION {g[k] : k \in Key})
  BY <1>1, <1>2, FS_UNION
<1>4. Folder = UNION {g[k] : k \in Key}
  BY DEF Folder
<1> QED BY <1>3, <1>4

LEMMA FrontMeans ==
  ASSUME NEW k \in Seq(STRING), Len(k) >= 1
  PROVE  /\ Front(k) \in Seq(STRING)
         /\ Len(Front(k)) = Len(k) - 1
         /\ \A i \in 1 .. Len(k) - 1 : Front(k)[i] = k[i]
<1>1. PICK n \in Nat : n = Len(k) - 1
  OBVIOUS
<1>2. Front(k) = SubSeq(k, 1, n)
  BY <1>1 DEF Front
<1>3. SubSeq(k, 1, n) \in Seq(STRING) /\ Len(SubSeq(k, 1, n)) = n
  BY <1>1
<1>4. \A i \in 1 .. n : SubSeq(k, 1, n)[i] = k[i]
  BY <1>1
<1> QED BY <1>1, <1>2, <1>3, <1>4

\* No two objects of a bucket share a file of the snapshot.
LEMMA PathsDiffer ==
  ASSUME NEW k \in Key, NEW l \in Key, Path(k) = Path(l)
  PROVE  k = l
<1> USE FiniteAssumption
<1>1. k \in Seq(STRING) /\ l \in Seq(STRING) /\ Len(k) >= 1 /\ Len(l) >= 1
  BY KeyAssumption
<1>2. ASSUME NEW a \in Key, NEW b \in Key, Front(a) = b PROVE FALSE
  <2>1. a \in Seq(STRING) /\ b \in Seq(STRING) /\ Len(a) >= 1
    BY KeyAssumption
  <2>2. Len(b) = Len(a) - 1 /\ \A i \in 1 .. Len(b) : b[i] = a[i]
    BY <1>2, <2>1, FrontMeans
  <2>3. SubSeq(b, 1, Len(b)) = SubSeq(a, 1, Len(b))
    BY <2>1, <2>2
  <2>4. IsStrictPrefix(b, a)
    BY <2>1, <2>2, <2>3 DEF IsStrictPrefix, IsPrefix
  <2> QED BY <2>4, KeyAssumption
<1>3. CASE Last(k) = "" /\ Last(l) = ""
  <2>1. Front(k) = Front(l)
    BY <1>3 DEF Path
  <2>2. Len(k) = Len(l) /\ \A i \in 1 .. Len(k) - 1 : k[i] = l[i]
    <3>1. Len(Front(k)) = Len(k) - 1 /\ \A i \in 1 .. Len(k) - 1 : Front(k)[i] = k[i]
      BY <1>1, FrontMeans
    <3>2. Len(Front(l)) = Len(l) - 1 /\ \A i \in 1 .. Len(l) - 1 : Front(l)[i] = l[i]
      BY <1>1, FrontMeans
    <3>3. Len(k) \in Nat /\ Len(l) \in Nat
      BY <1>1
    <3>4. Len(k) = Len(l)
      BY <2>1, <3>1, <3>2, <3>3
    <3> QED BY <2>1, <3>1, <3>2, <3>4
  <2>3. k[Len(k)] = l[Len(l)]
    BY <1>3 DEF Last
  <2> QED BY <1>1, <2>2, <2>3
<1>4. CASE Last(k) # "" /\ Last(l) # ""
  BY <1>4 DEF Path
<1>5. CASE Last(k) = "" /\ Last(l) # ""
  BY <1>2, <1>5 DEF Path
<1>6. CASE Last(k) # "" /\ Last(l) = ""
  BY <1>2, <1>6 DEF Path
<1> QED BY <1>3, <1>4, <1>5, <1>6

\* Being under a folder, element by element.
LEMMA UnderMeans ==
  ASSUME NEW f \in Seq(STRING), NEW k \in Seq(STRING)
  PROVE  Under(f, k) <=> Len(f) < Len(k) /\ \A i \in 1 .. Len(f) : f[i] = k[i]
<1>1. ASSUME Under(f, k) PROVE Len(f) < Len(k) /\ \A i \in 1 .. Len(f) : f[i] = k[i]
  <2>1. Len(f) <= Len(k) /\ SubSeq(f, 1, Len(f)) = SubSeq(k, 1, Len(f)) /\ f # k
    BY <1>1 DEF Under, IsStrictPrefix, IsPrefix
  <2>2. \A i \in 1 .. Len(f) : SubSeq(f, 1, Len(f))[i] = f[i] /\ SubSeq(k, 1, Len(f))[i] = k[i]
    BY <2>1
  <2>3. \A i \in 1 .. Len(f) : f[i] = k[i]
    BY <2>1, <2>2
  <2>4. Len(f) # Len(k)
    BY <2>1, <2>3
  <2> QED BY <2>1, <2>3, <2>4
<1>2. ASSUME Len(f) < Len(k), \A i \in 1 .. Len(f) : f[i] = k[i] PROVE Under(f, k)
  <2>1. SubSeq(f, 1, Len(f)) = SubSeq(k, 1, Len(f))
    BY <1>2
  <2> QED BY <1>2, <2>1 DEF Under, IsStrictPrefix, IsPrefix
<1> QED BY <1>1, <1>2

LEMMA UnderIsTransitive ==
  ASSUME NEW f \in Seq(STRING), NEW g \in Seq(STRING), NEW k \in Seq(STRING),
         Under(f, g), Under(g, k)
  PROVE  Under(f, k)
<1>1. Len(f) < Len(g) /\ \A i \in 1 .. Len(f) : f[i] = g[i]
  BY UnderMeans
<1>2. Len(g) < Len(k) /\ \A i \in 1 .. Len(g) : g[i] = k[i]
  BY UnderMeans
<1>3. Len(f) < Len(k) /\ \A i \in 1 .. Len(f) : f[i] = k[i]
  BY <1>1, <1>2
<1> QED BY <1>3, UnderMeans

\* The next level below f, on the way to k.
LEMMA NextLevel ==
  ASSUME NEW f \in Seq(STRING), NEW k \in Key, Under(f, k), Len(k) > Len(f) + 1
  PROVE  LET g == SubSeq(k, 1, Len(f) + 1)
         IN  g \in Folder /\ Under(f, g) /\ Under(g, k)
<1> DEFINE g == SubSeq(k, 1, Len(f) + 1)
<1>1. k \in Seq(STRING)
  BY FiniteAssumption
<1>2. Len(f) + 1 \in 1 .. Len(k) - 1
  BY <1>1
<1>3. g \in Folder
  BY <1>2 DEF Folder
<1>4. g \in Seq(STRING) /\ Len(g) = Len(f) + 1 /\ \A i \in 1 .. Len(f) + 1 : g[i] = k[i]
  BY <1>1, <1>2
<1>5. \A i \in 1 .. Len(f) : f[i] = k[i]
  BY <1>1, UnderMeans
<1>6. Under(g, k)
  BY <1>1, <1>2, <1>4, UnderMeans
<1>7. Under(f, g)
  <2>1. Len(f) \in Nat
    OBVIOUS
  <2>2. Len(f) < Len(g) /\ \A i \in 1 .. Len(f) : f[i] = g[i]
    BY <1>4, <1>5, <2>1
  <2> QED BY <1>4, <2>2, UnderMeans
<1> QED BY <1>3, <1>6, <1>7

-----------------------------------------------------------------------------
(***************************************************************************)
(* Types.                                                                  *)
(***************************************************************************)

LEMMA KeysAreKeys == \A b : KeysIn(b) \subseteq Key
BY DEF KeysIn

\* The store and its histories stay well typed under every change of a bucket.
LEMMA ChangeType ==
  ASSUME TypeOK, NEW p, NEW b \in Bucket, NEW o \in [Key -> Content \cup {None}] \cup {Gone},
         NEW puts \in SUBSET Key, Change(p, b, o, puts)
  PROVE  /\ store' \in [Bucket -> [Key -> Content \cup {None}] \cup {Gone}]
         /\ calm' \in SUBSET (Job \cup Request)
         /\ since' \in [Request -> SUBSET Key]
BY DEF TypeOK, Change

LEMMA PutType ==
  ASSUME TypeOK, NEW p, NEW b \in Bucket, NEW k \in Key, NEW c \in Content, Put(p, b, k, c)
  PROVE  /\ store' \in [Bucket -> [Key -> Content \cup {None}] \cup {Gone}]
         /\ calm' \in SUBSET (Job \cup Request)
         /\ since' \in [Request -> SUBSET Key]
<1>1. store[b] \in [Key -> Content \cup {None}]
  BY DEF Put, Exists, TypeOK
<1>2. /\ [store[b] EXCEPT ![k] = c] \in [Key -> Content \cup {None}] \cup {Gone}
      /\ {k} \in SUBSET Key
  BY <1>1
<1> QED BY <1>2, ChangeType DEF Put

LEMMA JobGoesType ==
  ASSUME TypeOK, NEW j \in Job, NEW j1 \in Jobs, JobGoes(j, j1)
  PROVE  job' \in [Job -> Jobs]
BY DEF TypeOK, JobGoes

LEMMA JobEndsType ==
  ASSUME TypeOK, NEW j \in Job, NEW s \in {"success", "failed"}, JobEnds(j, s)
  PROVE  job' \in [Job -> Jobs]
<1>1. job[j] \in Jobs
  BY DEF TypeOK
<1>2. [job[j] EXCEPT !.step = s, !.left = {}, !.todo = {}, !.ask = {}, !.at = None] \in Jobs
  BY <1>1 DEF Jobs
<1> QED BY <1>2, JobGoesType DEF JobEnds

LEMMA BackupFailsType ==
  ASSUME TypeOK, NEW j \in Job, BackupFails(j)
  PROVE  /\ job' \in [Job -> Jobs]
         /\ disk' \in [Job -> [files : SUBSET Files, manifest : Manifests \cup {None}]]
<1>1. job' \in [Job -> Jobs]
  BY JobEndsType DEF BackupFails
<1>2. NoFolder \in [files : SUBSET Files, manifest : Manifests \cup {None}]
  BY DEF NoFolder
<1> QED BY <1>1, <1>2 DEF TypeOK, BackupFails

LEMMA ReqGoesType ==
  ASSUME TypeOK, NEW r \in Request, NEW q \in Requests, ReqGoes(r, q)
  PROVE  req' \in [Request -> Requests]
BY DEF TypeOK, ReqGoes

LEMMA ReqEndsType ==
  ASSUME TypeOK, NEW r \in Request, NEW s \in {"done", "failed"}, ReqEnds(r, s) \/ Closed(r, s)
  PROVE  req' \in [Request -> Requests]
<1>1. req[r] \in Requests
  BY DEF TypeOK
<1>2. /\ [req[r] EXCEPT !.step = s] \in Requests
      /\ [req[r] EXCEPT !.step = s, !.directory = TRUE] \in Requests
  BY <1>1 DEF Requests
<1> QED BY <1>2, ReqGoesType DEF ReqEnds, Closed

\* A snapshot's manifest as an apply reads it.
LEMMA ReadType ==
  ASSUME TypeOK, NEW i \in Job
  PROVE  (IF disk[i].manifest = None THEN NoManifest ELSE disk[i].manifest) \in Manifests
BY DEF TypeOK, NoManifest, Manifests

LEMMA TypeInit == Init => TypeOK
<1> SUFFICES ASSUME Init PROVE TypeOK
  OBVIOUS
<1>1. store \in [Bucket -> [Key -> Content \cup {None}] \cup {Gone}]
  BY DEF Init
<1>2. disk \in [Job -> [files : SUBSET Files, manifest : Manifests \cup {None}]]
  BY DEF Init, NoFolder
<1>3. job \in [Job -> Jobs]
  BY DEF Init, Jobs, Manifests, NoManifest
<1>5. calm \in SUBSET (Job \cup Request) /\ since \in [Request -> SUBSET Key]
      /\ writes \in 0 .. MaxWrites
  BY BoundAssumption DEF Init
<1>6. req \in [Request -> Requests]
  <2>1. (CHOOSE b \in Bucket : TRUE) \in Bucket
    BY BucketAssumption
  <2>2. <<>> \in Seq(Folder)
    OBVIOUS
  <2> QED BY <2>1, <2>2 DEF Init, Requests
<1> QED BY <1>1, <1>2, <1>3, <1>5, <1>6 DEF TypeOK

JobNext(j) ==
  \/ StartBackup(j) \/ ListBuckets(j) \/ ListObjects(j) \/ Download(j) \/ WriteManifest(j)
  \/ StartApply(j) \/ AskForBucket(j) \/ MakeMissing(j) \/ Upload(j) \/ Applied(j)
  \/ JobIsCut(j)

ReqNext(r) ==
  \/ Begin(r) \/ Walk(r) \/ Walked(r) \/ DeleteOne(r) \/ ArchiveOne(r) \/ Answer(r)
  \/ ReqIsCut(r)

Disks == [files : SUBSET Files, manifest : Manifests \cup {None}]

LEMMA JobTypeStep ==
  ASSUME TypeOK, NEW j \in Job, JobNext(j)
  PROVE  TypeOK'
<1> USE DEF Reads
<1>0. /\ job[j] \in Jobs /\ disk[j] \in Disks
      /\ UNCHANGED <<req, writes>>
  BY DEF TypeOK, Disks, JobNext, StartBackup, ListBuckets, ListObjects, Download, WriteManifest,
         StartApply, AskForBucket, MakeMissing, Upload, Applied, JobIsCut
<1> DEFINE Goes == job' \in [Job -> Jobs]
           Kept == disk' = disk
           Saved == disk' \in [Job -> Disks]
           Stored == /\ store' \in [Bucket -> [Key -> Content \cup {None}] \cup {Gone}]
                     /\ calm' \in SUBSET (Job \cup Request)
                     /\ since' \in [Request -> SUBSET Key]
<1>1. CASE StartBackup(j)
  <2>1. PICK want \in SUBSET Bucket : JobGoes(j, [job[j] EXCEPT !.step = "list", !.want = want])
    BY <1>1 DEF StartBackup
  <2>2. [job[j] EXCEPT !.step = "list", !.want = want] \in Jobs
    BY <1>0 DEF Jobs
  <2>3. Goes
    BY <2>1, <2>2, JobGoesType
  <2>4. Stored /\ Saved
    BY <1>1 DEF StartBackup, TypeOK, Disks
  <2> QED BY <1>0, <2>3, <2>4 DEF TypeOK, Disks
<1>2. CASE ListBuckets(j)
  <2> DEFINE S == Selected(job[j].want)
  <2>1. S \in SUBSET Bucket
    BY DEF Selected
  <2>2. [job[j] EXCEPT !.step = "objects", !.left = S, !.manifest.buckets = S] \in Jobs
    BY <1>0, <2>1 DEF Jobs, Manifests
  <2>3. Goes
    BY <1>2, <2>2, JobGoesType DEF ListBuckets
  <2>4. Stored /\ Saved
    BY <1>2 DEF ListBuckets, TypeOK, Disks
  <2> QED BY <1>0, <2>3, <2>4 DEF TypeOK, Disks
<1>3. CASE ListObjects(j)
  <2>1. PICK b \in job[j].left :
          \/ /\ JobGoes(j, [job[j] EXCEPT !.left = @ \ {b}, !.todo = {b} \X KeysIn(b)])
             /\ UNCHANGED disk
          \/ BackupFails(j)
    BY <1>3 DEF ListObjects
  <2>2. [job[j] EXCEPT !.left = @ \ {b}, !.todo = {b} \X KeysIn(b)] \in Jobs
    <3>1. {b} \X KeysIn(b) \in SUBSET Objects
      BY <1>0, KeysAreKeys DEF Objects, Jobs
    <3> QED BY <1>0, <3>1 DEF Jobs
  <2>3. Goes /\ Saved
    BY <2>1, <2>2, JobGoesType, BackupFailsType DEF Disks, TypeOK
  <2>4. Stored
    BY <1>3 DEF ListObjects, TypeOK
  <2> QED BY <1>0, <2>3, <2>4 DEF TypeOK, Disks
<1>4. CASE Download(j)
  <2>1. PICK o \in job[j].todo :
          \/ /\ Downloadable(j, o[1], o[2])
             /\ disk' = [disk EXCEPT ![j].files =
                           Written(@, o[1], Path(o[2]), store[o[1]][o[2]])]
             /\ JobGoes(j, [job[j] EXCEPT !.todo = @ \ {o}, !.manifest.objects = @ \cup {o}])
          \/ BackupFails(j)
    BY <1>4 DEF Download
  <2>2. o \in Objects /\ o[1] \in Bucket /\ o[2] \in Key
    BY <1>0 DEF Jobs, Objects
  <2>3. [job[j] EXCEPT !.todo = @ \ {o}, !.manifest.objects = @ \cup {o}] \in Jobs
    BY <1>0, <2>2 DEF Jobs, Manifests
  <2>4. ASSUME Downloadable(j, o[1], o[2])
        PROVE  Written(disk[j].files, o[1], Path(o[2]), store[o[1]][o[2]]) \in SUBSET Files
    <3>1. store[o[1]][o[2]] \in Content
      BY <2>2, <2>4 DEF Downloadable, KeysIn, Exists, TypeOK
    <3>2. <<o[1], Path(o[2]), store[o[1]][o[2]]>> \in Files
      BY <2>2, <3>1 DEF Files
    <3> QED BY <1>0, <3>2 DEF Written, Disks
  <2>5. Goes
    BY <2>1, <2>3, JobGoesType, BackupFailsType
  <2>6. Saved
    BY <2>1, <2>4, BackupFailsType DEF TypeOK, Disks
  <2>7. Stored
    BY <1>4 DEF Download, TypeOK
  <2> QED BY <1>0, <2>5, <2>6, <2>7 DEF TypeOK, Disks
<1>5. CASE WriteManifest(j)
  <2>1. Goes
    BY <1>5, JobEndsType DEF WriteManifest
  <2>2. job[j].manifest \in Manifests
    BY <1>0 DEF Jobs
  <2>3. Saved
    BY <1>5, <2>2 DEF WriteManifest, TypeOK, Disks
  <2>4. Stored
    BY <1>5 DEF WriteManifest, TypeOK
  <2> QED BY <1>0, <2>1, <2>3, <2>4 DEF TypeOK, Disks
<1>6. CASE StartApply(j)
  <2> DEFINE Read(i) == IF disk[i].manifest = None THEN NoManifest ELSE disk[i].manifest
             Begins(i) == [job[j] EXCEPT !.step = "ensure", !.kind = "apply", !.of = i,
                             !.manifest = Read(i), !.todo = Read(i).objects,
                             !.ask = ({1} \X Configured) \cup ({2} \X Read(i).buckets)]
  <2>1. PICK i \in Job : JobGoes(j, Begins(i))
    BY <1>6 DEF StartApply
  <2>2. Begins(i) \in Jobs
    <3>1. Read(i) \in Manifests
      BY ReadType
    <3>2. Read(i).objects \in SUBSET Objects /\ Read(i).buckets \in SUBSET Bucket
      BY <3>1 DEF Manifests
    <3>3. ({1} \X Configured) \cup ({2} \X Read(i).buckets) \in SUBSET ({1, 2} \X Bucket)
      BY <3>2, BucketAssumption
    <3> HIDE DEF Read
    <3> QED BY <1>0, <3>1, <3>2, <3>3 DEF Jobs
  <2>3. Goes
    BY <2>1, <2>2, JobGoesType
  <2>4. Stored /\ Saved
    BY <1>6 DEF StartApply, TypeOK, Disks
  <2> QED BY <1>0, <2>3, <2>4 DEF TypeOK, Disks
<1>7. CASE AskForBucket(j)
  <2>1. PICK a \in job[j].ask :
          JobGoes(j, [job[j] EXCEPT !.ask = @ \ {a}, !.at = IF Exists(a[2]) THEN None ELSE a[2]])
    BY <1>7 DEF AskForBucket
  <2>2. a[2] \in Bucket
    BY <1>0 DEF Jobs
  <2>3. [job[j] EXCEPT !.ask = @ \ {a}, !.at = IF Exists(a[2]) THEN None ELSE a[2]] \in Jobs
    BY <1>0, <2>2 DEF Jobs
  <2>4. Goes
    BY <2>1, <2>3, JobGoesType
  <2>5. Stored /\ Saved
    BY <1>7 DEF AskForBucket, TypeOK, Disks
  <2> QED BY <1>0, <2>4, <2>5 DEF TypeOK, Disks
<1>8. CASE MakeMissing(j)
  <2>1. [job[j] EXCEPT !.at = None] \in Jobs /\ job[j].at \in Bucket
    BY <1>0, <1>8 DEF Jobs, MakeMissing
  <2>2. Goes
    BY <1>8, <2>1, JobGoesType, JobEndsType DEF MakeMissing
  <2>3. Stored
    <3>1. MakeBucket(j, job[j].at) \/ Reads
      BY <1>8 DEF MakeMissing
    <3>2. CASE Reads
      BY <3>2 DEF TypeOK
    <3>3. CASE MakeBucket(j, job[j].at)
      <4>1. /\ Empty \in [Key -> Content \cup {None}] \cup {Gone}
            /\ Change(j, job[j].at, Empty, {})
            /\ {} \in SUBSET Key
        BY <3>3 DEF MakeBucket, Empty
      <4> QED BY <2>1, <4>1, ChangeType
    <3> QED BY <3>1, <3>2, <3>3
  <2>4. Saved
    BY <1>8 DEF MakeMissing, TypeOK, Disks
  <2> QED BY <1>0, <2>2, <2>3, <2>4 DEF TypeOK, Disks
<1>9. CASE Upload(j)
  <2>1. PICK o \in job[j].todo :
          \/ /\ \E c \in Content : Put(j, o[1], o[2], c)
             /\ JobGoes(j, [job[j] EXCEPT !.todo = @ \ {o}])
          \/ JobEnds(j, "failed") /\ Reads
    BY <1>9 DEF Upload
  <2>2. o[1] \in Bucket /\ o[2] \in Key
    BY <1>0 DEF Jobs, Objects
  <2>3. [job[j] EXCEPT !.todo = @ \ {o}] \in Jobs
    BY <1>0 DEF Jobs
  <2>4. Goes
    BY <2>1, <2>3, JobGoesType, JobEndsType
  <2>5. Stored
    <3>1. CASE Reads
      BY <3>1 DEF TypeOK
    <3>2. ASSUME NEW c \in Content, Put(j, o[1], o[2], c) PROVE Stored
      BY <2>2, <3>2, PutType
    <3> QED BY <2>1, <3>1, <3>2
  <2>6. Saved
    BY <1>9 DEF Upload, TypeOK, Disks
  <2> QED BY <1>0, <2>4, <2>5, <2>6 DEF TypeOK, Disks
<1>10. CASE Applied(j)
  <2>1. Goes
    BY <1>10, JobEndsType DEF Applied
  <2>2. Stored /\ Saved
    BY <1>10 DEF Applied, TypeOK, Disks
  <2> QED BY <1>0, <2>1, <2>2 DEF TypeOK, Disks
<1>11. CASE JobIsCut(j)
  <2>1. Goes /\ Saved
    BY <1>11, JobEndsType, BackupFailsType DEF JobIsCut, TypeOK, Disks
  <2>2. Stored
    BY <1>11 DEF JobIsCut, TypeOK
  <2> QED BY <1>0, <2>1, <2>2 DEF TypeOK, Disks
<1> QED BY <1>1, <1>2, <1>3, <1>4, <1>5, <1>6, <1>7, <1>8, <1>9, <1>10, <1>11 DEF JobNext

\* What a listing shows below a folder that can be listed can be listed.
LEMMA ListingType ==
  ASSUME NEW b, NEW f \in Folder
  PROVE  /\ ObjectsAt(b, f) \in SUBSET Key
         /\ FoldersAt(b, f) \in SUBSET Folder /\ IsFiniteSet(FoldersAt(b, f))
         /\ Itself(b, f) \in Seq(Folder)
         /\ SetToSeq(FoldersAt(b, f)) \in Seq(Folder)
<1>1. f \in Seq(STRING)
  BY FolderType
<1>2. ObjectsAt(b, f) \in SUBSET Key
  BY KeysAreKeys DEF ObjectsAt
<1>3. FoldersAt(b, f) \in SUBSET Folder
  BY <1>1, KeysAreKeys, NextLevel DEF FoldersAt
<1>4. IsFiniteSet(FoldersAt(b, f))
  BY <1>3, FoldersFinite, FS_Subset
<1>5. SetToSeq(FoldersAt(b, f)) \in Seq(FoldersAt(b, f))
  BY <1>4, SetToSeqLists
<1>6. SetToSeq(FoldersAt(b, f)) \in Seq(Folder)
  BY <1>3, <1>5
<1>7. Itself(b, f) \in Seq(Folder)
  <2>1. <<f>> \in Seq(Folder) /\ <<>> \in Seq(Folder)
    OBVIOUS
  <2> QED BY <2>1 DEF Itself
<1> QED BY <1>2, <1>3, <1>4, <1>6, <1>7

\* The folders that are pending after f, which was first, has been listed.
Listed(b, f, s) == Itself(b, f) \o SetToSeq(FoldersAt(b, f)) \o Tail(s)

LEMMA ListedType ==
  ASSUME NEW b, NEW s \in Seq(Folder), s # <<>>
  PROVE  Head(s) \in Folder /\ Listed(b, Head(s), s) \in Seq(Folder)
<1>1. Head(s) \in Folder /\ Tail(s) \in Seq(Folder)
  OBVIOUS
<1>2. Itself(b, Head(s)) \in Seq(Folder) /\ SetToSeq(FoldersAt(b, Head(s))) \in Seq(Folder)
  BY <1>1, ListingType
<1> QED BY <1>1, <1>2 DEF Listed

LEMMA ReqTypeStep ==
  ASSUME TypeOK, NEW r \in Request, ReqNext(r)
  PROVE  TypeOK'
<1> USE DEF Reads
<1>0. req[r] \in Requests /\ UNCHANGED <<disk, job, writes>>
  BY DEF TypeOK, ReqNext, Begin, Walk, Walked, DeleteOne, ArchiveOne, Answer, ReqIsCut
<1> DEFINE Goes == req' \in [Request -> Requests]
           Stored == /\ store' \in [Bucket -> [Key -> Content \cup {None}] \cup {Gone}]
                     /\ calm' \in SUBSET (Job \cup Request)
                     /\ since' \in [Request -> SUBSET Key]
<1>q. ASSUME Goes, Stored PROVE TypeOK'
  BY <1>0, <1>q DEF TypeOK
<1>1. CASE Begin(r)
  <2>1. PICK kind \in {"delete", "archive"}, b \in Bucket,
             keys \in SUBSET Key, prefixes \in SUBSET Folder :
          ReqGoes(r, [req[r] EXCEPT !.step = "walk", !.kind = kind, !.bucket = b,
                        !.keys = keys, !.prefixes = prefixes, !.out = keys,
                        !.folders = SetToSeq(prefixes)])
    BY <1>1 DEF Begin
  <2>2. IsFiniteSet(prefixes)
    BY FoldersFinite, FS_Subset
  <2>3. SetToSeq(prefixes) \in Seq(prefixes)
    BY <2>2, SetToSeqLists
  <2>4. SetToSeq(prefixes) \in Seq(Folder)
    BY <2>3
  <2>5. [req[r] EXCEPT !.step = "walk", !.kind = kind, !.bucket = b,
                        !.keys = keys, !.prefixes = prefixes, !.out = keys,
                        !.folders = SetToSeq(prefixes)] \in Requests
    BY <1>0, <2>4 DEF Requests
  <2>6. Goes
    BY <2>1, <2>5, ReqGoesType
  <2>7. Stored
    BY <1>1 DEF Begin, TypeOK
  <2> QED BY <1>q, <2>6, <2>7
<1>2. CASE Walk(r)
  <2> DEFINE b == req[r].bucket
             s == req[r].folders
             f == Head(s)
  <2>1. \/ ReqGoes(r, [req[r] EXCEPT !.out = @ \cup ObjectsAt(b, f), !.folders = Listed(b, f, s)])
        \/ ReqEnds(r, "failed")
    BY <1>0, <1>2 DEF Walk, Listed, Requests
  <2>2. s \in Seq(Folder) /\ s # <<>>
    BY <1>0, <1>2 DEF Walk, Requests
  <2>3. f \in Folder /\ Listed(b, f, s) \in Seq(Folder)
    BY <2>2, ListedType
  <2>4. ObjectsAt(b, f) \in SUBSET Key
    BY <2>3, ListingType
  <2>5. [req[r] EXCEPT !.out = @ \cup ObjectsAt(b, f), !.folders = Listed(b, f, s)] \in Requests
    BY <1>0, <2>3, <2>4 DEF Requests
  <2>6. Goes
    BY <2>1, <2>5, ReqGoesType, ReqEndsType
  <2>7. Stored
    BY <1>2 DEF Walk, TypeOK
  <2> QED BY <1>q, <2>6, <2>7
<1>3. CASE Walked(r)
  <2>1. [req[r] EXCEPT !.step = "act", !.todo = req[r].out] \in Requests
    BY <1>0 DEF Requests
  <2>2. Goes
    BY <1>3, <2>1, ReqGoesType, ReqEndsType DEF Walked
  <2>3. Stored
    BY <1>3 DEF Walked, TypeOK
  <2> QED BY <1>q, <2>2, <2>3
<1>4. CASE DeleteOne(r)
  <2>1. PICK k \in req[r].todo :
          \/ /\ RemoveObject(r, req[r].bucket, k)
             /\ ReqGoes(r, [req[r] EXCEPT !.todo = @ \ {k}])
          \/ ReqEnds(r, "failed") /\ Reads
    BY <1>4 DEF DeleteOne
  <2>2. [req[r] EXCEPT !.todo = @ \ {k}] \in Requests /\ k \in Key /\ req[r].bucket \in Bucket
    BY <1>0 DEF Requests
  <2>3. Goes
    BY <2>1, <2>2, ReqGoesType, ReqEndsType
  <2>4. CASE Reads
    BY <1>q, <2>3, <2>4 DEF TypeOK
  <2>5. CASE RemoveObject(r, req[r].bucket, k)
    <3>1. Exists(req[r].bucket) /\ store[req[r].bucket] \in [Key -> Content \cup {None}]
      BY <2>2, <2>5 DEF RemoveObject, Exists, TypeOK
    <3>2. [store[req[r].bucket] EXCEPT ![k] = None] \in [Key -> Content \cup {None}] \cup {Gone}
      BY <3>1
    <3>3. {} \in SUBSET Key
      OBVIOUS
    <3>4. Stored
      BY <2>2, <2>5, <3>2, <3>3, ChangeType DEF RemoveObject
    <3> QED BY <1>q, <2>3, <3>4
  <2> QED BY <2>1, <2>4, <2>5
<1>5. CASE ArchiveOne(r)
  <2>1. PICK k \in req[r].todo : \/ ReqGoes(r, [req[r] EXCEPT !.todo = @ \ {k}])
                                \/ Closed(r, "failed")
    BY <1>5 DEF ArchiveOne
  <2>2. [req[r] EXCEPT !.todo = @ \ {k}] \in Requests
    BY <1>0 DEF Requests
  <2>3. Goes
    BY <2>1, <2>2, ReqGoesType, ReqEndsType
  <2>4. Stored
    BY <1>5 DEF ArchiveOne, TypeOK
  <2> QED BY <1>q, <2>3, <2>4
<1>6. CASE Answer(r) \/ ReqIsCut(r)
  <2>1. Goes
    BY <1>6, ReqEndsType DEF Answer, ReqIsCut
  <2>2. Stored
    BY <1>6 DEF Answer, ReqIsCut, TypeOK
  <2> QED BY <1>q, <2>1, <2>2
<1> QED BY <1>1, <1>2, <1>3, <1>4, <1>5, <1>6 DEF ReqNext

LEMMA ForeignTypeStep ==
  ASSUME TypeOK, HandleUpload \/ OthersChange
  PROVE  TypeOK'
<1>1. writes' \in 0 .. MaxWrites
  <2>1. writes < MaxWrites /\ writes' = writes + 1
    BY DEF HandleUpload, OthersChange
  <2>2. writes \in 0 .. MaxWrites /\ MaxWrites \in Nat
    BY BoundAssumption DEF TypeOK
  <2> QED BY <2>1, <2>2
<1>2. UNCHANGED <<disk, job, req>>
  BY DEF HandleUpload, OthersChange
<1> DEFINE Stored == /\ store' \in [Bucket -> [Key -> Content \cup {None}] \cup {Gone}]
                     /\ calm' \in SUBSET (Job \cup Request)
                     /\ since' \in [Request -> SUBSET Key]
<1>3. PICK b \in Bucket :
        \/ \E k \in Key, c \in Content : Put(None, b, k, c)
        \/ \E k \in Key : RemoveObject(None, b, k)
        \/ MakeBucket(None, b) \/ RemoveBucket(None, b)
  BY DEF HandleUpload, OthersChange
<1>4. ASSUME NEW k \in Key, NEW c \in Content, Put(None, b, k, c) PROVE Stored
  BY <1>4, PutType
<1>5. ASSUME NEW k \in Key, RemoveObject(None, b, k) PROVE Stored
  <2>1. Exists(b) /\ store[b] \in [Key -> Content \cup {None}]
    BY <1>5 DEF RemoveObject, Exists, TypeOK
  <2>2. /\ [store[b] EXCEPT ![k] = None] \in [Key -> Content \cup {None}] \cup {Gone}
        /\ {} \in SUBSET Key
    BY <2>1
  <2> QED BY <1>5, <2>2, ChangeType DEF RemoveObject
<1>6. ASSUME MakeBucket(None, b) PROVE Stored
  <2>1. /\ Empty \in [Key -> Content \cup {None}] \cup {Gone} /\ Change(None, b, Empty, {})
        /\ {} \in SUBSET Key
    BY <1>6 DEF MakeBucket, Empty
  <2> QED BY <2>1, ChangeType
<1>7. ASSUME RemoveBucket(None, b) PROVE Stored
  <2>1. /\ Gone \in [Key -> Content \cup {None}] \cup {Gone} /\ Change(None, b, Gone, {})
        /\ {} \in SUBSET Key
    BY <1>7 DEF RemoveBucket
  <2> QED BY <2>1, ChangeType
<1>8. Stored
  BY <1>3, <1>4, <1>5, <1>6, <1>7
<1> QED BY <1>1, <1>2, <1>8 DEF TypeOK

LEMMA TypeStep == TypeOK /\ [Next]_vars => TypeOK'
<1>1. CASE UNCHANGED vars
  BY <1>1 DEF TypeOK, vars
<1>2. CASE Next
  BY <1>2, JobTypeStep, ReqTypeStep, ForeignTypeStep DEF Next, JobNext, ReqNext
<1> QED BY <1>1, <1>2

-----------------------------------------------------------------------------
(***************************************************************************)
(* The invariant.  TypeOK and the properties speak of the ends of backups, *)
(* applies and requests; this says what holds on the way.                  *)
(***************************************************************************)

\* A job that has not begun, or has not listed the buckets, has nothing yet.
Fresh(j) ==
  job[j].step \in {"idle", "list"} =>
    /\ job[j].kind = "backup" /\ job[j].manifest = NoManifest
    /\ job[j].left = {} /\ job[j].todo = {} /\ job[j].ask = {} /\ job[j].at = None

Ends(j) ==
  /\ job[j].step = "objects" => job[j].kind = "backup"
  /\ job[j].step = "ensure" => job[j].kind = "apply"
  /\ job[j].step = "success" => /\ job[j].left = {} /\ job[j].todo = {}
                                /\ job[j].ask = {} /\ job[j].at = None

\* A manifest is on disk only once its backup has succeeded, and is what it collected.
Saved(j) ==
  IF job[j].step = "success" /\ job[j].kind = "backup"
  THEN disk[j].manifest = job[j].manifest
  ELSE disk[j].manifest = None

\* What a backup has collected is on disk, whoever writes to the store.
Collected(j) ==
  job[j].kind = "backup" /\ job[j].step \in {"objects", "success"} =>
    /\ job[j].left \subseteq job[j].manifest.buckets
    /\ \A o \in job[j].todo \cup job[j].manifest.objects : o[1] \in job[j].manifest.buckets
    /\ \A o \in job[j].manifest.objects :
         \E c \in Content : Holds(disk[j].files, o[1], o[2], c)

\* When nobody writes, what it has collected and what is left make up the store.
Mirrors(j) ==
  j \in calm /\ job[j].kind = "backup" /\ job[j].step \in {"objects", "success"} =>
    /\ job[j].manifest.buckets = Selected(job[j].want)
    /\ \A b \in Selected(job[j].want) : \A k \in KeysIn(b) :
         b \in job[j].left \/ <<b, k>> \in job[j].todo \cup job[j].manifest.objects
    /\ \A o \in job[j].todo \cup job[j].manifest.objects : o[2] \in KeysIn(o[1])
    /\ \A o \in job[j].manifest.objects :
         Holds(disk[j].files, o[1], o[2], store[o[1]][o[2]])

\* The snapshot that an apply reads no longer changes, and when nobody else writes,
\* what the apply has ensured and uploaded is there.
Restored(j) ==
  job[j].kind = "apply" /\ job[j].step \in {"ensure", "success"} =>
    /\ \/ job[j].manifest = NoManifest
       \/ /\ disk[job[j].of].manifest # None
          /\ disk[job[j].of].manifest = job[j].manifest
    /\ job[j].todo \subseteq job[j].manifest.objects
    /\ j \in calm =>
         /\ \A b \in Configured : <<1, b>> \in job[j].ask \/ job[j].at = b \/ Exists(b)
         /\ \A b \in job[j].manifest.buckets :
              <<2, b>> \in job[j].ask \/ job[j].at = b \/ Exists(b)
         /\ \A o \in job[j].manifest.objects \ job[j].todo :
              /\ o[2] \in KeysIn(o[1])
              /\ Holds(disk[job[j].of].files, o[1], o[2], store[o[1]][o[2]])

\* f is a selected folder, or below one.
Within(r, f) == \E g \in req[r].prefixes : f = g \/ Under(g, f)

\* k is below a folder that is still to be listed.
Pending(r, k) == \E i \in 1 .. Len(req[r].folders) : Under(req[r].folders[i], k)

\* The part of the selection that was there before the request and still is.
Remains(r) == (Covered(r) \cap KeysIn(req[r].bucket)) \ since[r]

\* A walk collects only what is selected, and misses nothing that stays there.
Walks(r) ==
  /\ req[r].step = "idle" => since[r] = {}
  /\ req[r].step # "idle" => req[r].out \subseteq Covered(r)
  /\ req[r].step = "walk" =>
       /\ \A i \in 1 .. Len(req[r].folders) : Within(r, req[r].folders[i])
       /\ \A k \in Remains(r) : k \in req[r].out \/ Pending(r, k)
  /\ req[r].step \in {"act", "done"} => Remains(r) \subseteq req[r].out
  /\ req[r].step = "act" => req[r].todo \subseteq req[r].out
  /\ req[r].step = "done" => req[r].todo = {}

\* What a delete has done is gone, unless it was put there again.
Deletes(r) ==
  req[r].kind = "delete" /\ req[r].step \in {"act", "done"} =>
    (req[r].out \cap KeysIn(req[r].bucket)) \ since[r] \subseteq req[r].todo

\* What an archive was told to hold, or has read, is there while nobody writes.
Archives(r) ==
  r \in calm =>
    /\ since[r] = {}
    /\ req[r].kind = "archive" /\ req[r].step \in {"act", "done"} =>
         req[r].out \ req[r].todo \subseteq KeysIn(req[r].bucket)

JobOK(j) == Fresh(j) /\ Ends(j) /\ Saved(j) /\ Collected(j) /\ Mirrors(j) /\ Restored(j)

ReqOK(r) == Walks(r) /\ Deletes(r) /\ Archives(r)

IInv == TypeOK /\ (\A j \in Job : JobOK(j)) /\ (\A r \in Request : ReqOK(r))

-----------------------------------------------------------------------------
(***************************************************************************)
(* What a step of p does to the store, as the others see it.               *)
(***************************************************************************)
StoreStep(p) ==
  /\ calm' \subseteq calm \cup {p}
  /\ UNCHANGED <<store, since>> \/ calm' \subseteq {p}
  /\ \A r \in Request :
       /\ since[r] \subseteq since'[r]
       /\ req[r].step = "idle" => since'[r] = since[r]
       /\ \A b \in Bucket : req[r].step # "idle" /\ req[r].bucket = b =>
            KeysIn(b)' \ since'[r] \subseteq KeysIn(b) \ since[r]

LEMMA KeptStoreStep ==
  ASSUME NEW p, UNCHANGED <<store, since>>, calm' \subseteq calm \cup {p}
  PROVE  StoreStep(p)
<1>1. \A b : KeysIn(b)' = KeysIn(b)
  BY DEF KeysIn, Exists
<1> QED BY <1>1 DEF StoreStep

LEMMA ChangeStoreStep ==
  ASSUME TypeOK, NEW p, NEW b \in Bucket, NEW o, NEW puts \in SUBSET Key,
         Change(p, b, o, puts),
         \A k \in Key : o # Gone /\ o[k] # None => k \in KeysIn(b) \/ k \in puts
  PROVE  StoreStep(p)
<1>1. calm' \subseteq calm \cup {p} /\ calm' \subseteq {p}
  BY DEF Change
<1>2. \A a \in Bucket : store'[a] = IF a = b THEN o ELSE store[a]
  BY DEF Change, TypeOK
<1>3. \A a \in Bucket : KeysIn(a)' \subseteq IF a = b THEN KeysIn(a) \cup puts ELSE KeysIn(a)
  BY <1>2 DEF KeysIn, Exists
<1>4. ASSUME NEW r \in Request
      PROVE  /\ since[r] \subseteq since'[r]
             /\ req[r].step = "idle" => since'[r] = since[r]
             /\ \A a \in Bucket : req[r].step # "idle" /\ req[r].bucket = a =>
                  KeysIn(a)' \ since'[r] \subseteq KeysIn(a) \ since[r]
  <2>1. since'[r] = IF req[r].step # "idle" /\ req[r].bucket = b
                    THEN since[r] \cup puts ELSE since[r]
    BY DEF Change
  <2>2. since[r] \subseteq since'[r] /\ (req[r].step = "idle" => since'[r] = since[r])
    BY <2>1
  <2>3. ASSUME NEW a \in Bucket, req[r].step # "idle", req[r].bucket = a
        PROVE  KeysIn(a)' \ since'[r] \subseteq KeysIn(a) \ since[r]
    <3>1. CASE a = b
      <4>1. since'[r] = since[r] \cup puts
        BY <2>1, <2>3, <3>1
      <4>2. KeysIn(a)' \subseteq KeysIn(a) \cup puts
        BY <1>3, <3>1
      <4> QED BY <4>1, <4>2
    <3>2. CASE a # b
      <4>1. since'[r] = since[r]
        BY <2>1, <2>3, <3>2
      <4>2. KeysIn(a)' \subseteq KeysIn(a)
        BY <1>3, <3>2
      <4> QED BY <4>1, <4>2
    <3> QED BY <3>1, <3>2
  <2> QED BY <2>2, <2>3
<1> QED BY <1>1, <1>4 DEF StoreStep

\* Every call that changes the store is such a step.
LEMMA CallsStoreStep ==
  ASSUME TypeOK, NEW p, NEW b \in Bucket, NEW k \in Key, NEW c,
         Put(p, b, k, c) \/ RemoveObject(p, b, k)
  PROVE  StoreStep(p)
<1>1. store[b] \in [Key -> Content \cup {None}]
  BY DEF Put, RemoveObject, Exists, TypeOK
<1>2. CASE Put(p, b, k, c)
  <2> DEFINE o == [store[b] EXCEPT ![k] = c]
  <2>1. \A l \in Key : o[l] # None => l \in KeysIn(b) \/ l \in {k}
    BY <1>1, <1>2 DEF Put, KeysIn
  <2>2. Change(p, b, o, {k}) /\ {k} \in SUBSET Key
    BY <1>2 DEF Put
  <2> HIDE DEF o
  <2> QED BY <2>1, <2>2, ChangeStoreStep
<1>3. CASE RemoveObject(p, b, k)
  <2> DEFINE o == [store[b] EXCEPT ![k] = None]
  <2>1. \A l \in Key : o[l] # None => l \in KeysIn(b) \/ l \in {}
    BY <1>1, <1>3 DEF RemoveObject, KeysIn
  <2>2. Change(p, b, o, {}) /\ {} \in SUBSET Key
    BY <1>3 DEF RemoveObject
  <2> HIDE DEF o
  <2> QED BY <2>1, <2>2, ChangeStoreStep
<1> QED BY <1>2, <1>3

LEMMA BucketsStoreStep ==
  ASSUME TypeOK, NEW p, NEW b \in Bucket, MakeBucket(p, b) \/ RemoveBucket(p, b)
  PROVE  StoreStep(p)
<1>0. {} \in SUBSET Key
  OBVIOUS
<1>1. CASE MakeBucket(p, b)
  <2>1. \A l \in Key : Empty[l] # None => l \in KeysIn(b) \/ l \in {}
    BY DEF Empty
  <2> QED BY <1>0, <1>1, <2>1, ChangeStoreStep DEF MakeBucket
<1>2. CASE RemoveBucket(p, b)
  BY <1>0, <1>2, ChangeStoreStep DEF RemoveBucket
<1> QED BY <1>1, <1>2

-----------------------------------------------------------------------------
(***************************************************************************)
(* Those that do not move.                                                 *)
(***************************************************************************)
LEMMA JobKept ==
  ASSUME TypeOK, NEW i \in Job, JobOK(i), NEW p, i # p, StoreStep(p),
         job'[i] = job[i], disk'[i] = disk[i],
         disk[job[i].of].manifest # None => disk'[job[i].of] = disk[job[i].of]
  PROVE  JobOK(i)'
<1>1. i \in calm' => i \in calm /\ store' = store
  BY DEF StoreStep
<1>2. store' = store => /\ \A b : KeysIn(b)' = KeysIn(b) /\ (Exists(b)' <=> Exists(b))
                       /\ \A w : Selected(w)' = Selected(w)
  BY DEF KeysIn, Exists, Selected
<1>3. Fresh(i)' /\ Ends(i)'
  BY DEF JobOK, Fresh, Ends
<1>4. Saved(i)' /\ Collected(i)'
  BY DEF JobOK, Saved, Collected
<1>5. Mirrors(i)'
  BY <1>1, <1>2 DEF JobOK, Mirrors
<1>6. Restored(i)'
  <2> SUFFICES ASSUME job[i].kind = "apply", job[i].step \in {"ensure", "success"}
               PROVE  Restored(i)'
    BY DEF Restored
  <2>1. \/ job[i].manifest = NoManifest
        \/ /\ disk'[job'[i].of].manifest # None
           /\ disk'[job'[i].of] = disk[job[i].of]
           /\ disk'[job'[i].of].manifest = job'[i].manifest
    BY DEF JobOK, Restored
  <2>2. CASE job[i].manifest = NoManifest
    <3>1. job[i].manifest.objects = {}
      BY <2>2 DEF NoManifest
    <3> QED BY <1>1, <1>2, <2>2, <3>1 DEF JobOK, Restored
  <2>3. CASE job[i].manifest # NoManifest
    BY <1>1, <1>2, <2>1, <2>3 DEF JobOK, Restored
  <2> QED BY <2>2, <2>3
<1> QED BY <1>3, <1>4, <1>5, <1>6 DEF JobOK

LEMMA ReqKept ==
  ASSUME TypeOK, NEW r \in Request, ReqOK(r), NEW p, r # p, StoreStep(p),
         req'[r] = req[r]
  PROVE  ReqOK(r)'
<1>1. req[r].bucket \in Bucket
  BY DEF TypeOK, Requests
<1>2. req[r].step # "idle" =>
        KeysIn(req[r].bucket)' \ since'[r] \subseteq KeysIn(req[r].bucket) \ since[r]
  BY <1>1 DEF StoreStep
<1>3. Covered(r)' = Covered(r)
  BY DEF Covered
<1>4. req[r].step # "idle" => Remains(r)' \subseteq Remains(r)
  BY <1>2, <1>3 DEF Remains
<1>5. \A k : Pending(r, k)' <=> Pending(r, k)
  BY DEF Pending
<1>6. \A f : Within(r, f)' <=> Within(r, f)
  BY DEF Within
<1>7. Walks(r)'
  BY <1>3, <1>4, <1>5, <1>6 DEF ReqOK, Walks, StoreStep
<1>8. Deletes(r)'
  BY <1>2 DEF ReqOK, Deletes
<1>9. Archives(r)'
  <2>1. r \in calm' => r \in calm /\ UNCHANGED <<store, since>>
    BY DEF StoreStep
  <2>2. store' = store => KeysIn(req[r].bucket)' = KeysIn(req[r].bucket)
    BY DEF KeysIn, Exists
  <2> QED BY <2>1, <2>2 DEF ReqOK, Archives
<1> QED BY <1>7, <1>8, <1>9 DEF ReqOK

-----------------------------------------------------------------------------
(***************************************************************************)
(* The invariant at the start, and what a step of one job leaves.          *)
(***************************************************************************)
LEMMA IInvInit == Init => IInv
<1> SUFFICES ASSUME Init PROVE IInv
  OBVIOUS
<1>1. TypeOK
  BY TypeInit
<1>2. ASSUME NEW j \in Job PROVE JobOK(j)
  <2>1. /\ job[j].step = "idle" /\ job[j].kind = "backup" /\ job[j].manifest = NoManifest
        /\ job[j].left = {} /\ job[j].todo = {} /\ job[j].ask = {} /\ job[j].at = None
        /\ disk[j].manifest = None
    BY DEF Init, NoFolder
  <2> QED BY <2>1 DEF JobOK, Fresh, Ends, Saved, Collected, Mirrors, Restored
<1>3. ASSUME NEW r \in Request PROVE ReqOK(r)
  <2>1. req[r].step = "idle" /\ since[r] = {} /\ calm = {}
    BY DEF Init
  <2> QED BY <2>1 DEF ReqOK, Walks, Deletes, Archives
<1> QED BY <1>1, <1>2, <1>3 DEF IInv

\* A step of j moves j alone.
LEMMA JobGoesMeans ==
  ASSUME TypeOK, NEW j \in Job, NEW j1, JobGoes(j, j1)
  PROVE  job'[j] = j1 /\ \A i \in Job : i # j => job'[i] = job[i]
BY DEF TypeOK, JobGoes

LEMMA JobEndsMeans ==
  ASSUME TypeOK, NEW j \in Job, NEW s, JobEnds(j, s)
  PROVE  /\ job'[j].step = s /\ job'[j].kind = job[j].kind /\ job'[j].want = job[j].want
         /\ job'[j].of = job[j].of /\ job'[j].manifest = job[j].manifest
         /\ job'[j].left = {} /\ job'[j].todo = {} /\ job'[j].ask = {} /\ job'[j].at = None
         /\ \A i \in Job : i # j => job'[i] = job[i]
<1> DEFINE j1 == [job[j] EXCEPT !.step = s, !.left = {}, !.todo = {}, !.ask = {}, !.at = None]
<1>1. job'[j] = j1 /\ \A i \in Job : i # j => job'[i] = job[i]
  BY JobGoesMeans DEF JobEnds
<1>2. job[j] \in Jobs
  BY DEF TypeOK
<1>3. /\ j1.step = s /\ j1.kind = job[j].kind /\ j1.want = job[j].want
      /\ j1.of = job[j].of /\ j1.manifest = job[j].manifest
      /\ j1.left = {} /\ j1.todo = {} /\ j1.ask = {} /\ j1.at = None
  BY <1>2 DEF Jobs
<1> QED BY <1>1, <1>3

DisksOfOthers(j) == \A i \in Job : i # j => disk'[i] = disk[i]

\* What is left to show of a step of j: that j itself is well afterwards.
Moved(j) ==
  /\ StoreStep(j) /\ UNCHANGED req
  /\ \A i \in Job : i # j => job'[i] = job[i]
  /\ DisksOfOthers(j)
  /\ disk[j].manifest # None => UNCHANGED disk
  /\ JobOK(j)'

LEMMA MovedSuffices ==
  ASSUME IInv, NEW j \in Job, TypeOK', Moved(j)
  PROVE  IInv'
<1>1. ASSUME NEW i \in Job PROVE JobOK(i)'
  <2>1. CASE i = j
    BY <2>1 DEF Moved
  <2>2. CASE i # j
    <3>1. job[i].of \in Job
      BY DEF IInv, TypeOK, Jobs
    <3>2. disk[job[i].of].manifest # None => disk'[job[i].of] = disk[job[i].of]
      BY <3>1 DEF Moved, DisksOfOthers
    <3> QED BY <2>2, <3>2, JobKept DEF IInv, Moved, DisksOfOthers
  <2> QED BY <2>1, <2>2
<1>2. ASSUME NEW r \in Request PROVE ReqOK(r)'
  <2>1. r # j
    BY ActorAssumption
  <2> QED BY <2>1, ReqKept DEF IInv, Moved
<1> QED BY <1>1, <1>2 DEF IInv

\* A job that failed has no snapshot to answer for.
LEMMA FailedMoves ==
  ASSUME IInv, NEW j \in Job, UNCHANGED req, Reads,
         \/ BackupFails(j) /\ disk[j].manifest = None
         \/ JobEnds(j, "failed") /\ UNCHANGED disk /\ disk[j].manifest = None
  PROVE  Moved(j)
<1>1. /\ job'[j].step = "failed" /\ job'[j].kind = job[j].kind
      /\ \A i \in Job : i # j => job'[i] = job[i]
  BY JobEndsMeans DEF BackupFails, IInv
<1>2. disk'[j].manifest = None /\ DisksOfOthers(j)
  BY DEF BackupFails, NoFolder, IInv, TypeOK, DisksOfOthers
<1>3. StoreStep(j)
  BY KeptStoreStep DEF Reads
<1>4. JobOK(j)'
  BY <1>1, <1>2 DEF JobOK, Fresh, Ends, Saved, Collected, Mirrors, Restored
<1> QED BY <1>1, <1>2, <1>3, <1>4 DEF Moved

-----------------------------------------------------------------------------
(***************************************************************************)
(* The steps of a backup.                                                  *)
(***************************************************************************)
LEMMA StartBackupMoves ==
  ASSUME IInv, NEW j \in Job, StartBackup(j)
  PROVE  Moved(j)
<1>0. TypeOK /\ JobOK(j) /\ job[j] \in Jobs
  BY DEF IInv, TypeOK
<1>1. PICK want \in SUBSET Bucket : JobGoes(j, [job[j] EXCEPT !.step = "list", !.want = want])
  BY DEF StartBackup
<1>2. job'[j] = [job[j] EXCEPT !.step = "list", !.want = want]
      /\ \A i \in Job : i # j => job'[i] = job[i]
  BY <1>0, <1>1, JobGoesMeans
<1>3. /\ job'[j].step = "list" /\ job'[j].kind = job[j].kind
      /\ job'[j].manifest = job[j].manifest /\ job'[j].left = job[j].left
      /\ job'[j].todo = job[j].todo /\ job'[j].ask = job[j].ask /\ job'[j].at = job[j].at
  BY <1>0, <1>2 DEF Jobs
<1>4. disk' = disk /\ UNCHANGED req /\ StoreStep(j) /\ job[j].step = "idle"
  BY KeptStoreStep DEF StartBackup
<1>5. JobOK(j)'
  BY <1>0, <1>3, <1>4 DEF JobOK, Fresh, Ends, Saved, Collected, Mirrors, Restored
<1> QED BY <1>2, <1>4, <1>5 DEF Moved, DisksOfOthers

LEMMA ListBucketsMoves ==
  ASSUME IInv, NEW j \in Job, ListBuckets(j)
  PROVE  Moved(j)
<1> DEFINE S == Selected(job[j].want)
           j1 == [job[j] EXCEPT !.step = "objects", !.left = S, !.manifest.buckets = S]
<1>0. TypeOK /\ JobOK(j) /\ job[j] \in Jobs /\ job[j].step = "list"
  BY DEF IInv, TypeOK, ListBuckets
<1>1. job'[j] = j1 /\ \A i \in Job : i # j => job'[i] = job[i]
  BY <1>0, JobGoesMeans DEF ListBuckets
<1>2. job[j].manifest = NoManifest /\ job[j].kind = "backup" /\ job[j].todo = {}
  BY <1>0 DEF JobOK, Fresh
<1>3. /\ job'[j].step = "objects" /\ job'[j].kind = "backup" /\ job'[j].want = job[j].want
      /\ job'[j].left = S /\ job'[j].todo = {}
      /\ job'[j].manifest.buckets = S /\ job'[j].manifest.objects = {}
  BY <1>0, <1>1, <1>2 DEF Jobs, Manifests, NoManifest
<1>4. disk' = disk /\ UNCHANGED req /\ StoreStep(j) /\ UNCHANGED <<store, calm>>
  BY KeptStoreStep DEF ListBuckets, Reads
<1>7. Selected(job[j].want)' = S
  BY <1>3, <1>4 DEF Selected, Exists
<1>8. Mirrors(j)'
  BY <1>3, <1>7 DEF Mirrors
<1>9. Collected(j)' /\ Restored(j)' /\ Fresh(j)' /\ Ends(j)'
  BY <1>3 DEF Collected, Restored, Fresh, Ends
<1>10. Saved(j)'
  BY <1>0, <1>3, <1>4 DEF JobOK, Saved
<1>11. JobOK(j)'
  BY <1>8, <1>9, <1>10 DEF JobOK
<1> QED BY <1>1, <1>4, <1>11 DEF Moved, DisksOfOthers

LEMMA ListObjectsMoves ==
  ASSUME IInv, NEW j \in Job, ListObjects(j)
  PROVE  Moved(j)
<1>0. /\ TypeOK /\ JobOK(j) /\ job[j] \in Jobs /\ job[j].step = "objects"
      /\ job[j].todo = {}
  BY DEF IInv, TypeOK, ListObjects
<1>1. UNCHANGED req /\ Reads /\ disk[j].manifest = None /\ job[j].kind = "backup"
  BY <1>0 DEF ListObjects, JobOK, Saved, Ends
<1>2. CASE BackupFails(j)
  BY <1>1, <1>2, FailedMoves
<1>3. ASSUME NEW b \in job[j].left, Exists(b), UNCHANGED disk,
             JobGoes(j, [job[j] EXCEPT !.left = @ \ {b}, !.todo = {b} \X KeysIn(b)])
      PROVE  Moved(j)
  <2> DEFINE T == {b} \X KeysIn(b)
             j1 == [job[j] EXCEPT !.left = @ \ {b}, !.todo = T]
  <2>1. job'[j] = j1 /\ \A i \in Job : i # j => job'[i] = job[i]
    BY <1>0, <1>3, JobGoesMeans
  <2>a. /\ j1.step = job[j].step /\ j1.kind = job[j].kind /\ j1.want = job[j].want
        /\ j1.left = job[j].left \ {b} /\ j1.todo = T /\ j1.manifest = job[j].manifest
    <3> HIDE DEF T
    <3> QED BY <1>0 DEF Jobs
  <2>2. /\ job'[j].step = "objects" /\ job'[j].kind = "backup" /\ job'[j].want = job[j].want
        /\ job'[j].left = job[j].left \ {b} /\ job'[j].todo = {b} \X KeysIn(b)
        /\ job'[j].manifest = job[j].manifest
    <3> HIDE DEF j1
    <3> QED BY <1>0, <1>1, <2>1, <2>a
  <2>3. StoreStep(j) /\ UNCHANGED <<store, calm, disk>>
    BY <1>1, <1>3, KeptStoreStep DEF Reads
  <2>4. \A a : KeysIn(a)' = KeysIn(a) /\ Selected(a)' = Selected(a)
    BY <2>3 DEF KeysIn, Selected, Exists
  <2>5. Mirrors(j)'
    <3> SUFFICES ASSUME j \in calm PROVE Mirrors(j)'
      BY <2>3 DEF Mirrors
    <3>1. /\ job[j].manifest.buckets = Selected(job[j].want)
          /\ \A a \in Selected(job[j].want) : \A k \in KeysIn(a) :
               a \in job[j].left \/ <<a, k>> \in job[j].manifest.objects
          /\ \A o \in job[j].manifest.objects : o[2] \in KeysIn(o[1])
          /\ \A o \in job[j].manifest.objects :
               Holds(disk[j].files, o[1], o[2], store[o[1]][o[2]])
      BY <1>0, <1>1 DEF JobOK, Mirrors
    <3>2. \A o \in {b} \X KeysIn(b) : o[2] \in KeysIn(o[1])
      OBVIOUS
    <3>3. \A a \in Selected(job[j].want) : \A k \in KeysIn(a) :
            a \in job'[j].left \/ <<a, k>> \in job'[j].todo \cup job'[j].manifest.objects
      BY <2>2, <3>1
    <3> QED BY <2>2, <2>3, <2>4, <3>1, <3>2, <3>3 DEF Mirrors
  <2>6. Collected(j)'
    <3>1. /\ job[j].left \subseteq job[j].manifest.buckets
          /\ \A o \in job[j].manifest.objects : o[1] \in job[j].manifest.buckets
          /\ \A o \in job[j].manifest.objects :
               \E c \in Content : Holds(disk[j].files, o[1], o[2], c)
      BY <1>0, <1>1 DEF JobOK, Collected
    <3>2. \A o \in {b} \X KeysIn(b) : o[1] = b
      OBVIOUS
    <3> QED BY <2>2, <2>3, <3>1, <3>2 DEF Collected
  <2>7. Fresh(j)' /\ Ends(j)' /\ Restored(j)' /\ Saved(j)'
    BY <1>1, <2>2, <2>3 DEF Fresh, Ends, Restored, Saved
  <2> QED BY <1>1, <2>1, <2>3, <2>5, <2>6, <2>7 DEF Moved, JobOK, DisksOfOthers
<1> QED BY <1>2, <1>3 DEF ListObjects

LEMMA WriteManifestMoves ==
  ASSUME IInv, NEW j \in Job, WriteManifest(j)
  PROVE  Moved(j)
<1>0. /\ TypeOK /\ JobOK(j) /\ job[j] \in Jobs /\ job[j].step = "objects"
      /\ job[j].left = {} /\ job[j].todo = {}
  BY DEF IInv, TypeOK, WriteManifest
<1>1. UNCHANGED req /\ Reads /\ disk[j].manifest = None /\ job[j].kind = "backup"
  BY <1>0 DEF WriteManifest, JobOK, Saved, Ends
<1>2. /\ job'[j].step = "success" /\ job'[j].kind = "backup" /\ job'[j].want = job[j].want
      /\ job'[j].manifest = job[j].manifest
      /\ job'[j].left = {} /\ job'[j].todo = {} /\ job'[j].ask = {} /\ job'[j].at = None
      /\ \A i \in Job : i # j => job'[i] = job[i]
  BY <1>0, <1>1, JobEndsMeans DEF WriteManifest
<1>3. /\ disk'[j].files = disk[j].files /\ disk'[j].manifest = job[j].manifest
      /\ DisksOfOthers(j)
  BY <1>0 DEF WriteManifest, TypeOK, DisksOfOthers
<1>4. StoreStep(j) /\ UNCHANGED <<store, calm>>
  BY <1>1, KeptStoreStep DEF Reads
<1>5. \A a : KeysIn(a)' = KeysIn(a) /\ Selected(a)' = Selected(a)
  BY <1>4 DEF KeysIn, Selected, Exists
<1>6. Mirrors(j)' /\ Collected(j)'
  BY <1>0, <1>1, <1>2, <1>3, <1>4, <1>5 DEF JobOK, Mirrors, Collected
<1>7. Fresh(j)' /\ Ends(j)' /\ Restored(j)' /\ Saved(j)'
  BY <1>2, <1>3 DEF Fresh, Ends, Restored, Saved
<1> QED BY <1>1, <1>2, <1>3, <1>4, <1>6, <1>7 DEF Moved, JobOK

\* A download writes the one file that the object has.
LEMMA DownloadMoves ==
  ASSUME IInv, NEW j \in Job, Download(j)
  PROVE  Moved(j)
<1>0. TypeOK /\ JobOK(j) /\ job[j] \in Jobs /\ disk[j] \in Disks /\ job[j].step = "objects"
  BY DEF IInv, TypeOK, Download, Disks
<1>1. UNCHANGED req /\ Reads /\ disk[j].manifest = None /\ job[j].kind = "backup"
  BY <1>0 DEF Download, JobOK, Saved, Ends
<1>2. CASE BackupFails(j)
  BY <1>1, <1>2, FailedMoves
<1>3. ASSUME NEW o \in job[j].todo, Downloadable(j, o[1], o[2]),
             disk' = [disk EXCEPT ![j].files = Written(@, o[1], Path(o[2]), store[o[1]][o[2]])],
             JobGoes(j, [job[j] EXCEPT !.todo = @ \ {o}, !.manifest.objects = @ \cup {o}])
      PROVE  Moved(j)
  <2> DEFINE j1 == [job[j] EXCEPT !.todo = @ \ {o}, !.manifest.objects = @ \cup {o}]
             files == Written(disk[j].files, o[1], Path(o[2]), store[o[1]][o[2]])
             sofar == job[j].manifest.objects
  <2>1. job'[j] = j1 /\ \A i \in Job : i # j => job'[i] = job[i]
    BY <1>0, <1>3, JobGoesMeans
  <2>2. /\ job'[j].step = "objects" /\ job'[j].kind = "backup" /\ job'[j].want = job[j].want
        /\ job'[j].left = job[j].left /\ job'[j].todo = job[j].todo \ {o}
        /\ job'[j].manifest.buckets = job[j].manifest.buckets
        /\ job'[j].manifest.objects = sofar \cup {o}
    BY <1>0, <1>1, <2>1 DEF Jobs, Manifests
  <2>3. StoreStep(j) /\ UNCHANGED <<store, calm>>
    BY <1>1, KeptStoreStep DEF Reads
  <2>4. \A a : KeysIn(a)' = KeysIn(a) /\ Selected(a)' = Selected(a)
    BY <2>3 DEF KeysIn, Selected, Exists
  <2>5. disk'[j].files = files /\ disk'[j].manifest = None /\ DisksOfOthers(j)
    BY <1>0, <1>1, <1>3 DEF TypeOK, DisksOfOthers
  <2>6. /\ o \in Objects /\ o[1] \in Bucket /\ o[2] \in Key /\ o = <<o[1], o[2]>>
        /\ sofar \subseteq Objects
    BY <1>0 DEF Jobs, Objects, Manifests
  <2>7. store[o[1]][o[2]] \in Content
    BY <1>0, <1>3, <2>6 DEF Downloadable, KeysIn, Exists, TypeOK
  <2>8. Holds(files, o[1], o[2], store[o[1]][o[2]])
    BY DEF Written, Holds
  <2>9. ASSUME NEW p \in sofar, NEW c, Holds(disk[j].files, p[1], p[2], c)
        PROVE  Holds(files, p[1], p[2], c) \/ (p[1] = o[1] /\ Path(p[2]) = Path(o[2]))
    BY <2>9 DEF Written, Holds
  <2>10. Collected(j)'
    <3>1. /\ job[j].left \subseteq job[j].manifest.buckets
          /\ \A p \in job[j].todo \cup sofar : p[1] \in job[j].manifest.buckets
          /\ \A p \in sofar : \E c \in Content : Holds(disk[j].files, p[1], p[2], c)
      BY <1>0, <1>1 DEF JobOK, Collected
    <3>2. ASSUME NEW p \in sofar \cup {o}
          PROVE  \E c \in Content : Holds(files, p[1], p[2], c)
      <4>1. CASE p[1] = o[1] /\ Path(p[2]) = Path(o[2])
        BY <2>7, <2>8, <4>1 DEF Holds
      <4>2. CASE ~(p[1] = o[1] /\ Path(p[2]) = Path(o[2]))
        <5>1. p \in sofar
          BY <4>2
        <5> QED BY <2>9, <3>1, <4>2, <5>1
      <4> QED BY <4>1, <4>2
    <3> HIDE DEF files
    <3> QED BY <2>2, <2>5, <3>1, <3>2 DEF Collected
  <2>11. Mirrors(j)'
    <3> SUFFICES ASSUME j \in calm PROVE Mirrors(j)'
      BY <2>3 DEF Mirrors
    <3>1. /\ job[j].manifest.buckets = Selected(job[j].want)
          /\ \A b \in Selected(job[j].want) : \A k \in KeysIn(b) :
               b \in job[j].left \/ <<b, k>> \in job[j].todo \cup sofar
          /\ \A p \in job[j].todo \cup sofar : p[2] \in KeysIn(p[1])
          /\ \A p \in sofar : Holds(disk[j].files, p[1], p[2], store[p[1]][p[2]])
      BY <1>0, <1>1 DEF JobOK, Mirrors
    <3>2. ASSUME NEW p \in sofar \cup {o}
          PROVE  Holds(files, p[1], p[2], store[p[1]][p[2]])
      <4>1. p \in Objects
        BY <2>6
      <4>2. CASE p[1] = o[1] /\ Path(p[2]) = Path(o[2])
        <5>1. p[2] = o[2]
          BY <2>6, <4>1, <4>2, PathsDiffer DEF Objects
        <5> QED BY <2>8, <4>2, <5>1
      <4>3. CASE ~(p[1] = o[1] /\ Path(p[2]) = Path(o[2]))
        <5>1. p \in sofar
          BY <4>3
        <5> QED BY <2>9, <3>1, <4>3, <5>1
      <4> QED BY <4>2, <4>3
    <3>3. (job[j].todo \ {o}) \cup (sofar \cup {o}) = job[j].todo \cup sofar
      BY <1>3
    <3> HIDE DEF files, sofar
    <3> QED BY <2>2, <2>3, <2>4, <2>5, <3>1, <3>2, <3>3 DEF Mirrors
  <2>12. Fresh(j)' /\ Ends(j)' /\ Restored(j)' /\ Saved(j)'
    BY <2>2, <2>5 DEF Fresh, Ends, Restored, Saved
  <2> QED BY <1>1, <2>1, <2>3, <2>5, <2>10, <2>11, <2>12 DEF Moved, JobOK
<1> QED BY <1>2, <1>3 DEF Download

-----------------------------------------------------------------------------
(***************************************************************************)
(* The steps of an apply.                                                  *)
(***************************************************************************)
LEMMA StartApplyMoves ==
  ASSUME IInv, NEW j \in Job, StartApply(j)
  PROVE  Moved(j)
<1>0. TypeOK /\ JobOK(j) /\ job[j] \in Jobs /\ job[j].step = "idle"
  BY DEF IInv, TypeOK, StartApply
<1> DEFINE Read(i) == IF disk[i].manifest = None THEN NoManifest ELSE disk[i].manifest
           Ask(m) == ({1} \X Configured) \cup ({2} \X m.buckets)
           New(i, m) == [job[j] EXCEPT !.step = "ensure", !.kind = "apply", !.of = i,
                           !.manifest = m, !.todo = m.objects, !.ask = Ask(m)]
<1>1. PICK i \in Job : JobGoes(j, New(i, Read(i)))
  BY DEF StartApply
<1>2. PICK m : m = Read(i)
  OBVIOUS
<1>3. job'[j] = New(i, m) /\ \A l \in Job : l # j => job'[l] = job[l]
  BY <1>0, <1>1, <1>2, JobGoesMeans
<1>4. /\ job'[j].step = "ensure" /\ job'[j].kind = "apply" /\ job'[j].of = i
      /\ job'[j].manifest = m /\ job'[j].todo = m.objects /\ job'[j].ask = Ask(m)
  <2> HIDE DEF Ask
  <2> QED BY <1>0, <1>3 DEF Jobs
<1>5. disk' = disk /\ UNCHANGED req /\ StoreStep(j)
  BY KeptStoreStep DEF StartApply
<1>6. disk[j].manifest = None
  BY <1>0 DEF JobOK, Saved
<1>7. m = NoManifest \/ (disk[i].manifest # None /\ disk[i].manifest = m)
  BY <1>2
<1>8. /\ \A b \in Configured : <<1, b>> \in Ask(m)
      /\ \A b \in m.buckets : <<2, b>> \in Ask(m)
  OBVIOUS
<1>9. Restored(j)'
  <2> HIDE DEF Ask
  <2>1. job'[j].manifest.objects \ job'[j].todo = {}
    BY <1>4
  <2> QED BY <1>4, <1>5, <1>7, <1>8, <2>1 DEF Restored
<1>10. Fresh(j)' /\ Ends(j)' /\ Saved(j)' /\ Collected(j)' /\ Mirrors(j)'
  BY <1>4, <1>5, <1>6 DEF Fresh, Ends, Saved, Collected, Mirrors
<1> QED BY <1>3, <1>5, <1>9, <1>10 DEF Moved, JobOK, DisksOfOthers

\* What an apply that has not failed has to answer for, of snapshot m with files fs.
Ensures(j, m, todo, ask, at, fs) ==
  /\ \A b \in Configured : <<1, b>> \in ask \/ at = b \/ Exists(b)
  /\ \A b \in m.buckets : <<2, b>> \in ask \/ at = b \/ Exists(b)
  /\ \A o \in m.objects \ todo : /\ o[2] \in KeysIn(o[1])
                                 /\ Holds(fs, o[1], o[2], store[o[1]][o[2]])

\* A step of an apply that keeps its snapshot is well if it keeps that.
LEMMA ApplyMoves ==
  ASSUME IInv, NEW j \in Job, job[j].step = "ensure", UNCHANGED <<req, disk>>, StoreStep(j),
         \A i \in Job : i # j => job'[i] = job[i],
         job'[j].kind = job[j].kind, job'[j].of = job[j].of,
         job'[j].manifest = job[j].manifest, job'[j].todo \subseteq job[j].todo,
         \/ job'[j].step = "ensure"
         \/ /\ job'[j].step = "success" /\ job'[j].left = {} /\ job'[j].todo = {}
            /\ job'[j].ask = {} /\ job'[j].at = None,
         /\ j \in calm
         /\ Ensures(j, job[j].manifest, job[j].todo, job[j].ask, job[j].at,
                    disk[job[j].of].files)
         => Ensures(j, job[j].manifest, job[j].todo, job[j].ask, job[j].at,
                    disk[job[j].of].files)',
         j \in calm' => j \in calm
  PROVE  Moved(j)
<1>0. JobOK(j) /\ job[j].kind = "apply" /\ disk[j].manifest = None
  BY DEF IInv, JobOK, Ends, Saved
<1>1. Fresh(j)' /\ Ends(j)' /\ Saved(j)' /\ Collected(j)' /\ Mirrors(j)'
  BY <1>0 DEF Fresh, Ends, Saved, Collected, Mirrors
<1>2. /\ \/ job[j].manifest = NoManifest
         \/ /\ disk[job[j].of].manifest # None
            /\ disk[job[j].of].manifest = job[j].manifest
      /\ job[j].todo \subseteq job[j].manifest.objects
      /\ j \in calm => Ensures(j, job[j].manifest, job[j].todo, job[j].ask, job[j].at,
                               disk[job[j].of].files)
  BY <1>0 DEF JobOK, Restored, Ensures
<1>3. j \in calm' => Ensures(j, job[j].manifest, job[j].todo, job[j].ask, job[j].at,
                            disk[job[j].of].files)'
  BY <1>2
<1>4. Restored(j)'
  BY <1>2, <1>3 DEF Restored, Ensures
<1> QED BY <1>0, <1>1, <1>4 DEF Moved, JobOK, DisksOfOthers

LEMMA AskForBucketMoves ==
  ASSUME IInv, NEW j \in Job, AskForBucket(j)
  PROVE  Moved(j)
<1>0. TypeOK /\ job[j] \in Jobs /\ job[j].step = "ensure" /\ job[j].at = None
  BY DEF IInv, TypeOK, AskForBucket
<1>1. PICK a \in job[j].ask :
        JobGoes(j, [job[j] EXCEPT !.ask = @ \ {a}, !.at = IF Exists(a[2]) THEN None ELSE a[2]])
  BY DEF AskForBucket
<1>2. PICK at : at = IF Exists(a[2]) THEN None ELSE a[2]
  OBVIOUS
<1>3. /\ job'[j] = [job[j] EXCEPT !.ask = @ \ {a}, !.at = at]
      /\ \A i \in Job : i # j => job'[i] = job[i]
  BY <1>0, <1>1, <1>2, JobGoesMeans
<1>4. /\ job'[j].step = "ensure" /\ job'[j].kind = job[j].kind /\ job'[j].of = job[j].of
      /\ job'[j].manifest = job[j].manifest /\ job'[j].todo = job[j].todo
      /\ job'[j].ask = job[j].ask \ {a} /\ job'[j].at = at
  BY <1>0, <1>3 DEF Jobs
<1>5. UNCHANGED <<req, disk, store, calm>> /\ StoreStep(j)
  BY KeptStoreStep DEF AskForBucket, Reads
<1>6. \A b : KeysIn(b)' = KeysIn(b) /\ (Exists(b)' <=> Exists(b))
  BY <1>5 DEF KeysIn, Exists
<1>7. ASSUME Ensures(j, job[j].manifest, job[j].todo, job[j].ask, job[j].at,
                     disk[job[j].of].files)
      PROVE  Ensures(j, job[j].manifest, job[j].todo, job[j].ask, job[j].at,
                     disk[job[j].of].files)'
  <2>1. \A b \in Bucket : b # None
    BY NoneAssumption
  <2>2. job[j].manifest.buckets \subseteq Bucket
    BY <1>0 DEF Jobs, Manifests
  <2>3. ASSUME NEW n \in {1, 2}, NEW b \in Bucket, <<n, b>> \in job[j].ask \/ Exists(b)
        PROVE  <<n, b>> \in job'[j].ask \/ job'[j].at = b \/ Exists(b)
    BY <1>2, <1>4, <2>3
  <2>4. \A b \in Configured : <<1, b>> \in job'[j].ask \/ job'[j].at = b \/ Exists(b)
    BY <1>0, <1>7, <2>1, <2>3, BucketAssumption DEF Ensures
  <2>5. \A b \in job[j].manifest.buckets : <<2, b>> \in job'[j].ask \/ job'[j].at = b \/ Exists(b)
    BY <1>0, <1>7, <2>1, <2>2, <2>3 DEF Ensures
  <2> QED BY <1>4, <1>5, <1>6, <1>7, <2>4, <2>5 DEF Ensures
<1> QED BY <1>0, <1>3, <1>4, <1>5, <1>7, ApplyMoves

LEMMA MakeMissingMoves ==
  ASSUME IInv, NEW j \in Job, MakeMissing(j)
  PROVE  Moved(j)
<1>0. /\ TypeOK /\ JobOK(j) /\ job[j] \in Jobs /\ job[j].step = "ensure"
      /\ job[j].at # None /\ job[j].at \in Bucket /\ UNCHANGED <<req, disk>>
  BY DEF IInv, TypeOK, MakeMissing, Jobs
<1>1. CASE JobEnds(j, "failed") /\ Reads
  BY <1>0, <1>1, FailedMoves DEF JobOK, Saved
<1>2. ASSUME MakeBucket(j, job[j].at), JobGoes(j, [job[j] EXCEPT !.at = None])
      PROVE  Moved(j)
  <2>1. PICK a \in Bucket : a = job[j].at
    BY <1>0
  <2>2. /\ job'[j] = [job[j] EXCEPT !.at = None]
        /\ \A i \in Job : i # j => job'[i] = job[i]
    BY <1>0, <1>2, JobGoesMeans
  <2>3. /\ job'[j].step = "ensure" /\ job'[j].kind = job[j].kind /\ job'[j].of = job[j].of
        /\ job'[j].manifest = job[j].manifest /\ job'[j].todo = job[j].todo
        /\ job'[j].ask = job[j].ask /\ job'[j].at = None
    BY <1>0, <2>2 DEF Jobs
  <2>4. StoreStep(j) /\ (j \in calm' => j \in calm)
    BY <1>0, <1>2, BucketsStoreStep DEF MakeBucket, Change
  <2>5. ~Exists(a) /\ \A b \in Bucket : store'[b] = IF b = a THEN Empty ELSE store[b]
    BY <1>0, <1>2, <2>1 DEF MakeBucket, Change, TypeOK
  <2>6. Empty # Gone
    <3>1. PICK k \in Key : TRUE
      BY FiniteAssumption
    <3>2. k \in DOMAIN Empty
      BY DEF Empty
    <3>3. DOMAIN Gone = {}
      BY DEF Gone
    <3> QED BY <3>2, <3>3
  <2>7. \A b \in Bucket : (Exists(b) \/ b = a) => Exists(b)'
    BY <2>5, <2>6 DEF Exists
  <2>8. \A b \in Bucket : Exists(b) => KeysIn(b)' = KeysIn(b) /\ store'[b] = store[b]
    BY <2>5 DEF Exists, KeysIn
  <2>9. /\ job[j].manifest.buckets \subseteq Bucket
        /\ \A o \in job[j].manifest.objects : o[1] \in Bucket
    BY <1>0 DEF Jobs, Manifests, Objects
  <2>10. ASSUME Ensures(j, job[j].manifest, job[j].todo, job[j].ask, job[j].at,
                        disk[job[j].of].files)
         PROVE  Ensures(j, job[j].manifest, job[j].todo, job[j].ask, job[j].at,
                        disk[job[j].of].files)'
    <3>1. \A b \in Configured : <<1, b>> \in job[j].ask \/ Exists(b)'
      BY <2>1, <2>7, <2>10, BucketAssumption DEF Ensures
    <3>2. \A b \in job[j].manifest.buckets : <<2, b>> \in job[j].ask \/ Exists(b)'
      BY <2>1, <2>7, <2>9, <2>10 DEF Ensures
    <3>3. ASSUME NEW o \in job[j].manifest.objects \ job[j].todo
          PROVE  /\ o[2] \in KeysIn(o[1])'
                 /\ Holds(disk[job[j].of].files, o[1], o[2], store'[o[1]][o[2]])
      <4>1. /\ o[2] \in KeysIn(o[1])
            /\ Holds(disk[job[j].of].files, o[1], o[2], store[o[1]][o[2]])
        BY <2>10 DEF Ensures
      <4>2. Exists(o[1])
        BY <4>1 DEF KeysIn
      <4> QED BY <2>8, <2>9, <4>1, <4>2
    <3> QED BY <1>0, <2>3, <3>1, <3>2, <3>3 DEF Ensures
  <2> QED BY <1>0, <2>2, <2>3, <2>4, <2>10, ApplyMoves
<1> QED BY <1>1, <1>2 DEF MakeMissing

LEMMA UploadMoves ==
  ASSUME IInv, NEW j \in Job, Upload(j)
  PROVE  Moved(j)
<1>0. /\ TypeOK /\ JobOK(j) /\ job[j] \in Jobs /\ job[j].step = "ensure"
      /\ job[j].at = None /\ job[j].ask = {} /\ UNCHANGED <<req, disk>>
  BY DEF IInv, TypeOK, Upload, Ensured
<1>1. CASE JobEnds(j, "failed") /\ Reads
  BY <1>0, <1>1, FailedMoves DEF JobOK, Saved
<1> DEFINE files == disk[job[j].of].files
<1>2. ASSUME NEW o \in job[j].todo, NEW c \in Content, Holds(files, o[1], o[2], c),
             Put(j, o[1], o[2], c), JobGoes(j, [job[j] EXCEPT !.todo = @ \ {o}])
      PROVE  Moved(j)
  <2>1. /\ job'[j] = [job[j] EXCEPT !.todo = @ \ {o}]
        /\ \A i \in Job : i # j => job'[i] = job[i]
    BY <1>0, <1>2, JobGoesMeans
  <2>2. /\ job'[j].step = "ensure" /\ job'[j].kind = job[j].kind /\ job'[j].of = job[j].of
        /\ job'[j].manifest = job[j].manifest /\ job'[j].todo = job[j].todo \ {o}
        /\ job'[j].ask = job[j].ask /\ job'[j].at = job[j].at
    BY <1>0, <2>1 DEF Jobs
  <2>3. /\ o[1] \in Bucket /\ o[2] \in Key /\ o = <<o[1], o[2]>>
        /\ job[j].manifest.objects \subseteq Bucket \X Key
        /\ job[j].manifest.buckets \subseteq Bucket
    BY <1>0 DEF Jobs, Objects, Manifests
  <2>4. StoreStep(j) /\ (j \in calm' => j \in calm)
    BY <1>0, <1>2, <2>3, CallsStoreStep DEF Put, Change
  <2>5. Exists(o[1]) /\ store[o[1]] \in [Key -> Content \cup {None}]
    BY <1>0, <1>2, <2>3 DEF Put, Exists, TypeOK
  <2>6. \A b \in Bucket : store'[b] = IF b = o[1] THEN [store[b] EXCEPT ![o[2]] = c] ELSE store[b]
    BY <1>0, <1>2, <2>3 DEF Put, Change, TypeOK
  <2>7. \A b \in Bucket : Exists(b) => Exists(b)'
    <3>1. [store[o[1]] EXCEPT ![o[2]] = c] # Gone
      <4>1. o[2] \in DOMAIN [store[o[1]] EXCEPT ![o[2]] = c]
        BY <2>3, <2>5
      <4>2. DOMAIN Gone = {}
        BY DEF Gone
      <4> QED BY <4>1, <4>2
    <3> QED BY <2>6, <3>1 DEF Exists
  <2>8. c # None
    BY NoneAssumption
  <2>9. store'[o[1]][o[2]] = c /\ o[2] \in KeysIn(o[1])'
    <3>1. store'[o[1]][o[2]] = c
      BY <2>3, <2>5, <2>6
    <3>2. Exists(o[1])'
      BY <2>3, <2>5, <2>7
    <3> QED BY <2>3, <2>8, <3>1, <3>2 DEF KeysIn
  <2>10. ASSUME NEW b \in Bucket, NEW k \in Key, k \in KeysIn(b), <<b, k>> # o
         PROVE  k \in KeysIn(b)' /\ store'[b][k] = store[b][k]
    <3>1. Exists(b) /\ Exists(b)'
      BY <2>7, <2>10 DEF KeysIn
    <3>2. store'[b][k] = store[b][k]
      <4>1. CASE b = o[1]
        <5>1. k # o[2]
          BY <2>3, <2>10, <4>1
        <5> QED BY <2>5, <2>6, <4>1, <5>1
      <4>2. CASE b # o[1]
        BY <2>6, <4>2
      <4> QED BY <4>1, <4>2
    <3> QED BY <2>10, <3>1, <3>2 DEF KeysIn
  <2>11. ASSUME Ensures(j, job[j].manifest, job[j].todo, job[j].ask, job[j].at, files)
         PROVE  Ensures(j, job[j].manifest, job[j].todo, job[j].ask, job[j].at, files)'
    <3>1. ASSUME NEW p \in job[j].manifest.objects \ (job[j].todo \ {o})
          PROVE  p[2] \in KeysIn(p[1])' /\ Holds(files, p[1], p[2], store'[p[1]][p[2]])
      <4>1. CASE p = o
        BY <1>2, <2>9, <4>1
      <4>2. CASE p # o
        <5>1. p[1] \in Bucket /\ p[2] \in Key /\ p = <<p[1], p[2]>>
          BY <2>3
        <5>2. p[2] \in KeysIn(p[1]) /\ Holds(files, p[1], p[2], store[p[1]][p[2]])
          BY <2>11, <4>2 DEF Ensures
        <5> QED BY <2>10, <4>2, <5>1, <5>2
      <4> QED BY <4>1, <4>2
    <3>2. /\ \A b \in Configured : <<1, b>> \in job'[j].ask \/ job'[j].at = b \/ Exists(b)'
          /\ \A b \in job[j].manifest.buckets :
               <<2, b>> \in job'[j].ask \/ job'[j].at = b \/ Exists(b)'
      BY <2>2, <2>3, <2>7, <2>11, BucketAssumption DEF Ensures
    <3> QED BY <1>0, <2>2, <3>1, <3>2 DEF Ensures
  <2> QED BY <1>0, <2>1, <2>2, <2>4, <2>11, ApplyMoves
<1>3. \E o \in job[j].todo :
        \/ /\ \E c \in Content : Holds(files, o[1], o[2], c) /\ Put(j, o[1], o[2], c)
           /\ JobGoes(j, [job[j] EXCEPT !.todo = @ \ {o}])
        \/ JobEnds(j, "failed") /\ Reads
  BY DEF Upload
<1> QED BY <1>1, <1>2, <1>3

LEMMA AppliedMoves ==
  ASSUME IInv, NEW j \in Job, Applied(j)
  PROVE  Moved(j)
<1>0. /\ TypeOK /\ job[j] \in Jobs /\ job[j].step = "ensure" /\ job[j].todo = {}
      /\ job[j].at = None /\ job[j].ask = {} /\ UNCHANGED <<req, disk, store, calm>>
  BY DEF IInv, TypeOK, Applied, Ensured, Reads
<1>1. /\ job'[j].step = "success" /\ job'[j].kind = job[j].kind /\ job'[j].of = job[j].of
      /\ job'[j].manifest = job[j].manifest
      /\ job'[j].left = {} /\ job'[j].todo = {} /\ job'[j].ask = {} /\ job'[j].at = None
      /\ \A i \in Job : i # j => job'[i] = job[i]
  BY <1>0, JobEndsMeans DEF Applied
<1>2. StoreStep(j)
  BY KeptStoreStep DEF Applied, Reads
<1>3. \A b : KeysIn(b)' = KeysIn(b) /\ (Exists(b)' <=> Exists(b))
  BY <1>0 DEF KeysIn, Exists
<1>4. Ensures(j, job[j].manifest, job[j].todo, job[j].ask, job[j].at, disk[job[j].of].files)
      => Ensures(j, job[j].manifest, job[j].todo, job[j].ask, job[j].at, disk[job[j].of].files)'
  BY <1>0, <1>1, <1>3 DEF Ensures
<1> QED BY <1>0, <1>1, <1>2, <1>4, ApplyMoves

LEMMA JobIsCutMoves ==
  ASSUME IInv, NEW j \in Job, JobIsCut(j)
  PROVE  Moved(j)
<1>1. JobOK(j) /\ job[j].step \in {"list", "objects", "ensure"} /\ UNCHANGED req /\ Reads
  BY DEF IInv, JobIsCut
<1>2. disk[j].manifest = None
  BY <1>1 DEF JobOK, Saved
<1>3. BackupFails(j) \/ (JobEnds(j, "failed") /\ UNCHANGED disk)
  BY DEF JobIsCut
<1> QED BY <1>1, <1>2, <1>3, FailedMoves

LEMMA JobStep ==
  ASSUME IInv, NEW j \in Job, JobNext(j)
  PROVE  IInv'
<1>1. TypeOK'
  BY JobTypeStep DEF IInv
<1>2. Moved(j)
  BY StartBackupMoves, ListBucketsMoves, ListObjectsMoves, DownloadMoves, WriteManifestMoves,
     StartApplyMoves, AskForBucketMoves, MakeMissingMoves, UploadMoves, AppliedMoves,
     JobIsCutMoves DEF JobNext
<1> QED BY <1>1, <1>2, MovedSuffices

-----------------------------------------------------------------------------
(***************************************************************************)
(* The steps of a request.                                                 *)
(***************************************************************************)
LEMMA ReqGoesMeans ==
  ASSUME TypeOK, NEW r \in Request, NEW q, ReqGoes(r, q)
  PROVE  req'[r] = q /\ \A i \in Request : i # r => req'[i] = req[i]
BY DEF TypeOK, ReqGoes

\* The selection of r is what it was.
SameSelection(r) ==
  /\ req'[r].kind = req[r].kind /\ req'[r].bucket = req[r].bucket
  /\ req'[r].keys = req[r].keys /\ req'[r].prefixes = req[r].prefixes

LEMMA ReqEndsMeans ==
  ASSUME TypeOK, NEW r \in Request, NEW s, ReqEnds(r, s) \/ Closed(r, s)
  PROVE  /\ req'[r].step = s /\ SameSelection(r)
         /\ req'[r].out = req[r].out /\ req'[r].todo = req[r].todo
         /\ \A i \in Request : i # r => req'[i] = req[i]
<1>1. req[r] \in Requests
  BY DEF TypeOK
<1>2. CASE ReqEnds(r, s)
  <2>1. /\ req'[r] = [req[r] EXCEPT !.step = s]
        /\ \A i \in Request : i # r => req'[i] = req[i]
    BY <1>2, ReqGoesMeans DEF ReqEnds
  <2> QED BY <1>1, <2>1 DEF Requests, SameSelection
<1>3. CASE Closed(r, s)
  <2>1. /\ req'[r] = [req[r] EXCEPT !.step = s, !.directory = TRUE]
        /\ \A i \in Request : i # r => req'[i] = req[i]
    BY <1>3, ReqGoesMeans DEF Closed
  <2> QED BY <1>1, <2>1 DEF Requests, SameSelection
<1> QED BY <1>2, <1>3

\* What is left to show of a step of r.
ReqMoved(r) ==
  /\ StoreStep(r) /\ UNCHANGED <<job, disk>>
  /\ \A i \in Request : i # r => req'[i] = req[i]
  /\ ReqOK(r)'

LEMMA ReqMovedSuffices ==
  ASSUME IInv, NEW r \in Request, TypeOK', ReqMoved(r)
  PROVE  IInv'
<1>1. ASSUME NEW i \in Job PROVE JobOK(i)'
  <2>1. i # r
    BY ActorAssumption
  <2> QED BY <2>1, JobKept DEF IInv, ReqMoved
<1>2. ASSUME NEW i \in Request PROVE ReqOK(i)'
  <2>1. CASE i = r
    BY <2>1 DEF ReqMoved
  <2>2. CASE i # r
    BY <2>2, ReqKept DEF IInv, ReqMoved
  <2> QED BY <2>1, <2>2
<1> QED BY <1>1, <1>2 DEF IInv

\* The selection covers the same keys when neither it nor the store changes.
LEMMA SelectionKept ==
  ASSUME NEW r \in Request, SameSelection(r), Reads
  PROVE  /\ Covered(r)' = Covered(r) /\ Remains(r)' = Remains(r)
         /\ KeysIn(req[r].bucket)' = KeysIn(req[r].bucket)
         /\ \A f : Within(r, f)' <=> Within(r, f)
<1>1. Covered(r)' = Covered(r) /\ \A f : Within(r, f)' <=> Within(r, f)
  BY DEF SameSelection, Covered, Within
<1>2. \A b : KeysIn(b)' = KeysIn(b)
  BY DEF Reads, KeysIn, Exists
<1> QED BY <1>1, <1>2 DEF SameSelection, Remains, Reads

LEMMA ReqFailsMoves ==
  ASSUME IInv, NEW r \in Request, req[r].step # "idle", UNCHANGED <<job, disk>>, Reads,
         ReqEnds(r, "failed") \/ Closed(r, "failed")
  PROVE  ReqMoved(r)
<1>1. /\ req'[r].step = "failed" /\ SameSelection(r) /\ req'[r].out = req[r].out
      /\ \A i \in Request : i # r => req'[i] = req[i]
  BY ReqEndsMeans DEF IInv
<1>2. StoreStep(r)
  BY KeptStoreStep DEF Reads
<1>3. Walks(r)'
  BY <1>1, SelectionKept DEF Walks, IInv, ReqOK
<1>4. Deletes(r)' /\ Archives(r)'
  BY <1>1 DEF Deletes, Archives, IInv, ReqOK, Reads
<1> QED BY <1>1, <1>2, <1>3, <1>4 DEF ReqMoved, ReqOK

LEMMA BeginMoves ==
  ASSUME IInv, NEW r \in Request, Begin(r)
  PROVE  ReqMoved(r)
<1>0. TypeOK /\ ReqOK(r) /\ req[r] \in Requests /\ req[r].step = "idle"
  BY DEF IInv, TypeOK, Begin
<1>1. PICK kind \in {"delete", "archive"}, b \in Bucket, keys \in SUBSET Key,
           prefixes \in SUBSET Folder :
        ReqGoes(r, [req[r] EXCEPT !.step = "walk", !.kind = kind, !.bucket = b,
                      !.keys = keys, !.prefixes = prefixes, !.out = keys,
                      !.folders = SetToSeq(prefixes)])
  BY DEF Begin
<1>2. PICK fs : fs = SetToSeq(prefixes)
  OBVIOUS
<1>3. /\ req'[r] = [req[r] EXCEPT !.step = "walk", !.kind = kind, !.bucket = b,
                      !.keys = keys, !.prefixes = prefixes, !.out = keys, !.folders = fs]
      /\ \A i \in Request : i # r => req'[i] = req[i]
  BY <1>0, <1>1, <1>2, ReqGoesMeans
<1>4. /\ req'[r].step = "walk" /\ req'[r].keys = keys /\ req'[r].prefixes = prefixes
      /\ req'[r].out = keys /\ req'[r].folders = fs
  BY <1>0, <1>3 DEF Requests
<1>5. UNCHANGED <<job, disk, store, since>> /\ StoreStep(r)
  BY KeptStoreStep DEF Begin
<1>6. since'[r] = {}
  BY <1>0, <1>5 DEF ReqOK, Walks
<1>7. /\ fs \in Seq(prefixes)
      /\ \A f \in prefixes : \E i \in 1 .. Len(fs) : fs[i] = f
  <2>1. IsFiniteSet(prefixes)
    BY FoldersFinite, FS_Subset
  <2> QED BY <1>2, <2>1, SetToSeqLists
<1>8. \A i \in 1 .. Len(fs) : fs[i] \in prefixes
  BY <1>7
<1>9. Walks(r)'
  <2>1. Covered(r)' = keys \cup {k \in Key : \E f \in prefixes : Under(f, k)}
    BY <1>4 DEF Covered
  <2>2. \A i \in 1 .. Len(fs) : Within(r, fs[i])'
    BY <1>4, <1>8 DEF Within
  <2>3. \A k \in Covered(r)' : k \in keys \/ Pending(r, k)'
    BY <1>4, <1>7, <2>1 DEF Pending
  <2>4. Remains(r)' \subseteq Covered(r)'
    BY DEF Remains
  <2>5. keys \subseteq Covered(r)'
    BY <2>1
  <2> QED BY <1>4, <2>2, <2>3, <2>4, <2>5 DEF Walks
<1>10. Deletes(r)' /\ Archives(r)'
  BY <1>4, <1>6 DEF Deletes, Archives
<1> QED BY <1>3, <1>5, <1>9, <1>10 DEF ReqMoved, ReqOK

LEMMA WalkedMoves ==
  ASSUME IInv, NEW r \in Request, Walked(r)
  PROVE  ReqMoved(r)
<1>0. /\ TypeOK /\ ReqOK(r) /\ req[r] \in Requests /\ req[r].step = "walk"
      /\ req[r].folders = <<>> /\ UNCHANGED <<job, disk>> /\ Reads
  BY DEF IInv, TypeOK, Walked
<1>1. CASE ReqEnds(r, "failed")
  BY <1>0, <1>1, ReqFailsMoves
<1>2. ASSUME ReqGoes(r, [req[r] EXCEPT !.step = "act", !.todo = req[r].out])
      PROVE  ReqMoved(r)
  <2>1. /\ req'[r] = [req[r] EXCEPT !.step = "act", !.todo = req[r].out]
        /\ \A i \in Request : i # r => req'[i] = req[i]
    BY <1>0, <1>2, ReqGoesMeans
  <2>2. /\ req'[r].step = "act" /\ SameSelection(r) /\ req'[r].out = req[r].out
        /\ req'[r].todo = req[r].out
    BY <1>0, <2>1 DEF Requests, SameSelection
  <2>3. StoreStep(r)
    BY <1>0, KeptStoreStep DEF Reads
  <2>4. \A k \in Remains(r) : k \in req[r].out
    <3>1. \A k : ~Pending(r, k)
      BY <1>0 DEF Pending
    <3> QED BY <1>0, <3>1 DEF ReqOK, Walks
  <2>5. Walks(r)'
    BY <1>0, <2>2, <2>4, SelectionKept DEF Walks, ReqOK
  <2>6. Deletes(r)' /\ Archives(r)'
    BY <1>0, <2>2 DEF Deletes, Archives, ReqOK, Reads
  <2> QED BY <1>0, <2>1, <2>3, <2>5, <2>6 DEF ReqMoved, ReqOK
<1> QED BY <1>1, <1>2 DEF Walked

\* What is under a folder of the walk is selected.
LEMMA WithinIsCovered ==
  ASSUME TypeOK, NEW r \in Request, NEW f \in Folder, Within(r, f), NEW k \in Key, Under(f, k)
  PROVE  k \in Covered(r)
<1>1. PICK g \in req[r].prefixes : f = g \/ Under(g, f)
  BY DEF Within
<1>2. g \in Folder
  BY DEF TypeOK, Requests
<1>3. g \in Seq(STRING) /\ f \in Seq(STRING) /\ k \in Seq(STRING)
  BY <1>2, FolderType, FiniteAssumption
<1>4. Under(g, k)
  BY <1>1, <1>3, UnderIsTransitive
<1> QED BY <1>4 DEF Covered

Occurs(x, s) == \E i \in 1 .. Len(s) : s[i] = x

LEMMA ConcatMeans ==
  ASSUME NEW S, NEW s \in Seq(S), NEW t \in Seq(S)
  PROVE  /\ s \o t \in Seq(S) /\ Len(s \o t) = Len(s) + Len(t)
         /\ \A i \in 1 .. Len(s) : (s \o t)[i] = s[i]
         /\ \A i \in 1 .. Len(t) : (s \o t)[Len(s) + i] = t[i]
OBVIOUS

LEMMA OccursInConcat ==
  ASSUME NEW S, NEW s \in Seq(S), NEW t \in Seq(S), NEW x
  PROVE  Occurs(x, s \o t) <=> Occurs(x, s) \/ Occurs(x, t)
<1>1. /\ s \o t \in Seq(S) /\ Len(s \o t) = Len(s) + Len(t)
      /\ \A i \in 1 .. Len(s) : (s \o t)[i] = s[i]
      /\ \A i \in 1 .. Len(t) : (s \o t)[Len(s) + i] = t[i]
  BY ConcatMeans
<1>2. ASSUME Occurs(x, s) PROVE Occurs(x, s \o t)
  <2>1. PICK i \in 1 .. Len(s) : s[i] = x
    BY <1>2 DEF Occurs
  <2>2. i \in 1 .. Len(s \o t) /\ (s \o t)[i] = x
    BY <1>1, <2>1
  <2> QED BY <2>2 DEF Occurs
<1>3. ASSUME Occurs(x, t) PROVE Occurs(x, s \o t)
  <2>1. PICK i \in 1 .. Len(t) : t[i] = x
    BY <1>3 DEF Occurs
  <2>2. Len(s) + i \in 1 .. Len(s \o t) /\ (s \o t)[Len(s) + i] = x
    BY <1>1, <2>1
  <2> QED BY <2>2 DEF Occurs
<1>4. ASSUME Occurs(x, s \o t) PROVE Occurs(x, s) \/ Occurs(x, t)
  <2>1. PICK i \in 1 .. Len(s) + Len(t) : (s \o t)[i] = x
    BY <1>1, <1>4 DEF Occurs
  <2>2. CASE i <= Len(s)
    BY <1>1, <2>1, <2>2 DEF Occurs
  <2>3. CASE i > Len(s)
    <3>1. i - Len(s) \in 1 .. Len(t) /\ Len(s) + (i - Len(s)) = i
      BY <2>1, <2>3
    <3>2. t[i - Len(s)] = x
      BY <1>1, <2>1, <3>1
    <3> QED BY <3>1, <3>2 DEF Occurs
  <2> QED BY <2>1, <2>2, <2>3
<1> QED BY <1>2, <1>3, <1>4

LEMMA OccursInTail ==
  ASSUME NEW S, NEW s \in Seq(S), s # <<>>, NEW x
  PROVE  Occurs(x, s) <=> x = Head(s) \/ Occurs(x, Tail(s))
<1>1. /\ Len(s) >= 1 /\ Head(s) = s[1] /\ Tail(s) \in Seq(S) /\ Len(Tail(s)) = Len(s) - 1
      /\ \A i \in 1 .. Len(s) - 1 : Tail(s)[i] = s[i + 1]
  OBVIOUS
<1>2. ASSUME Occurs(x, s) PROVE x = Head(s) \/ Occurs(x, Tail(s))
  <2>1. PICK i \in 1 .. Len(s) : s[i] = x
    BY <1>2 DEF Occurs
  <2>2. CASE i = 1
    BY <1>1, <2>1, <2>2
  <2>3. CASE i # 1
    <3>1. i - 1 \in 1 .. Len(s) - 1 /\ (i - 1) + 1 = i
      BY <2>1, <2>3
    <3>2. Tail(s)[i - 1] = x
      BY <1>1, <2>1, <3>1
    <3> QED BY <1>1, <3>1, <3>2 DEF Occurs
  <2> QED BY <2>2, <2>3
<1>3. ASSUME x = Head(s) PROVE Occurs(x, s)
  <2>1. 1 \in 1 .. Len(s)
    BY <1>1
  <2> QED BY <1>1, <1>3, <2>1 DEF Occurs
<1>4. ASSUME Occurs(x, Tail(s)) PROVE Occurs(x, s)
  <2>1. PICK i \in 1 .. Len(s) - 1 : Tail(s)[i] = x
    BY <1>1, <1>4 DEF Occurs
  <2>2. i + 1 \in 1 .. Len(s) /\ s[i + 1] = x
    BY <1>1, <2>1
  <2> QED BY <2>2 DEF Occurs
<1> QED BY <1>2, <1>3, <1>4

LEMMA AppendedOne ==
  ASSUME NEW S, NEW s \in Seq(S), NEW x \in S
  PROVE  /\ s \o <<x>> \in Seq(S) /\ Len(s \o <<x>>) = Len(s) + 1
         /\ \A i \in 1 .. Len(s) : (s \o <<x>>)[i] = s[i]
         /\ (s \o <<x>>)[Len(s) + 1] = x
<1>1. <<x>> \in Seq(S) /\ Len(<<x>>) = 1 /\ <<x>>[1] = x
  OBVIOUS
<1>2. PICK t \in Seq(S) : t = <<x>> /\ Len(t) = 1 /\ t[1] = x
  BY <1>1
<1>3. /\ s \o t \in Seq(S) /\ Len(s \o t) = Len(s) + Len(t)
      /\ \A i \in 1 .. Len(s) : (s \o t)[i] = s[i]
      /\ \A i \in 1 .. Len(t) : (s \o t)[Len(s) + i] = t[i]
  BY ConcatMeans
<1>4. 1 \in 1 .. Len(t)
  BY <1>2
<1>5. Len(s \o t) = Len(s) + 1 /\ (s \o t)[Len(s) + 1] = x
  BY <1>2, <1>3, <1>4
<1> QED BY <1>2, <1>3, <1>5

LEMMA SameElements ==
  ASSUME NEW S, NEW s \in Seq(S), NEW t \in Seq(S), Len(s) = Len(t),
         \A i \in 1 .. Len(s) : s[i] = t[i]
  PROVE  s = t
OBVIOUS

\* A listing of f shows every key under it: as an object, in a folder of the next
\* level, or as the marker of f itself.
LEMMA ListingMissesNothing ==
  ASSUME NEW b, NEW f \in Folder, NEW k \in KeysIn(b), Under(f, k)
  PROVE  \/ k \in ObjectsAt(b, f)
         \/ \E g \in FoldersAt(b, f) : Under(g, k)
         \/ f \o <<"">> \in KeysIn(b)
<1>1. k \in Key /\ k \in Seq(STRING) /\ f \in Seq(STRING)
  BY KeysAreKeys, FiniteAssumption, FolderType
<1>2. Len(f) < Len(k) /\ \A i \in 1 .. Len(f) : f[i] = k[i]
  BY <1>1, UnderMeans
<1>3. CASE Len(k) > Len(f) + 1
  <2> DEFINE g == SubSeq(k, 1, Len(f) + 1)
  <2>1. g \in FoldersAt(b, f)
    BY <1>3 DEF FoldersAt
  <2>2. Under(g, k)
    BY <1>1, <1>3, NextLevel
  <2> QED BY <2>1, <2>2
<1>4. CASE Len(k) = Len(f) + 1 /\ Last(k) # ""
  BY <1>4 DEF ObjectsAt
<1>5. CASE Len(k) = Len(f) + 1 /\ Last(k) = ""
  <2>1. k[Len(f) + 1] = ""
    BY <1>5 DEF Last
  <2> DEFINE m == f \o <<"">>
  <2>2. /\ m \in Seq(STRING) /\ Len(m) = Len(f) + 1
        /\ \A i \in 1 .. Len(f) : m[i] = f[i]
        /\ m[Len(f) + 1] = ""
    <3>1. "" \in STRING
      <4>1. Len(f) + 1 \in 1 .. Len(k)
        <5>1. Len(f) \in Nat
          BY <1>1
        <5>2. Len(k) = Len(f) + 1
          BY <1>5
        <5> QED BY <5>1, <5>2
      <4>2. k[Len(f) + 1] \in STRING
        BY <1>1, <4>1
      <4> QED BY <2>1, <4>2
    <3> QED BY <1>1, <3>1, AppendedOne
  <2> HIDE DEF m
  <2>3. \A i \in 1 .. Len(f) + 1 : m[i] = k[i]
    <3>1. ASSUME NEW i \in 1 .. Len(f) + 1 PROVE m[i] = k[i]
      <4>1. CASE i = Len(f) + 1
        BY <2>1, <2>2, <4>1
      <4>2. CASE i # Len(f) + 1
        <5>1. i \in 1 .. Len(f)
          BY <1>1, <4>2
        <5> QED BY <1>2, <2>2, <5>1
      <4> QED BY <4>1, <4>2
    <3> QED BY <3>1
  <2>4. m = k
    BY <1>1, <1>5, <2>2, <2>3, SameElements
  <2> QED BY <2>4 DEF m
<1>6. Len(k) > Len(f) + 1 \/ Len(k) = Len(f) + 1
  <2>1. Len(k) \in Nat /\ Len(f) \in Nat
    BY <1>1
  <2> QED BY <1>2, <2>1
<1> QED BY <1>3, <1>4, <1>5, <1>6

\* Listing a folder neither leaves the selection nor loses what stays in it.
LEMMA WalkMoves ==
  ASSUME IInv, NEW r \in Request, Walk(r)
  PROVE  ReqMoved(r)
<1>0. /\ TypeOK /\ ReqOK(r) /\ req[r] \in Requests /\ req[r].step = "walk"
      /\ req[r].folders # <<>> /\ UNCHANGED <<job, disk>> /\ Reads
  BY DEF IInv, TypeOK, Walk
<1>1. CASE ReqEnds(r, "failed")
  BY <1>0, <1>1, ReqFailsMoves
<1> DEFINE b == req[r].bucket
           fs == req[r].folders
           f == Head(fs)
           shown == SetToSeq(FoldersAt(b, f))
           fs1 == Listed(b, f, fs)
           out1 == req[r].out \cup ObjectsAt(b, f)
<1>2. ASSUME ReqGoes(r, [req[r] EXCEPT !.out = @ \cup ObjectsAt(b, f), !.folders = fs1])
      PROVE  ReqMoved(r)
  <2>1. /\ req'[r] = [req[r] EXCEPT !.out = out1, !.folders = fs1]
        /\ \A i \in Request : i # r => req'[i] = req[i]
    BY <1>0, <1>2, ReqGoesMeans
  <2>2. /\ req'[r].step = "walk" /\ SameSelection(r) /\ req'[r].out = out1
        /\ req'[r].folders = fs1
    <3> HIDE DEF out1, fs1
    <3> QED BY <1>0, <2>1 DEF Requests, SameSelection
  <2>3. StoreStep(r)
    BY <1>0, KeptStoreStep DEF Reads
  <2>4. /\ fs \in Seq(Folder) /\ f \in Folder /\ Tail(fs) \in Seq(Folder)
    BY <1>0 DEF Requests
  <2>5. /\ Itself(b, f) \in Seq(Folder) /\ shown \in Seq(Folder) /\ fs1 \in Seq(Folder)
    BY <1>0, <2>4, ListingType, ListedType
  <2>6. \A g : Occurs(g, fs1) <=> Occurs(g, Itself(b, f)) \/ Occurs(g, shown)
                                 \/ Occurs(g, Tail(fs))
    <3>1. PICK u \in Seq(Folder), v \in Seq(Folder), w \in Seq(Folder) :
            u = Itself(b, f) /\ v = shown /\ w = Tail(fs)
      BY <2>4, <2>5
    <3>2. u \o v \in Seq(Folder)
      BY ConcatMeans
    <3>3. \A g : Occurs(g, (u \o v) \o w) <=> Occurs(g, u) \/ Occurs(g, v) \/ Occurs(g, w)
      BY <3>2, OccursInConcat
    <3>4. fs1 = (u \o v) \o w
      BY <3>1 DEF Listed
    <3> QED BY <3>1, <3>3, <3>4
  <2>7. \A g : Occurs(g, fs) <=> g = f \/ Occurs(g, Tail(fs))
    BY <1>0, <2>4, OccursInTail
  <2>8. \A g : Occurs(g, Itself(b, f)) <=> g = f /\ f \o <<"">> \in KeysIn(b)
    <3>1. ASSUME NEW g PROVE Occurs(g, <<f>>) <=> g = f
      BY DEF Occurs
    <3>2. ASSUME NEW g PROVE ~Occurs(g, <<>>)
      BY DEF Occurs
    <3> QED BY <3>1, <3>2 DEF Itself
  <2>9. \A g : Occurs(g, shown) <=> g \in FoldersAt(b, f)
    <3>1. shown \in Seq(FoldersAt(b, f))
          /\ \A g \in FoldersAt(b, f) : \E i \in 1 .. Len(shown) : shown[i] = g
      BY <2>4, ListingType, SetToSeqLists
    <3>2. \A i \in 1 .. Len(shown) : shown[i] \in FoldersAt(b, f)
      BY <3>1
    <3> QED BY <3>1, <3>2 DEF Occurs
  <2>10. /\ \A g : Occurs(g, fs) => Within(r, g)
         /\ req[r].out \subseteq Covered(r)
         /\ \A k \in Remains(r) : k \in req[r].out \/ Pending(r, k)
    BY <1>0 DEF ReqOK, Walks, Occurs
  <2>11. Within(r, f)
    BY <2>7, <2>10
  <2>12. \A g \in FoldersAt(b, f) : Within(r, g)
    <3>1. ASSUME NEW g \in FoldersAt(b, f) PROVE Within(r, g)
      <4>1. PICK k \in KeysIn(b) : /\ Under(f, k) /\ Len(k) > Len(f) + 1
                                   /\ g = SubSeq(k, 1, Len(f) + 1)
        BY DEF FoldersAt
      <4>2. k \in Key /\ f \in Seq(STRING)
        BY <2>4, KeysAreKeys, FolderType
      <4>3. g \in Folder /\ Under(f, g)
        BY <4>1, <4>2, NextLevel
      <4>4. PICK h \in req[r].prefixes : f = h \/ Under(h, f)
        BY <2>11 DEF Within
      <4>5. h \in Seq(STRING) /\ g \in Seq(STRING)
        BY <1>0, <4>3, FolderType DEF Requests
      <4>6. Under(h, g)
        BY <4>2, <4>3, <4>4, <4>5, UnderIsTransitive
      <4> QED BY <4>6 DEF Within
    <3> QED BY <3>1
  <2>13. \A g : Occurs(g, fs1) => Within(r, g)
    BY <2>6, <2>7, <2>8, <2>9, <2>10, <2>11, <2>12
  <2>14. out1 \subseteq Covered(r)
    <3>1. ASSUME NEW k \in ObjectsAt(b, f) PROVE k \in Covered(r)
      <4>1. k \in Key /\ Under(f, k)
        BY KeysAreKeys DEF ObjectsAt
      <4> QED BY <1>0, <2>4, <2>11, <4>1, WithinIsCovered
    <3> QED BY <2>10, <3>1
  <2>15. \A k \in Remains(r) : k \in out1 \/ \E g : Occurs(g, fs1) /\ Under(g, k)
    <3>1. ASSUME NEW k \in Remains(r), k \notin out1
          PROVE  \E g : Occurs(g, fs1) /\ Under(g, k)
      <4>1. PICK g : Occurs(g, fs) /\ Under(g, k)
        BY <2>10, <3>1 DEF Pending, Occurs
      <4>2. CASE g # f
        BY <2>6, <2>7, <4>1, <4>2
      <4>3. CASE g = f
        <5>1. k \in KeysIn(b) /\ Under(f, k)
          BY <4>1, <4>3 DEF Remains
        <5>2. \/ k \in ObjectsAt(b, f)
              \/ \E h \in FoldersAt(b, f) : Under(h, k)
              \/ f \o <<"">> \in KeysIn(b)
          BY <2>4, <5>1, ListingMissesNothing
        <5> QED BY <2>6, <2>8, <2>9, <3>1, <5>1, <5>2
      <4> QED BY <4>2, <4>3
    <3> QED BY <3>1
  <2>16. Walks(r)'
    <3> HIDE DEF out1, fs1, fs, f, b, shown
    <3>1. \A i \in 1 .. Len(fs1) : Within(r, fs1[i])
      BY <2>13 DEF Occurs
    <3>2. \A k \in Remains(r) : k \in out1 \/ \E i \in 1 .. Len(fs1) : Under(fs1[i], k)
      BY <2>15 DEF Occurs
    <3>3. /\ Covered(r)' = Covered(r) /\ Remains(r)' = Remains(r)
          /\ \A g : Within(r, g)' <=> Within(r, g)
      BY <1>0, <2>2, SelectionKept
    <3> QED BY <2>2, <2>14, <3>1, <3>2, <3>3 DEF Walks, Pending
  <2>17. Deletes(r)' /\ Archives(r)'
    <3> HIDE DEF out1, fs1
    <3> QED BY <1>0, <2>2 DEF Deletes, Archives, ReqOK, Reads
  <2> QED BY <1>0, <2>1, <2>3, <2>16, <2>17 DEF ReqMoved, ReqOK
<1>3. \/ ReqGoes(r, [req[r] EXCEPT !.out = @ \cup ObjectsAt(b, f), !.folders = fs1])
      \/ ReqEnds(r, "failed")
  BY DEF Walk, Listed
<1> QED BY <1>1, <1>2, <1>3

LEMMA DeleteOneMoves ==
  ASSUME IInv, NEW r \in Request, DeleteOne(r)
  PROVE  ReqMoved(r)
<1>0. /\ TypeOK /\ ReqOK(r) /\ req[r] \in Requests /\ req[r].step = "act"
      /\ req[r].kind = "delete" /\ UNCHANGED <<job, disk>>
  BY DEF IInv, TypeOK, DeleteOne
<1>1. CASE ReqEnds(r, "failed") /\ Reads
  BY <1>0, <1>1, ReqFailsMoves
<1>2. ASSUME NEW k \in req[r].todo, RemoveObject(r, req[r].bucket, k),
             ReqGoes(r, [req[r] EXCEPT !.todo = @ \ {k}])
      PROVE  ReqMoved(r)
  <2>1. /\ req'[r] = [req[r] EXCEPT !.todo = @ \ {k}]
        /\ \A i \in Request : i # r => req'[i] = req[i]
    BY <1>0, <1>2, ReqGoesMeans
  <2>2. /\ req'[r].step = "act" /\ SameSelection(r) /\ req'[r].out = req[r].out
        /\ req'[r].todo = req[r].todo \ {k}
    BY <1>0, <2>1 DEF Requests, SameSelection
  <2>3. PICK b \in Bucket : b = req[r].bucket
    BY <1>0 DEF Requests
  <2>4. k \in Key
    BY <1>0 DEF Requests
  <2>5. StoreStep(r)
    BY <1>0, <1>2, <2>3, <2>4, CallsStoreStep
  <2>6. since'[r] = since[r] /\ (r \in calm' => r \in calm)
    BY <1>2 DEF RemoveObject, Change
  <2>7. KeysIn(b)' \subseteq KeysIn(b) \ {k}
    <3>1. /\ Exists(b) /\ store[b] \in [Key -> Content \cup {None}]
          /\ store'[b] = [store[b] EXCEPT ![k] = None]
      BY <1>0, <1>2, <2>3 DEF RemoveObject, Change, Exists, TypeOK
    <3> QED BY <2>4, <3>1 DEF KeysIn
  <2>8. Covered(r)' = Covered(r)
    BY <2>2 DEF Covered, SameSelection
  <2>9. Remains(r)' \subseteq Remains(r)
    BY <2>2, <2>3, <2>6, <2>7, <2>8 DEF Remains, SameSelection
  <2>10. Walks(r)'
    BY <1>0, <2>2, <2>8, <2>9 DEF Walks, ReqOK
  <2>11. Deletes(r)'
    BY <1>0, <2>2, <2>3, <2>6, <2>7 DEF Deletes, ReqOK, SameSelection
  <2>12. Archives(r)'
    BY <1>0, <2>2, <2>6 DEF Archives, ReqOK, SameSelection
  <2> QED BY <1>0, <2>1, <2>5, <2>10, <2>11, <2>12 DEF ReqMoved, ReqOK
<1> QED BY <1>1, <1>2 DEF DeleteOne

LEMMA ArchiveOneMoves ==
  ASSUME IInv, NEW r \in Request, ArchiveOne(r)
  PROVE  ReqMoved(r)
<1>0. /\ TypeOK /\ ReqOK(r) /\ req[r] \in Requests /\ req[r].step = "act"
      /\ req[r].kind = "archive" /\ UNCHANGED <<job, disk>> /\ Reads
  BY DEF IInv, TypeOK, ArchiveOne
<1>1. CASE Closed(r, "failed")
  BY <1>0, <1>1, ReqFailsMoves
<1>2. ASSUME NEW k \in req[r].todo, k \in KeysIn(req[r].bucket),
             ReqGoes(r, [req[r] EXCEPT !.todo = @ \ {k}])
      PROVE  ReqMoved(r)
  <2>1. /\ req'[r] = [req[r] EXCEPT !.todo = @ \ {k}]
        /\ \A i \in Request : i # r => req'[i] = req[i]
    BY <1>0, <1>2, ReqGoesMeans
  <2>2. /\ req'[r].step = "act" /\ SameSelection(r) /\ req'[r].out = req[r].out
        /\ req'[r].todo = req[r].todo \ {k}
    BY <1>0, <2>1 DEF Requests, SameSelection
  <2>3. StoreStep(r)
    BY <1>0, KeptStoreStep DEF Reads
  <2>4. Walks(r)'
    BY <1>0, <2>2, SelectionKept DEF Walks, ReqOK
  <2>5. Deletes(r)'
    BY <1>0, <2>2 DEF Deletes, SameSelection
  <2>6. KeysIn(req[r].bucket)' = KeysIn(req[r].bucket)
    BY <1>0, <2>2, SelectionKept
  <2>7. Archives(r)'
    <3> SUFFICES ASSUME r \in calm PROVE Archives(r)'
      BY <1>0 DEF Archives, Reads
    <3>1. since[r] = {} /\ req[r].out \ req[r].todo \subseteq KeysIn(req[r].bucket)
      BY <1>0 DEF Archives, ReqOK
    <3>2. req[r].out \ (req[r].todo \ {k}) \subseteq KeysIn(req[r].bucket)
      BY <1>2, <3>1
    <3>3. /\ req'[r].bucket = req[r].bucket /\ since' = since
      BY <1>0, <2>2 DEF SameSelection, Reads
    <3> QED BY <2>2, <3>1, <3>2, <3>3, <2>6 DEF Archives
  <2> QED BY <1>0, <2>1, <2>3, <2>4, <2>5, <2>7 DEF ReqMoved, ReqOK
<1> QED BY <1>1, <1>2 DEF ArchiveOne

LEMMA AnswerMoves ==
  ASSUME IInv, NEW r \in Request, Answer(r)
  PROVE  ReqMoved(r)
<1>0. /\ TypeOK /\ ReqOK(r) /\ req[r].step = "act" /\ req[r].todo = {}
      /\ UNCHANGED <<job, disk>> /\ Reads
  BY DEF IInv, Answer
<1>1. /\ req'[r].step = "done" /\ SameSelection(r) /\ req'[r].out = req[r].out
      /\ req'[r].todo = {} /\ \A i \in Request : i # r => req'[i] = req[i]
  BY <1>0, ReqEndsMeans DEF Answer
<1>2. StoreStep(r)
  BY <1>0, KeptStoreStep DEF Reads
<1>3. Walks(r)'
  BY <1>0, <1>1, SelectionKept DEF Walks, ReqOK
<1>4. KeysIn(req[r].bucket)' = KeysIn(req[r].bucket)
  BY <1>0, <1>1, SelectionKept
<1>5. Deletes(r)' /\ Archives(r)'
  BY <1>0, <1>1, <1>4 DEF Deletes, Archives, ReqOK, SameSelection, Reads
<1> QED BY <1>0, <1>1, <1>2, <1>3, <1>5 DEF ReqMoved, ReqOK

LEMMA ReqIsCutMoves ==
  ASSUME IInv, NEW r \in Request, ReqIsCut(r)
  PROVE  ReqMoved(r)
<1>1. /\ req[r].step \in {"walk", "act"} /\ UNCHANGED <<job, disk>> /\ Reads
      /\ ReqEnds(r, "failed") \/ Closed(r, "failed")
  BY DEF ReqIsCut
<1> QED BY <1>1, ReqFailsMoves

LEMMA ReqStep ==
  ASSUME IInv, NEW r \in Request, ReqNext(r)
  PROVE  IInv'
<1>1. TypeOK'
  BY ReqTypeStep DEF IInv
<1>2. ReqMoved(r)
  BY BeginMoves, WalkMoves, WalkedMoves, DeleteOneMoves, ArchiveOneMoves, AnswerMoves,
     ReqIsCutMoves DEF ReqNext
<1> QED BY <1>1, <1>2, ReqMovedSuffices

\* Uploads and other clients end the calm of all, and change no job or request.
LEMMA ForeignStep ==
  ASSUME IInv, HandleUpload \/ OthersChange
  PROVE  IInv'
<1>1. TypeOK'
  BY ForeignTypeStep DEF IInv
<1>2. UNCHANGED <<disk, job, req>>
  BY DEF HandleUpload, OthersChange
<1>3. StoreStep(None)
  <2>1. PICK b \in Bucket :
          \/ \E k \in Key : RemoveObject(None, b, k) \/ \E c \in Content : Put(None, b, k, c)
          \/ MakeBucket(None, b) \/ RemoveBucket(None, b)
    BY DEF HandleUpload, OthersChange
  <2> QED BY <2>1, CallsStoreStep, BucketsStoreStep DEF IInv
<1>4. ASSUME NEW i \in Job PROVE JobOK(i)'
  <2>1. i # None
    BY NoneAssumption
  <2> QED BY <1>2, <1>3, <2>1, JobKept DEF IInv
<1>5. ASSUME NEW r \in Request PROVE ReqOK(r)'
  <2>1. r # None
    BY NoneAssumption
  <2> QED BY <1>2, <1>3, <2>1, ReqKept DEF IInv
<1> QED BY <1>1, <1>4, <1>5 DEF IInv

LEMMA UnchangedStep == IInv /\ UNCHANGED vars => IInv'
<1> SUFFICES ASSUME IInv, UNCHANGED vars PROVE IInv'
  OBVIOUS
<1>1. UNCHANGED <<store, disk, job, req, calm, since, writes>>
  BY DEF vars
<1>2. TypeOK'
  BY <1>1 DEF IInv, TypeOK
<1>3. StoreStep(None)
  BY <1>1, KeptStoreStep
<1>4. ASSUME NEW i \in Job PROVE JobOK(i)'
  <2>1. i # None
    BY NoneAssumption
  <2> QED BY <1>1, <1>3, <2>1, JobKept DEF IInv
<1>5. ASSUME NEW r \in Request PROVE ReqOK(r)'
  <2>1. r # None
    BY NoneAssumption
  <2> QED BY <1>1, <1>3, <2>1, ReqKept DEF IInv
<1> QED BY <1>2, <1>4, <1>5 DEF IInv

LEMMA IInvStep == IInv /\ [Next]_vars => IInv'
<1>1. CASE UNCHANGED vars
  BY <1>1, UnchangedStep
<1>2. CASE Next
  BY <1>2, JobStep, ReqStep, ForeignStep DEF Next, JobNext, ReqNext
<1> QED BY <1>1, <1>2

-----------------------------------------------------------------------------
(***************************************************************************)
(* What follows from the invariant.                                        *)
(***************************************************************************)
LEMMA BackedFollows == IInv => ManifestIsBacked
<1> SUFFICES ASSUME IInv, NEW j \in Job, disk[j].manifest # None
             PROVE  \A o \in disk[j].manifest.objects :
                      /\ o[1] \in disk[j].manifest.buckets
                      /\ \E c \in Content : Holds(disk[j].files, o[1], o[2], c)
  BY DEF ManifestIsBacked
<1>1. JobOK(j)
  BY DEF IInv
<1>2. /\ job[j].step = "success" /\ job[j].kind = "backup"
      /\ disk[j].manifest = job[j].manifest
  BY <1>1 DEF JobOK, Saved
<1> QED BY <1>1, <1>2 DEF JobOK, Collected

LEMMA FaithfulFollows == IInv => BackupIsFaithful
<1> SUFFICES ASSUME IInv, NEW j \in calm \cap Job, job[j].step = "success",
                    job[j].kind = "backup"
             PROVE  /\ disk[j].manifest.buckets = Selected(job[j].want)
                    /\ disk[j].manifest.objects =
                         UNION {{b} \X KeysIn(b) : b \in Selected(job[j].want)}
                    /\ \A b \in Selected(job[j].want) : \A k \in KeysIn(b) :
                         Holds(disk[j].files, b, k, store[b][k])
  BY DEF BackupIsFaithful
<1> DEFINE B == Selected(job[j].want)
           M == job[j].manifest
<1>1. JobOK(j) /\ M \in Manifests
  BY DEF IInv, TypeOK, Jobs
<1>2. disk[j].manifest = M /\ job[j].left = {} /\ job[j].todo = {}
  BY <1>1 DEF JobOK, Saved, Ends
<1>3. /\ M.buckets = B
      /\ \A b \in B : \A k \in KeysIn(b) : <<b, k>> \in M.objects
      /\ \A o \in M.objects : o[1] \in B /\ o[2] \in KeysIn(o[1])
      /\ \A o \in M.objects : Holds(disk[j].files, o[1], o[2], store[o[1]][o[2]])
  BY <1>1, <1>2 DEF JobOK, Mirrors, Collected
<1>4. \A o \in M.objects : o = <<o[1], o[2]>>
  BY <1>1 DEF Manifests, Objects
<1>5. M.objects = UNION {{b} \X KeysIn(b) : b \in B}
  <2> HIDE DEF B, M
  <2>1. ASSUME NEW o \in M.objects PROVE o \in UNION {{b} \X KeysIn(b) : b \in B}
    <3>1. o[1] \in B /\ o \in {o[1]} \X KeysIn(o[1])
      BY <1>3, <1>4
    <3> QED BY <3>1
  <2>2. ASSUME NEW b \in B, NEW o \in {b} \X KeysIn(b) PROVE o \in M.objects
    <3>1. o[1] = b /\ o[2] \in KeysIn(b) /\ o = <<o[1], o[2]>>
      OBVIOUS
    <3> QED BY <1>3, <3>1
  <2> QED BY <2>1, <2>2
<1>6. ASSUME NEW b \in B, NEW k \in KeysIn(b)
      PROVE  Holds(disk[j].files, b, k, store[b][k])
  <2>1. <<b, k>> \in M.objects
    BY <1>3
  <2> QED BY <1>3, <2>1
<1> QED BY <1>2, <1>3, <1>5, <1>6

LEMMA BringsBackFollows == IInv => RestoreBringsBack
<1> SUFFICES ASSUME IInv, NEW j \in calm \cap Job, job[j].step = "success",
                    job[j].kind = "apply"
             PROVE  /\ \A b \in Configured \cup job[j].manifest.buckets : Exists(b)
                    /\ \A o \in job[j].manifest.objects :
                         /\ o[2] \in KeysIn(o[1])
                         /\ Holds(disk[job[j].of].files, o[1], o[2], store[o[1]][o[2]])
  BY DEF RestoreBringsBack
<1>1. JobOK(j) /\ job[j].todo = {} /\ job[j].ask = {} /\ job[j].at = None
  BY DEF IInv, JobOK, Ends
<1>2. \A b \in Bucket : b # None
  BY NoneAssumption
<1>3. job[j].manifest.buckets \subseteq Bucket /\ Configured \subseteq Bucket
  BY BucketAssumption DEF IInv, TypeOK, Jobs, Manifests
<1> QED BY <1>1, <1>2, <1>3 DEF JobOK, Restored

LEMMA GoneFollows == IInv => DeletedAreGone
<1> SUFFICES ASSUME IInv, NEW r \in Request, req[r].step = "done", req[r].kind = "delete"
             PROVE  Covered(r) \cap KeysIn(req[r].bucket) \subseteq since[r]
  BY DEF DeletedAreGone
<1>1. ReqOK(r) /\ Remains(r) \subseteq req[r].out /\ req[r].todo = {}
  BY DEF IInv, ReqOK, Walks
<1>2. req[r].out \cap KeysIn(req[r].bucket) \subseteq since[r]
  BY <1>1 DEF ReqOK, Deletes
<1> QED BY <1>1, <1>2 DEF Remains

LEMMA WholeFollows == IInv => ArchiveIsWhole
<1> SUFFICES ASSUME IInv, NEW r \in calm \cap Request, req[r].step = "done",
                    req[r].kind = "archive"
             PROVE  req[r].out = Covered(r) \cap KeysIn(req[r].bucket)
  BY DEF ArchiveIsWhole
<1>1. ReqOK(r) /\ Remains(r) \subseteq req[r].out /\ req[r].todo = {}
      /\ req[r].out \subseteq Covered(r)
  BY DEF IInv, ReqOK, Walks
<1>2. since[r] = {} /\ req[r].out \subseteq KeysIn(req[r].bucket)
  BY <1>1 DEF ReqOK, Archives
<1> QED BY <1>1, <1>2 DEF Remains

\* Of all steps of requests only the deletion of an object takes one from the store.
LEMMA OnlySelectedStep ==
  ASSUME IInv, [Next]_vars, NEW r \in Request, req'[r] # req[r],
         NEW b \in Bucket, NEW k \in KeysIn(b) \ KeysIn(b)'
  PROVE  b = req[r].bucket /\ k \in Covered(r) /\ req[r].kind = "delete"
<1>1. ReqNext(r)
  <2>1. CASE UNCHANGED vars \/ (\E j \in Job : JobNext(j)) \/ HandleUpload \/ OthersChange
    <3>1. req' = req
      BY <2>1 DEF vars, JobNext, StartBackup, ListBuckets, ListObjects, Download, WriteManifest,
                  StartApply, AskForBucket, MakeMissing, Upload, Applied, JobIsCut, HandleUpload,
                  OthersChange
    <3> QED BY <3>1
  <2>2. ASSUME NEW i \in Request, ReqNext(i) PROVE i = r
    <3>1. \A l \in Request : l # i => req'[l] = req[l]
      BY <2>2, BeginMoves, WalkMoves, WalkedMoves, DeleteOneMoves, ArchiveOneMoves, AnswerMoves,
         ReqIsCutMoves DEF ReqNext, ReqMoved
    <3> QED BY <3>1
  <2> QED BY <2>1, <2>2 DEF Next, JobNext, ReqNext
<1>2. store' # store
  BY DEF KeysIn, Exists
<1>3. DeleteOne(r) /\ ~Reads
  BY <1>1, <1>2 DEF ReqNext, Begin, Walk, Walked, DeleteOne, ArchiveOne, Answer, ReqIsCut, Reads
<1>4. PICK l \in req[r].todo : RemoveObject(r, req[r].bucket, l)
  BY <1>3 DEF DeleteOne
<1>5. /\ req[r].step = "act" /\ req[r].kind = "delete" /\ TypeOK
      /\ req[r].todo \subseteq Covered(r)
  BY <1>3 DEF DeleteOne, IInv, ReqOK, Walks
<1>6. /\ \A a \in Bucket : a # req[r].bucket => store'[a] = store[a]
      /\ store'[req[r].bucket] = [store[req[r].bucket] EXCEPT ![l] = None]
      /\ Exists(req[r].bucket) /\ req[r].bucket \in Bucket
  BY <1>4, <1>5 DEF RemoveObject, Change, TypeOK, Requests
<1>7. b = req[r].bucket
  BY <1>6 DEF KeysIn, Exists
<1>8. k = l
  <2> SUFFICES ASSUME k # l PROVE FALSE
    OBVIOUS
  <2>1. store[b] \in [Key -> Content \cup {None}]
    BY <1>5, <1>6, <1>7 DEF TypeOK, Exists
  <2>2. k \in Key /\ store[b][k] # None
    BY DEF KeysIn
  <2>3. store'[b][k] = store[b][k] /\ k \in DOMAIN store'[b]
    BY <1>6, <1>7, <2>1, <2>2
  <2>4. DOMAIN Gone = {}
    BY DEF Gone
  <2>5. Exists(b)'
    BY <2>3, <2>4 DEF Exists
  <2> QED BY <2>2, <2>3, <2>5 DEF KeysIn
<1> QED BY <1>5, <1>7, <1>8

-----------------------------------------------------------------------------
(***************************************************************************)
(* The theorems about objects.                                             *)
(***************************************************************************)

\* What the steps of backups, applies and requests keep between them.
THEOREM ObjectInvariant == Spec => []IInv
BY IInvInit, IInvStep, PTL DEF Spec

\* Every variable keeps its type.
THEOREM ObjectTypeCorrect == Spec => []TypeOK
<1>1. IInv => TypeOK
  BY DEF IInv
<1> QED BY <1>1, ObjectInvariant, PTL

\* Every object of a manifest has its file, whoever writes to the store meanwhile.
THEOREM ManifestsAreBacked == Spec => []ManifestIsBacked
BY BackedFollows, ObjectInvariant, PTL

\* A backup beside which nobody writes mirrors the buckets that it was asked for.
THEOREM BackupsAreFaithful == Spec => []BackupIsFaithful
BY FaithfulFollows, ObjectInvariant, PTL

\* An apply beside which nobody writes brings back what its snapshot holds.
THEOREM RestoresBringBack == Spec => []RestoreBringsBack
BY BringsBackFollows, ObjectInvariant, PTL

\* A delete that succeeds leaves nothing of the selection that was there before it.
THEOREM DeletesAreComplete == Spec => []DeletedAreGone
BY GoneFollows, ObjectInvariant, PTL

\* A whole archive beside which nobody writes holds the selection and nothing else.
THEOREM ArchivesAreWhole == Spec => []ArchiveIsWhole
BY WholeFollows, ObjectInvariant, PTL

\* No request takes an object from the store that is not in its selection.
THEOREM OnlySelectedAreGone == Spec => OnlySelectedGo
<1> DEFINE P == \A r \in Request : req'[r] # req[r] =>
                  \A b \in Bucket : \A k \in KeysIn(b) \ KeysIn(b)' :
                    b = req[r].bucket /\ k \in Covered(r) /\ req[r].kind = "delete"
<1>1. IInv /\ [Next]_vars => P
  BY OnlySelectedStep
<1>2. Spec => [][P]_vars
  <2> HIDE DEF P
  <2> QED BY <1>1, ObjectInvariant, PTL DEF Spec
<1> QED BY <1>2 DEF OnlySelectedGo

-----------------------------------------------------------------------------
(***************************************************************************)
(* What a script makes of a database, statement by statement.              *)
(***************************************************************************)

\* The databases that parts of a script make of one, by the set of their statements.
IsReplay(f, before, sql, D) ==
  f = [s \in SUBSET D |-> IF s = {} THEN before ELSE Result(f[s \ {Max(s)}], sql[Max(s)])]
Replays(before, sql) == CHOOSE f : IsReplay(f, before, sql, DOMAIN sql)

\* The database that the first n statements make.
After(before, sql, n) == Replays(before, sql)[1 .. n]

LEMMA FoldIsReplayed ==
  ASSUME NEW before, NEW sql
  PROVE  FoldLeft(Result, before, sql) = Replays(before, sql)[DOMAIN sql]
BY DEF FoldLeft, MapThenFoldSet, Replays, IsReplay

\* (Induction, in the form that the provers can use.)
LEMMA LeastIsIn ==
  ASSUME NEW S, S \subseteq Nat, S # {}
  PROVE  \E n \in S : \A m \in S : n <= m
<1> DEFINE R == OpToRel(<, Nat)
<1>1. IsWellFoundedOn(R, Nat)
  BY NatLessThanWellFounded
<1>2. R = {ss \in Nat \X Nat : ss[1] < ss[2]}
  BY DEF OpToRel
<1> HIDE DEF R
<1>3. \E x \in S : \A y \in S : ~ (<<y, x>> \in R)
  BY <1>1, WFMin
<1>4. PICK x \in S : \A y \in S : ~ (<<y, x>> \in R)
  BY <1>3
<1>5. ASSUME NEW y \in S PROVE x <= y
  <2>1. <<y, x>> \in Nat \X Nat /\ <<y, x>>[1] = y /\ <<y, x>>[2] = x /\ x \in Nat /\ y \in Nat
    OBVIOUS
  <2>2. ~(y < x)
    BY <1>2, <1>4, <2>1
  <2> QED BY <2>1, <2>2
<1> QED BY <1>5

LEMMA LastIsMax ==
  ASSUME NEW n \in Nat, NEW s, s \subseteq 1 .. n, n \in s
  PROVE  Max(s) = n /\ s \ {n} \subseteq 1 .. (n - 1)
<1>1. \A y \in s : n >= y
  OBVIOUS
<1>2. \A x \in s : (\A y \in s : x >= y) => x = n
  OBVIOUS
<1>3. Max(s) = n
  BY <1>1, <1>2 DEF Max
<1> QED BY <1>3

\* A script can be replayed: the recursion of the fold defines a function.
LEMMA ReplayExists ==
  ASSUME NEW before, NEW sql, NEW n \in Nat
  PROVE  \E f : IsReplay(f, before, sql, 1 .. n)
<1> DEFINE Good(k) == \E f : IsReplay(f, before, sql, 1 .. k)
           Bad == {k \in Nat : ~Good(k)}
<1>1. Good(0)
  <2> DEFINE f == [s \in SUBSET (1 .. 0) |-> before]
  <2>1. \A s \in SUBSET (1 .. 0) : s = {}
    OBVIOUS
  <2>2. IsReplay(f, before, sql, 1 .. 0)
    BY <2>1 DEF IsReplay
  <2> QED BY <2>2
<1>2. ASSUME NEW k \in Nat, Good(k) PROVE Good(k + 1)
  <2> DEFINE m == k + 1
  <2>1. PICK f : IsReplay(f, before, sql, 1 .. k)
    BY <1>2
  <2> DEFINE g == [s \in SUBSET (1 .. m) |->
                     IF m \in s THEN Result(f[s \ {m}], sql[m]) ELSE f[s]]
  <2>2. ASSUME NEW s \in SUBSET (1 .. m)
        PROVE  g[s] = IF s = {} THEN before ELSE Result(g[s \ {Max(s)}], sql[Max(s)])
    <3>1. CASE m \in s
      <4>m. m \in Nat
        OBVIOUS
      <4>1. Max(s) = m
        <5> HIDE DEF m
        <5> QED BY <2>2, <3>1, <4>m, LastIsMax
      <4>2. s \ {m} \in SUBSET (1 .. m) /\ m \notin s \ {m} /\ s # {}
        BY <3>1
      <4>3. g[s \ {m}] = f[s \ {m}]
        BY <4>2
      <4>4. g[s] = Result(f[s \ {m}], sql[m])
        BY <3>1
      <4> HIDE DEF g, m
      <4> QED BY <4>1, <4>2, <4>3, <4>4
    <3>2. CASE m \notin s
      <4>1. s \in SUBSET (1 .. k)
        BY <3>2
      <4>2. f[s] = IF s = {} THEN before ELSE Result(f[s \ {Max(s)}], sql[Max(s)])
        BY <2>1, <4>1 DEF IsReplay
      <4>3. s \ {Max(s)} \in SUBSET (1 .. m) /\ m \notin s \ {Max(s)}
        BY <3>2
      <4>4. g[s] = f[s] /\ g[s \ {Max(s)}] = f[s \ {Max(s)}]
        BY <3>2, <4>3
      <4> HIDE DEF g, m
      <4> QED BY <4>2, <4>4
    <3> QED BY <3>1, <3>2
  <2>3. g = [s \in SUBSET (1 .. m) |-> g[s]]
    OBVIOUS
  <2> HIDE DEF g
  <2>4. IsReplay(g, before, sql, 1 .. m)
    BY <2>2, <2>3 DEF IsReplay
  <2> QED BY <2>4
<1>3. Bad = {}
  <2> SUFFICES ASSUME Bad # {} PROVE FALSE
    OBVIOUS
  <2>1. PICK k \in Bad : \A j \in Bad : k <= j
    BY LeastIsIn
  <2> HIDE DEF Good
  <2>2. k \in Nat /\ ~Good(k)
    BY <2>1
  <2>3. k # 0
    BY <1>1, <2>2
  <2>4. k - 1 \in Nat /\ (k - 1) + 1 = k /\ ~(k <= k - 1)
    BY <2>2, <2>3
  <2>5. Good(k - 1)
    BY <2>1, <2>4
  <2> QED BY <1>2, <2>2, <2>4, <2>5
<1> QED BY <1>3

LEMMA AfterSteps ==
  ASSUME NEW before, NEW sql, NEW n \in Nat, DOMAIN sql = 1 .. n
  PROVE  /\ After(before, sql, 0) = before
         /\ \A i \in 1 .. n : After(before, sql, i) = Result(After(before, sql, i - 1), sql[i])
         /\ FoldLeft(Result, before, sql) = After(before, sql, n)
<1> DEFINE f == Replays(before, sql)
<1>1. IsReplay(f, before, sql, 1 .. n)
  BY ReplayExists DEF Replays
<1> HIDE DEF f
<1>2. \A s \in SUBSET (1 .. n) :
        f[s] = IF s = {} THEN before ELSE Result(f[s \ {Max(s)}], sql[Max(s)])
  BY <1>1 DEF IsReplay
<1>3. 1 .. 0 = {}
  OBVIOUS
<1>4. f[1 .. 0] = before
  BY <1>2, <1>3
<1>5. ASSUME NEW i \in 1 .. n PROVE f[1 .. i] = Result(f[1 .. (i - 1)], sql[i])
  <2>1. 1 .. i \in SUBSET (1 .. n) /\ i \in 1 .. i /\ i \in Nat /\ 1 .. i # {}
    OBVIOUS
  <2>2. Max(1 .. i) = i
    BY <2>1, LastIsMax
  <2>3. (1 .. i) \ {i} = 1 .. (i - 1)
    BY <2>1
  <2> QED BY <1>2, <2>1, <2>2, <2>3
<1>6. FoldLeft(Result, before, sql) = f[1 .. n]
  BY FoldIsReplayed DEF f
<1> QED BY <1>4, <1>5, <1>6 DEF After, f

-----------------------------------------------------------------------------
(***************************************************************************)
(* Types.                                                                  *)
(***************************************************************************)
Row == [id : 1 .. MaxId, ref : 0 .. MaxId]

Constraint == {UniqueKey(t) : t \in Tables} \cup {ForeignKey(t, u) : t, u \in Tables}

Database ==
  [tables : SUBSET Tables, rows : [Tables -> SUBSET Row], constraints : SUBSET Constraint,
   indexes : SUBSET Tables, sequence : (0 .. MaxId) \cup {Missing}]

Statement ==
  [op : {"sequence"}]
    \cup [op : {"table", "index"}, table : Tables]
    \cup [op : {"copy", "torn"}, table : Tables, rows : SUBSET Row]
    \cup [op : {"constraint"}, constraint : Constraint]
    \cup [op : {"setval"}, value : 0 .. MaxId]

Passes == {"ddl", "data", "keys", "others", "indexes"}

ApplySteps ==
  {"idle", "create", "begin", "replay", "stopped", "success", "refused", "lost"}

PgTypeOK ==
  /\ origin \in Database /\ origin.sequence \in 0 .. MaxId
  /\ dump \in [step : Passes \cup {"idle", "tables", "values", "done", "cut", "failed"},
               last : 0 .. MaxId, list : SUBSET Tables, left : SUBSET Tables]
  /\ script \in Seq(Statement)
  /\ target \in Database \cup {Missing}
  /\ apply \in [step : ApplySteps, at : Nat, before : Database \cup {Missing},
                txn : Database \cup {Missing}, cut : BOOLEAN]

\* What the origin's own constraints say of it.
Consistent(db) ==
  /\ \A t \in Tables \ db.tables : db.rows[t] = {}
  /\ db.indexes \subseteq db.tables
  /\ \A c \in db.constraints :
       /\ c.on \in db.tables /\ c.to \in db.tables
       /\ c.type = "f" => IsUnique(db, c.to) /\ Resolves(db, c.on, c.to)

-----------------------------------------------------------------------------
(***************************************************************************)
(* The script of a database nobody writes to: what is in it, in which      *)
(* order, and how far it is.                                               *)
(***************************************************************************)

TableOf(t) == [op |-> "table", table |-> t]
CopyOf(db, t) == [op |-> "copy", table |-> t, rows |-> db.rows[t]]
ConstraintOf(c) == [op |-> "constraint", constraint |-> c]
IndexOf(t) == [op |-> "index", table |-> t]
ValueOf(db) == [op |-> "setval", value |-> db.sequence]

\* One of the first n statements is s.
Says(sql, n, s) == \E i \in 1 .. n : sql[i] = s

\* A statement is of the database, and what it needs is before it.
IsOf(db, s) ==
  \/ s.op \in {"sequence", "torn"}
  \/ \E t \in db.tables : s = TableOf(t) \/ s = CopyOf(db, t)
  \/ \E c \in db.constraints : s = ConstraintOf(c)
  \/ \E t \in db.indexes : s = IndexOf(t)
  \/ s = ValueOf(db)

IsInOrder(db, sql, j) ==
  /\ sql[j].op = "sequence" <=> j = 1
  /\ sql[j].op = "table" => ~Says(sql, j - 1, sql[j])
  /\ sql[j].op \notin {"sequence", "table"} => \A t \in db.tables : Says(sql, j - 1, TableOf(t))
  /\ sql[j].op \in {"constraint", "index", "setval"}
       => \A t \in db.tables : Says(sql, j - 1, CopyOf(db, t))
  /\ sql[j].op = "constraint" =>
       (sql[j].constraint.type = "f" =>
          \A c \in db.constraints : c.type = "p" => Says(sql, j - 1, ConstraintOf(c)))

IsScriptOf(db, sql) ==
  \A j \in 1 .. Len(sql) : IsOf(db, sql[j]) /\ IsInOrder(db, sql, j)

\* The turn of table t in a pass is over.
Later ==
  [ddl |-> {"data", "keys", "others", "indexes", "values", "done"},
   data |-> {"keys", "others", "indexes", "values", "done"},
   keys |-> {"others", "indexes", "values", "done"},
   others |-> {"indexes", "values", "done"},
   indexes |-> {"values", "done"}]
TurnIsOver(d, pass, t) == d.step \in Later[pass] \/ (d.step = pass /\ t \notin d.left)

\* The statements that are due when it is.
Due(db, pass, t) ==
  CASE pass = "ddl" -> {TableOf(t)}
    [] pass = "data" -> {CopyOf(db, t)}
    [] pass = "keys" ->
         {ConstraintOf(c) : c \in {x \in db.constraints : x.on = t /\ x.type = "p"}}
    [] pass = "others" ->
         {ConstraintOf(c) : c \in {x \in db.constraints : x.on = t /\ x.type = "f"}}
    [] pass = "indexes" -> IF t \in db.indexes /\ ~BacksConstraint(db, t) THEN {IndexOf(t)} ELSE {}

IsSoFar(db, d, sql) ==
  /\ d.last = db.sequence
  /\ d.step \in Passes => d.list = db.tables /\ d.left \subseteq db.tables
  /\ d.step \in Passes \cup {"values", "done"} => Len(sql) >= 1
  /\ d.step # "cut" => \A j \in 1 .. Len(sql) : sql[j].op # "torn"
  /\ \A pass \in Passes, t \in db.tables :
       TurnIsOver(d, pass, t) => \A s \in Due(db, pass, t) : Says(sql, Len(sql), s)
  /\ d.step = "ddl" => \A t \in d.left : ~Says(sql, Len(sql), TableOf(t))
  /\ d.step = "done" /\ db.sequence # 0 => Says(sql, Len(sql), ValueOf(db))

DumpInv ==
  /\ Consistent(origin)
  /\ dump.step \in {"idle", "tables"} => script = <<>>
  /\ asDumped # Missing =>
       /\ asDumped = origin /\ dump.step # "idle"
       /\ IsScriptOf(origin, script) /\ IsSoFar(origin, dump, script)

-----------------------------------------------------------------------------
(***************************************************************************)
(* The apply.                                                              *)
(***************************************************************************)

\* Nothing but the value of a sequence outlives a transaction.
Undone(db, before) ==
  \/ db = before
  \/ /\ Missing \notin {before.sequence, db.sequence}
     /\ [db EXCEPT !.sequence = before.sequence] = before

\* What the first n statements of a script have made of an empty database.
HasMade(db, sql, n, of) ==
  /\ db.tables = {t \in Tables : Says(sql, n, TableOf(t))}
  /\ \A t \in Tables : /\ db.rows[t] \in {{}, of.rows[t]}
                       /\ Says(sql, n, CopyOf(of, t)) => db.rows[t] = of.rows[t]
  /\ db.constraints = {c \in Constraint : Says(sql, n, ConstraintOf(c))}
  /\ db.indexes = {t \in Tables : Says(sql, n, IndexOf(t))}
  /\ db.sequence = IF n = 0 THEN Missing
                   ELSE IF Says(sql, n, ValueOf(of)) THEN of.sequence ELSE 0

ApplyInv ==
  /\ apply.step # "idle" => dump.step \in {"done", "cut"}
  /\ apply.step \in {"idle", "create", "begin"} => apply.before = Missing /\ apply.at = 1
  /\ apply.step = "begin" => target \in Database
  /\ apply.step = "stopped" => apply.cut
  /\ apply.step \in {"replay", "stopped"} =>
       /\ {target, apply.before, apply.txn} \subseteq Database
       /\ apply.at \in 1 .. (Len(script) + 1)
       /\ Undone(target, apply.before)
       /\ apply.txn = After(apply.before, script, apply.at - 1)
       /\ Reloads => HasMade(apply.txn, script, apply.at - 1, asDumped)
  /\ apply.step \in {"success", "refused", "lost"} => AllOrNothing /\ QuietDumpReloads

PgInv == PgTypeOK /\ DumpInv /\ ApplyInv


-----------------------------------------------------------------------------
(***************************************************************************)
(* Statements and what they make.                                          *)
(***************************************************************************)

LEMMA ConstraintsFinite == IsFiniteSet(Constraint)
<1> DEFINE g == [t \in Tables |-> UniqueKey(t)]
           f == [p \in Tables \X Tables |-> ForeignKey(p[1], p[2])]
<1>1. IsFiniteSet({g[t] : t \in Tables})
  BY TablesAssumption, FiniteImage
<1>2. IsFiniteSet(Tables \X Tables)
  BY TablesAssumption, FS_Product
<1>3. IsFiniteSet({f[p] : p \in Tables \X Tables})
  <2>1. DOMAIN f = Tables \X Tables
    OBVIOUS
  <2> HIDE DEF f
  <2> QED BY <1>2, <2>1, FiniteImage
<1>4. Constraint \subseteq {g[t] : t \in Tables} \cup {f[p] : p \in Tables \X Tables}
  <2>1. ASSUME NEW c \in Constraint, ~\E t \in Tables : c = UniqueKey(t)
        PROVE  c \in {f[p] : p \in Tables \X Tables}
    <3>1. PICK t \in Tables, u \in Tables : c = ForeignKey(t, u)
      BY <2>1 DEF Constraint
    <3>2. <<t, u>> \in Tables \X Tables /\ f[<<t, u>>] = c
      BY <3>1
    <3> HIDE DEF f
    <3> QED BY <3>2
  <2>2. \A t \in Tables : UniqueKey(t) \in {g[x] : x \in Tables}
    OBVIOUS
  <2> HIDE DEF f, g
  <2> QED BY <2>1, <2>2
<1>5. IsFiniteSet({g[t] : t \in Tables} \cup {f[p] : p \in Tables \X Tables})
  BY <1>1, <1>3, FS_Union
<1> HIDE DEF f, g
<1> QED BY <1>4, <1>5, FS_Subset

LEMMA ConstraintType ==
  ASSUME NEW c \in Constraint
  PROVE  c.type \in {"p", "f"} /\ c.on \in Tables /\ c.to \in Tables
         /\ (c.type = "p" => c = UniqueKey(c.on))
BY DEF Constraint, UniqueKey, ForeignKey

LEMMA StatementType ==
  ASSUME NEW s \in Statement
  PROVE  /\ s.op \in {"sequence", "table", "index", "copy", "torn", "constraint", "setval"}
         /\ s.op \in {"table", "index", "copy", "torn"} => s.table \in Tables
         /\ s.op \in {"copy", "torn"} => s.rows \in SUBSET Row
         /\ s.op = "constraint" => s.constraint \in Constraint
         /\ s.op = "setval" => s.value \in 0 .. MaxId
BY DEF Statement

LEMMA StatementsAre ==
  ASSUME NEW s \in Statement, NEW db
  PROVE  /\ \A t : s = TableOf(t) <=> s.op = "table" /\ s.table = t
         /\ \A t : s = CopyOf(db, t) <=> s.op = "copy" /\ s.table = t /\ s.rows = db.rows[t]
         /\ \A c : s = ConstraintOf(c) <=> s.op = "constraint" /\ s.constraint = c
         /\ \A t : s = IndexOf(t) <=> s.op = "index" /\ s.table = t
         /\ s = ValueOf(db) <=> s.op = "setval" /\ s.value = db.sequence
<1>1. CASE s.op = "sequence"
  BY <1>1 DEF Statement, TableOf, CopyOf, ConstraintOf, IndexOf, ValueOf
<1>2. CASE s.op \in {"table", "index"}
  <2>1. s = [op |-> s.op, table |-> s.table]
    BY <1>2 DEF Statement
  <2> QED BY <1>2, <2>1 DEF TableOf, CopyOf, ConstraintOf, IndexOf, ValueOf
<1>3. CASE s.op \in {"copy", "torn"}
  <2>1. s = [op |-> s.op, table |-> s.table, rows |-> s.rows]
    BY <1>3 DEF Statement
  <2> QED BY <1>3, <2>1 DEF TableOf, CopyOf, ConstraintOf, IndexOf, ValueOf
<1>4. CASE s.op = "constraint"
  <2>1. s = [op |-> s.op, constraint |-> s.constraint]
    BY <1>4 DEF Statement
  <2> QED BY <1>4, <2>1 DEF TableOf, CopyOf, ConstraintOf, IndexOf, ValueOf
<1>5. CASE s.op = "setval"
  <2>1. s = [op |-> s.op, value |-> s.value]
    BY <1>5 DEF Statement
  <2> QED BY <1>5, <2>1 DEF TableOf, CopyOf, ConstraintOf, IndexOf, ValueOf
<1> QED BY <1>1, <1>2, <1>3, <1>4, <1>5, StatementType

LEMMA ResultIs ==
  ASSUME NEW db \in Database, NEW s \in Statement
  PROVE  LET r == Result(db, s) IN
         /\ r \in Database
         /\ r.tables = IF s.op = "table" THEN db.tables \cup {s.table} ELSE db.tables
         /\ \A t \in Tables :
              r.rows[t] = IF s.op \in {"copy", "torn"} /\ t = s.table
                          THEN db.rows[t] \cup s.rows ELSE db.rows[t]
         /\ r.constraints = IF s.op = "constraint" THEN db.constraints \cup {s.constraint}
                            ELSE db.constraints
         /\ r.indexes = IF s.op = "index" THEN db.indexes \cup {s.table} ELSE db.indexes
         /\ r.sequence = IF s.op = "setval" THEN s.value
                         ELSE IF s.op = "sequence" /\ db.sequence = Missing THEN 0
                         ELSE db.sequence
<1>b. 0 \in 0 .. MaxId
  BY PgBoundAssumption
<1>1. CASE s.op = "sequence"
  BY <1>1, <1>b DEF Result, Database
<1>2. CASE s.op = "table"
  BY <1>2, StatementType DEF Result, Database
<1>3. CASE s.op \in {"copy", "torn"}
  BY <1>3, StatementType DEF Result, Database
<1>4. CASE s.op = "constraint"
  BY <1>4, StatementType DEF Result, Database
<1>5. CASE s.op = "index"
  BY <1>5, StatementType DEF Result, Database
<1>6. CASE s.op = "setval"
  BY <1>6, StatementType DEF Result, Database
<1> QED BY <1>1, <1>2, <1>3, <1>4, <1>5, <1>6, StatementType

\* Two databases are the same when their parts are.
LEMMA SameDatabase ==
  ASSUME NEW d \in Database, NEW e \in Database,
         d.tables = e.tables, \A t \in Tables : d.rows[t] = e.rows[t],
         d.constraints = e.constraints, d.indexes = e.indexes, d.sequence = e.sequence
  PROVE  d = e
<1>1. d.rows = e.rows
  BY DEF Database
<1> QED BY <1>1 DEF Database

LEMMA EmptyIs ==
  /\ EmptyDatabase \in Database
  /\ EmptyDatabase.tables = {} /\ \A t \in Tables : EmptyDatabase.rows[t] = {}
  /\ EmptyDatabase.constraints = {} /\ EmptyDatabase.indexes = {}
  /\ EmptyDatabase.sequence = Missing
BY DEF EmptyDatabase, Database

LEMMA TargetsAre == \A db \in Targets : db = Missing \/ db \in Database
<1>1. 1 \in 0 .. MaxId
  BY PgBoundAssumption
<1> QED BY <1>1, EmptyIs DEF Targets, Database

LEMMA DesignsAre ==
  ASSUME NEW db \in Designs
  PROVE  db \in Database /\ db.sequence \in 0 .. MaxId /\ Consistent(db)
<1>1. /\ \E keyed, indexes \in SUBSET Tables, refs \in SUBSET {ForeignKey(t, u) : t, u \in Tables} :
           db = Designed(keyed, indexes, refs)
      /\ \A c \in db.constraints : c.type = "f" => IsUnique(db, c.to)
  BY DEF Designs
<1>2. PICK keyed \in SUBSET Tables, indexes \in SUBSET Tables,
           refs \in SUBSET {ForeignKey(t, u) : t, u \in Tables} :
        db = Designed(keyed, indexes, refs)
  BY <1>1
<1> DEFINE constraints == {UniqueKey(t) : t \in keyed} \cup refs
<1>c. constraints \subseteq Constraint
  BY DEF Constraint
<1>d. db = [tables |-> Tables, rows |-> [t \in Tables |-> {}], constraints |-> constraints,
            indexes |-> indexes, sequence |-> 0]
  BY <1>2 DEF Designed
<1> HIDE DEF constraints
<1>3. /\ db.tables = Tables /\ \A t \in Tables : db.rows[t] = {}
      /\ db.constraints = constraints /\ db.indexes = indexes /\ db.sequence = 0
  BY <1>d
<1>4. 0 \in 0 .. MaxId
  BY PgBoundAssumption
<1>5. db \in Database
  BY <1>c, <1>d, <1>4 DEF Database
<1>8. \A t, u \in Tables : Resolves(db, t, u)
  BY <1>3 DEF Resolves
<1>9. ASSUME NEW c \in db.constraints
      PROVE  /\ c.on \in db.tables /\ c.to \in db.tables
             /\ c.type = "f" => IsUnique(db, c.to) /\ Resolves(db, c.on, c.to)
  BY <1>1, <1>c, <1>3, <1>8, ConstraintType
<1>10. (\A t \in Tables \ db.tables : db.rows[t] = {}) /\ db.indexes \subseteq db.tables
  BY <1>3
<1>11. Consistent(db)
  BY <1>9, <1>10 DEF Consistent
<1> QED BY <1>3, <1>4, <1>5, <1>11


-----------------------------------------------------------------------------
(***************************************************************************)
(* A script grows.                                                         *)
(***************************************************************************)

LEMMA Appended ==
  ASSUME NEW sql \in Seq(Statement), NEW add \in Seq(Statement)
  PROVE  LET new == sql \o add IN
         /\ new \in Seq(Statement) /\ Len(new) = Len(sql) + Len(add)
         /\ \A i \in 1 .. Len(sql) : new[i] = sql[i]
         /\ \A i \in 1 .. Len(add) : new[Len(sql) + i] = add[i]
         /\ \A j \in 1 .. Len(new) :
              j \in 1 .. Len(sql) \/ \E i \in 1 .. Len(add) : j = Len(sql) + i
<1> DEFINE new == sql \o add
<1>1. new \in Seq(Statement) /\ Len(new) = Len(sql) + Len(add)
  OBVIOUS
<1>2. Len(sql) \in Nat /\ Len(add) \in Nat
  OBVIOUS
<1>3. \A i \in 1 .. Len(sql) : new[i] = sql[i]
  OBVIOUS
<1>4. \A i \in 1 .. Len(add) : new[Len(sql) + i] = add[i]
  OBVIOUS
<1>5. ASSUME NEW j \in 1 .. Len(new), j \notin 1 .. Len(sql)
      PROVE  \E i \in 1 .. Len(add) : j = Len(sql) + i
  <2>1. j - Len(sql) \in 1 .. Len(add) /\ j = Len(sql) + (j - Len(sql))
    BY <1>1, <1>2, <1>5
  <2> QED BY <2>1
<1> QED BY <1>1, <1>3, <1>4, <1>5

LEMMA SaysMore ==
  ASSUME NEW sql, NEW new, NEW n \in Nat, NEW m \in Nat, n <= m,
         \A i \in 1 .. n : new[i] = sql[i], NEW s, Says(sql, n, s)
  PROVE  Says(new, m, s)
<1>1. PICK i \in 1 .. n : sql[i] = s
  BY DEF Says
<1>2. i \in 1 .. m
  OBVIOUS
<1> QED BY <1>1, <1>2 DEF Says

LEMMA StillInOrder ==
  ASSUME NEW sql, NEW new, NEW n \in Nat, \A i \in 1 .. n : new[i] = sql[i],
         NEW db, NEW j \in 1 .. n, IsInOrder(db, sql, j)
  PROVE  IsInOrder(db, new, j)
<1>1. j - 1 \in Nat /\ \A i \in 1 .. (j - 1) : i \in 1 .. n
  OBVIOUS
<1>2. \A s : Says(new, j - 1, s) <=> Says(sql, j - 1, s)
  BY <1>1 DEF Says
<1>3. new[j] = sql[j]
  OBVIOUS
<1> QED BY <1>2, <1>3, Zenon DEF IsInOrder

LEMMA SaidByNext ==
  ASSUME NEW sql, NEW n \in Nat, NEW s
  PROVE  Says(sql, n + 1, s) <=> Says(sql, n, s) \/ sql[n + 1] = s
<1>1. 1 .. (n + 1) = (1 .. n) \cup {n + 1}
  OBVIOUS
<1> QED BY <1>1 DEF Says

LEMMA NothingSaid == ASSUME NEW sql, NEW s PROVE ~Says(sql, 0, s)
BY DEF Says

-----------------------------------------------------------------------------
(***************************************************************************)
(* One table's turn in a pass.                                             *)
(***************************************************************************)

LEMMA PassType ==
  ASSUME NEW pass \in Passes
  PROVE  /\ NextPass[pass] \in (Passes \ {"ddl"}) \cup {"values"}
         /\ \A q \in Passes : NextPass[pass] \in Later[q] => q = pass \/ pass \in Later[q]
         /\ \A q \in Passes : /\ {"values", "done"} \subseteq Later[q]
                              /\ "tables" \notin Later[q]
         /\ pass \notin {"idle", "tables", "values", "done", "cut", "failed"}
BY DEF Passes, NextPass, Later

LEMMA EmitIs ==
  ASSUME PgTypeOK, NEW pass \in Passes, NEW t, NEW statements, Emit(pass, t, statements)
  PROVE  /\ dump.step = pass /\ t \in dump.left
         /\ script' = script \o statements
         /\ DOMAIN dump' = DOMAIN dump /\ dump'.last = dump.last /\ dump'.list = dump.list
         /\ \/ dump'.step = pass /\ dump'.left = dump.left \ {t}
            \/ /\ dump'.step = NextPass[pass] /\ dump'.left = dump.list /\ dump.left = {t}
         /\ dump' \in [step : Passes \cup {"idle", "tables", "values", "done", "cut", "failed"},
                       last : 0 .. MaxId, list : SUBSET Tables, left : SUBSET Tables]
         /\ UNCHANGED <<origin, asDumped, target, apply>>
<1> DEFINE next == NextPass[pass]
<1>1. next \in Passes \cup {"values"}
  BY PassType
<1> HIDE DEF next
<1>2. dump' = IF dump.left = {t} THEN [dump EXCEPT !.step = next, !.left = dump.list]
              ELSE [dump EXCEPT !.left = dump.left \ {t}]
  BY DEF Emit, next
<1>3. dump.step = pass /\ t \in dump.left /\ script' = script \o statements
      /\ UNCHANGED <<origin, asDumped, target, apply>>
  BY DEF Emit, IsNext
<1>4. dump \in [step : Passes \cup {"idle", "tables", "values", "done", "cut", "failed"},
                last : 0 .. MaxId, list : SUBSET Tables, left : SUBSET Tables]
  BY DEF PgTypeOK
<1>5. CASE dump.left = {t}
  BY <1>1, <1>2, <1>3, <1>4, <1>5 DEF next
<1>6. CASE dump.left # {t}
  BY <1>2, <1>3, <1>4, <1>6
<1> QED BY <1>5, <1>6

LEMMA TurnsMove ==
  ASSUME PgTypeOK, NEW pass \in Passes, NEW t, NEW statements, Emit(pass, t, statements),
         NEW q \in Passes, NEW u \in dump.list, TurnIsOver(dump', q, u)
  PROVE  TurnIsOver(dump, q, u) \/ (q = pass /\ u = t)
<1>1. /\ dump.step = pass
      /\ \/ dump'.step = pass /\ dump'.left = dump.left \ {t}
         \/ /\ dump'.step = NextPass[pass] /\ dump'.left = dump.list /\ dump.left = {t}
  BY EmitIs
<1>2. CASE dump'.step = pass /\ dump'.left = dump.left \ {t}
  BY <1>1, <1>2 DEF TurnIsOver
<1>3. CASE dump'.step = NextPass[pass] /\ dump'.left = dump.list /\ dump.left = {t}
  <2>1. NextPass[pass] \in Later[q]
    BY <1>3 DEF TurnIsOver
  <2>2. q = pass \/ pass \in Later[q]
    BY <2>1, PassType
  <2> QED BY <1>1, <1>3, <2>2 DEF TurnIsOver
<1> QED BY <1>1, <1>2, <1>3

\* The statements that a turn adds keep the script what it should be, if they are of
\* the database, in their place, and all that are due.
LEMMA EmitKeeps ==
  ASSUME PgTypeOK, DumpInv, asDumped # Missing,
         NEW pass \in Passes, NEW t, NEW statements \in Seq(Statement),
         Emit(pass, t, statements),
         \A i \in 1 .. Len(statements) :
           /\ IsOf(origin, statements[i])
           /\ IsInOrder(origin, script \o statements, Len(script) + i)
           /\ statements[i].op # "torn"
           /\ \A u \in Tables : statements[i] = TableOf(u) => u = t,
         \A s \in Due(origin, pass, t) : \E i \in 1 .. Len(statements) : statements[i] = s
  PROVE  DumpInv'
<1> DEFINE new == script \o statements
           n == Len(script)
           m == Len(new)
<1>d. /\ dump.step = pass /\ t \in dump.left /\ script' = new
      /\ dump'.last = dump.last /\ dump'.list = dump.list
      /\ \/ dump'.step = pass /\ dump'.left = dump.left \ {t}
         \/ dump'.step = NextPass[pass] /\ dump'.left = dump.list /\ dump.left = {t}
      /\ origin' = origin /\ asDumped' = asDumped
  BY EmitIs
<1>i. /\ Consistent(origin) /\ asDumped = origin
      /\ IsScriptOf(origin, script) /\ IsSoFar(origin, dump, script)
  BY DEF DumpInv
<1>s. /\ dump.last = origin.sequence /\ dump.list = origin.tables
      /\ dump.left \subseteq origin.tables
      /\ n >= 1 /\ \A j \in 1 .. n : script[j].op # "torn"
      /\ \A q \in Passes, u \in origin.tables :
           TurnIsOver(dump, q, u) => \A s \in Due(origin, q, u) : Says(script, n, s)
      /\ dump.step = "ddl" => \A u \in dump.left : ~Says(script, n, TableOf(u))
  BY <1>i, <1>d, PassType DEF IsSoFar
<1>t. script \in Seq(Statement) /\ origin.tables \subseteq Tables
  BY DEF PgTypeOK, Database
<1>n. /\ n \in Nat /\ m \in Nat /\ n <= m /\ m = n + Len(statements)
      /\ \A i \in 1 .. n : new[i] = script[i]
      /\ \A i \in 1 .. Len(statements) : new[n + i] = statements[i]
      /\ \A j \in 1 .. m : j \in 1 .. n \/ \E i \in 1 .. Len(statements) : j = n + i
  <2>1. /\ m = n + Len(statements)
        /\ \A i \in 1 .. n : new[i] = script[i]
        /\ \A i \in 1 .. Len(statements) : new[n + i] = statements[i]
        /\ \A j \in 1 .. m : j \in 1 .. n \/ \E i \in 1 .. Len(statements) : j = n + i
    BY <1>t, Appended
  <2>2. n \in Nat /\ Len(statements) \in Nat
    BY <1>t
  <2> QED BY <2>1, <2>2
<1>w. \A i \in 1 .. Len(statements) : n + i \in 1 .. m
  BY <1>n
<1>1. IsScriptOf(origin, new)
  <2>1. ASSUME NEW j \in 1 .. n PROVE IsOf(origin, new[j]) /\ IsInOrder(origin, new, j)
    BY <1>i, <1>n, <2>1, StillInOrder DEF IsScriptOf
  <2>2. ASSUME NEW i \in 1 .. Len(statements)
        PROVE  IsOf(origin, new[n + i]) /\ IsInOrder(origin, new, n + i)
    BY <1>n
  <2> HIDE DEF new, n
  <2> QED BY <1>n, <2>1, <2>2 DEF IsScriptOf
<1>2. \A s : Says(script, n, s) => Says(new, m, s)
  BY <1>n, SaysMore
<1>3. \A i \in 1 .. Len(statements) : Says(new, m, statements[i])
  BY <1>n, <1>w DEF Says
<1>4. ASSUME NEW q \in Passes, NEW u \in origin.tables, TurnIsOver(dump', q, u),
             NEW s \in Due(origin, q, u)
      PROVE  Says(new, m, s)
  <2>1. TurnIsOver(dump, q, u) \/ (q = pass /\ u = t)
    BY <1>4, <1>s, TurnsMove
  <2>2. CASE TurnIsOver(dump, q, u)
    BY <1>2, <1>4, <1>s, <2>2
  <2>3. CASE q = pass /\ u = t
    <3>1. PICK i \in 1 .. Len(statements) : statements[i] = s
      BY <1>4, <2>3
    <3> QED BY <1>3, <3>1
  <2> QED BY <2>1, <2>2, <2>3
<1>5. ASSUME dump'.step = "ddl", NEW u \in dump'.left
      PROVE  ~Says(new, m, TableOf(u))
  <2>1. pass = "ddl" /\ u \in dump.left /\ u # t
    BY <1>5, <1>d, PassType
  <2>2. ~Says(script, n, TableOf(u))
    BY <1>d, <1>s, <2>1
  <2>3. u \in Tables
    BY <1>s, <1>t, <2>1
  <2> SUFFICES ASSUME NEW j \in 1 .. m, new[j] = TableOf(u) PROVE FALSE
    BY DEF Says
  <2>4. CASE j \in 1 .. n
    BY <1>n, <2>2, <2>4 DEF Says
  <2>5. ASSUME NEW i \in 1 .. Len(statements), j = n + i PROVE FALSE
    BY <1>n, <2>1, <2>3, <2>5
  <2> QED BY <1>n, <2>4, <2>5
<1>6. /\ dump'.step \in Passes \cup {"values"}
      /\ dump'.list = origin.tables /\ dump'.left \subseteq origin.tables
      /\ dump'.last = origin.sequence
  BY <1>d, <1>s, PassType
<1>7. m >= 1
  BY <1>s, <1>n
<1>8. \A j \in 1 .. m : new[j].op # "torn"
  <2>1. \A i \in 1 .. Len(statements) : new[n + i].op # "torn"
    BY <1>n
  <2>2. \A j \in 1 .. n : new[j].op # "torn"
    BY <1>n, <1>s
  <2> HIDE DEF new, n, m
  <2> QED BY <1>n, <2>1, <2>2
<1>9. dump'.step # "done" /\ dump'.step \notin {"idle", "tables"}
  BY <1>6, PassType DEF Passes
<1> HIDE DEF new, n, m
<1>10. IsSoFar(origin, dump', new)
  BY <1>4, <1>5, <1>6, <1>7, <1>8, <1>9 DEF IsSoFar, m
<1> QED BY <1>d, <1>i, <1>1, <1>9, <1>10 DEF DumpInv


\* What a pass can rely on: every earlier turn is over.
LEMMA SaidBefore ==
  ASSUME PgTypeOK, DumpInv, asDumped # Missing, NEW pass \in Passes, dump.step = pass
  PROVE  /\ Len(script) >= 1 /\ dump.left \subseteq origin.tables
         /\ pass # "ddl" => \A t \in origin.tables : Says(script, Len(script), TableOf(t))
         /\ pass \notin {"ddl", "data"} =>
              \A t \in origin.tables : Says(script, Len(script), CopyOf(origin, t))
         /\ pass \in {"others", "indexes"} =>
              \A c \in origin.constraints :
                c.type = "p" => Says(script, Len(script), ConstraintOf(c))
<1>1. /\ dump.left \subseteq origin.tables /\ Len(script) >= 1
      /\ \A q \in Passes, t \in origin.tables :
           TurnIsOver(dump, q, t) => \A s \in Due(origin, q, t) : Says(script, Len(script), s)
  BY DEF DumpInv, IsSoFar
<1>2. /\ pass # "ddl" => pass \in Later["ddl"]
      /\ pass \notin {"ddl", "data"} => pass \in Later["data"]
      /\ pass \in {"others", "indexes"} => pass \in Later["keys"]
      /\ {"ddl", "data", "keys"} \subseteq Passes
  BY DEF Passes, Later
<1>3. ASSUME pass # "ddl", NEW t \in origin.tables
      PROVE  Says(script, Len(script), TableOf(t))
  BY <1>1, <1>2, <1>3 DEF TurnIsOver, Due
<1>4. ASSUME pass \notin {"ddl", "data"}, NEW t \in origin.tables
      PROVE  Says(script, Len(script), CopyOf(origin, t))
  BY <1>1, <1>2, <1>4 DEF TurnIsOver, Due
<1>5. ASSUME pass \in {"others", "indexes"}, NEW c \in origin.constraints, c.type = "p"
      PROVE  Says(script, Len(script), ConstraintOf(c))
  <2>1. c.on \in origin.tables
    BY DEF DumpInv, Consistent
  <2>2. ConstraintOf(c) \in Due(origin, "keys", c.on)
    BY <1>5 DEF Due
  <2> QED BY <1>1, <1>2, <1>5, <2>1, <2>2 DEF TurnIsOver
<1> QED BY <1>1, <1>3, <1>4, <1>5

LEMMA SaidInTurn ==
  ASSUME NEW sql \in Seq(Statement), NEW add \in Seq(Statement), NEW i \in 1 .. Len(add),
         NEW s, Says(sql, Len(sql), s)
  PROVE  Says(sql \o add, Len(sql) + i - 1, s)
<1> DEFINE n == Len(sql)
           m == n + i - 1
           new == sql \o add
<1>1. n \in Nat /\ m \in Nat /\ n <= m
  OBVIOUS
<1>2. \A k \in 1 .. n : new[k] = sql[k]
  BY Appended
<1> HIDE DEF n, m, new
<1>3. Says(new, m, s)
  BY <1>1, <1>2, SaysMore DEF n
<1> QED BY <1>3 DEF n, m, new

\* Whatever a turn adds, the database is what it was.
LEMMA EmitStays ==
  ASSUME PgTypeOK, DumpInv, asDumped = Missing, NEW pass \in Passes, NEW t, NEW statements,
         Emit(pass, t, statements)
  PROVE  DumpInv'
<1>1. dump'.step \in {pass, NextPass[pass]} /\ origin' = origin /\ asDumped' = Missing
  BY EmitIs
<1>2. dump'.step \notin {"idle", "tables"}
  BY <1>1, PassType DEF Passes
<1> QED BY <1>1, <1>2 DEF DumpInv

LEMMA EmitTypes ==
  ASSUME PgTypeOK, NEW pass \in Passes, NEW t, NEW statements \in Seq(Statement),
         Emit(pass, t, statements)
  PROVE  PgTypeOK'
<1>1. script' = script \o statements
      /\ dump' \in [step : Passes \cup {"idle", "tables", "values", "done", "cut", "failed"},
                       last : 0 .. MaxId, list : SUBSET Tables, left : SUBSET Tables]
      /\ UNCHANGED <<origin, asDumped, target, apply>>
  BY EmitIs
<1>2. script' \in Seq(Statement)
  BY <1>1 DEF PgTypeOK
<1> QED BY <1>1, <1>2 DEF PgTypeOK

LEMMA DumpDDLKeeps ==
  ASSUME PgTypeOK, DumpInv, NEW t \in Tables, DumpDDL(t)
  PROVE  PgTypeOK' /\ DumpInv'
<1> DEFINE statements == <<TableOf(t)>>
<1>1. /\ Emit("ddl", t, statements) /\ "ddl" \in Passes
      /\ TableOf(t) \in Statement
  BY DEF DumpDDL, TableOf, Passes, Statement
<1>2. statements \in Seq(Statement) /\ Len(statements) = 1 /\ statements[1] = TableOf(t)
  BY <1>1
<1> HIDE DEF statements
<1>3. PgTypeOK'
  BY <1>1, <1>2, EmitTypes
<1>4. CASE asDumped = Missing
  BY <1>1, <1>3, <1>4, EmitStays
<1>5. CASE asDumped # Missing
  <2>1. dump.step = "ddl" /\ t \in dump.left
    BY <1>1, EmitIs
  <2>2. t \in origin.tables /\ Len(script) >= 1
    BY <1>1, <1>5, <2>1, SaidBefore
  <2>3. ~Says(script, Len(script), TableOf(t))
    BY <1>5, <2>1 DEF DumpInv, IsSoFar
  <2> DEFINE new == script \o statements
             n == Len(script)
  <2>4. n \in Nat /\ n >= 1 /\ new[n + 1] = TableOf(t) /\ \A i \in 1 .. n : new[i] = script[i]
    <3>1. script \in Seq(Statement)
      BY DEF PgTypeOK
    <3>2. /\ \A i \in 1 .. n : new[i] = script[i]
          /\ \A i \in 1 .. Len(statements) : new[n + i] = statements[i]
      BY <1>2, <3>1, Appended
    <3>3. n \in Nat /\ n >= 1 /\ 1 \in 1 .. Len(statements)
      BY <1>2, <2>2, <3>1
    <3> HIDE DEF new, n
    <3> QED BY <1>2, <3>2, <3>3
  <2> HIDE DEF new, n
  <2>5. ~Says(new, n, TableOf(t))
    BY <2>3, <2>4 DEF Says, n
  <2>6. n + 1 # 1 /\ (n + 1) - 1 = n
    BY <2>4
  <2>7. TableOf(t).op = "table" /\ \A u : TableOf(t) = TableOf(u) => u = t
    BY DEF TableOf
  <2>8. IsOf(origin, TableOf(t))
    BY <2>2 DEF IsOf
  <2>9. IsInOrder(origin, new, n + 1)
    BY <2>4, <2>5, <2>6, <2>7 DEF IsInOrder
  <2>10. ASSUME NEW i \in 1 .. Len(statements)
         PROVE  /\ IsOf(origin, statements[i])
                /\ IsInOrder(origin, script \o statements, Len(script) + i)
                /\ statements[i].op # "torn"
                /\ \A u \in Tables : statements[i] = TableOf(u) => u = t
    <3>1. i = 1
      BY <1>2
    <3> QED BY <1>2, <2>7, <2>8, <2>9, <3>1 DEF new, n
  <2>11. \A s \in Due(origin, "ddl", t) : \E i \in 1 .. Len(statements) : statements[i] = s
    <3>1. Due(origin, "ddl", t) = {TableOf(t)}
      BY DEF Due
    <3> QED BY <1>2, <3>1
  <2> QED BY <1>1, <1>2, <1>3, <1>5, <2>10, <2>11, EmitKeeps
<1> QED BY <1>3, <1>4, <1>5

\* The later passes: their statements need only what an earlier pass has said.
LEMMA LaterPassKeeps ==
  ASSUME PgTypeOK, DumpInv, NEW pass \in Passes \ {"ddl"}, NEW t \in Tables,
         NEW statements \in Seq(Statement), Emit(pass, t, statements),
         \A i \in 1 .. Len(statements) :
           /\ IsOf(origin, statements[i])
           /\ statements[i].op = CASE pass = "data" -> "copy"
                                   [] pass \in {"keys", "others"} -> "constraint"
                                   [] pass = "indexes" -> "index"
           /\ pass = "keys" => statements[i].constraint.type = "p",
         \A s \in Due(origin, pass, t) : \E i \in 1 .. Len(statements) : statements[i] = s
  PROVE  PgTypeOK' /\ DumpInv'
<1>1. PgTypeOK'
  BY EmitTypes
<1>p. pass \in Passes
  OBVIOUS
<1>2. CASE asDumped = Missing
  BY <1>1, <1>2, <1>p, EmitStays
<1>3. CASE asDumped # Missing
  <2>1. dump.step = pass
    BY EmitIs
  <2>2. /\ Len(script) >= 1
        /\ \A u \in origin.tables : Says(script, Len(script), TableOf(u))
        /\ pass # "data" => \A u \in origin.tables : Says(script, Len(script), CopyOf(origin, u))
        /\ pass \in {"others", "indexes"} =>
             \A c \in origin.constraints :
               c.type = "p" => Says(script, Len(script), ConstraintOf(c))
    BY <1>3, <2>1, SaidBefore
  <2>3. script \in Seq(Statement) /\ Len(script) \in Nat
    BY DEF PgTypeOK
  <2>4. ASSUME NEW i \in 1 .. Len(statements)
        PROVE  /\ IsOf(origin, statements[i])
               /\ IsInOrder(origin, script \o statements, Len(script) + i)
               /\ statements[i].op # "torn"
               /\ \A u \in Tables : statements[i] = TableOf(u) => u = t
    <3> DEFINE new == script \o statements
               j == Len(script) + i
    <3>1. new[j] = statements[i]
      BY <2>3, Appended
    <3>2. \A s : Says(script, Len(script), s) => Says(new, j - 1, s)
      BY <2>3, SaidInTurn
    <3>3. j # 1
      BY <2>2, <2>3
    <3>4. pass \in {"data", "keys", "others", "indexes"}
      BY DEF Passes
    <3>5. statements[i].op \in {"copy", "constraint", "index"}
          /\ (statements[i].op # "copy" => pass # "data")
          /\ (statements[i].op = "constraint" => pass \in {"keys", "others"})
      BY <3>4
    <3>6. \A u : TableOf(u).op = "table"
      BY DEF TableOf
    <3>7. pass = "keys" => statements[i].constraint.type = "p"
      OBVIOUS
    <3> HIDE DEF new, j
    <3>8. IsInOrder(origin, new, j)
      <4>1. (new[j].op = "sequence" <=> j = 1) /\ new[j].op # "table"
        BY <3>1, <3>3, <3>5
      <4>2. \A u \in origin.tables : Says(new, j - 1, TableOf(u))
        BY <2>2, <3>2
      <4>3. new[j].op \in {"constraint", "index", "setval"}
              => \A u \in origin.tables : Says(new, j - 1, CopyOf(origin, u))
        BY <2>2, <3>1, <3>2, <3>5
      <4>4. new[j].op = "constraint" =>
              (new[j].constraint.type = "f" =>
                 \A c \in origin.constraints : c.type = "p" => Says(new, j - 1, ConstraintOf(c)))
        BY <2>2, <3>1, <3>2, <3>5, <3>7
      <4> QED BY <4>1, <4>2, <4>3, <4>4 DEF IsInOrder
    <3>9. \A u \in Tables : statements[i] # TableOf(u)
      BY <3>5, <3>6
    <3> QED BY <3>5, <3>8, <3>9 DEF new, j
  <2> QED BY <1>1, <1>3, <2>4, EmitKeeps
<1> QED BY <1>1, <1>2, <1>3


LEMMA DumpDataKeeps ==
  ASSUME PgTypeOK, DumpInv, NEW t \in Tables, DumpData(t)
  PROVE  PgTypeOK' /\ DumpInv'
<1> DEFINE statements == <<CopyOf(origin, t)>>
<1>1. /\ Emit("data", t, statements) /\ "data" \in Passes \ {"ddl"} /\ t \in origin.tables
      /\ CopyOf(origin, t) \in Statement
  <2>1. origin.rows[t] \in SUBSET Row
    BY DEF PgTypeOK, Database
  <2> QED BY <2>1 DEF DumpData, CopyOf, Passes, Statement
<1>2. statements \in Seq(Statement) /\ Len(statements) = 1 /\ statements[1] = CopyOf(origin, t)
  BY <1>1
<1> HIDE DEF statements
<1>3. CopyOf(origin, t).op = "copy" /\ IsOf(origin, CopyOf(origin, t))
      /\ Due(origin, "data", t) = {CopyOf(origin, t)}
  BY <1>1 DEF CopyOf, IsOf, Due
<1>4. ASSUME NEW i \in 1 .. Len(statements) PROVE i = 1
  BY <1>2
<1>5. \A i \in 1 .. Len(statements) :
        IsOf(origin, statements[i]) /\ statements[i].op = "copy"
  BY <1>2, <1>3, <1>4
<1>6. \A s \in Due(origin, "data", t) : \E i \in 1 .. Len(statements) : statements[i] = s
  BY <1>2, <1>3
<1> QED BY <1>1, <1>2, <1>5, <1>6, LaterPassKeeps

LEMMA DumpConstraintsKeeps ==
  ASSUME PgTypeOK, DumpInv, NEW t \in Tables, DumpConstraints(t)
  PROVE  PgTypeOK' /\ DumpInv'
<1> DEFINE wanted(pass) == {c \in origin.constraints : c.on = t /\ c.type \in Wanted(pass)}
           set(pass) == {ConstraintOf(c) : c \in wanted(pass)}
<1>1. PICK pass \in {"keys", "others"} : Emit(pass, t, SetToSeq(set(pass)))
  BY DEF DumpConstraints, ConstraintOf
<1> DEFINE statements == SetToSeq(set(pass))
<1>2. set(pass) \subseteq Statement /\ wanted(pass) \subseteq Constraint
  BY DEF PgTypeOK, Database, Statement, ConstraintOf
<1>3. IsFiniteSet(set(pass))
  <2>1. IsFiniteSet(wanted(pass))
    BY <1>2, ConstraintsFinite, FS_Subset
  <2> DEFINE W == wanted(pass)
             f == [c \in W |-> ConstraintOf(c)]
  <2> HIDE DEF wanted, W
  <2>2. IsFiniteSet({f[c] : c \in W})
    BY <2>1, FiniteImage DEF W
  <2>3. {f[c] : c \in W} = {ConstraintOf(c) : c \in W}
    OBVIOUS
  <2> QED BY <2>2, <2>3 DEF W
<1>4. /\ statements \in Seq(set(pass))
      /\ \A s \in set(pass) : \E i \in 1 .. Len(statements) : statements[i] = s
  BY <1>3, SetToSeqLists
<1>5. \A i \in 1 .. Len(statements) : statements[i] \in set(pass)
  <2> HIDE DEF statements, set
  <2> QED BY <1>4
<1>6. statements \in Seq(Statement)
  <2>1. Len(statements) \in Nat /\ statements \in [1 .. Len(statements) -> set(pass)]
    <3> HIDE DEF statements, set
    <3> QED BY <1>4
  <2>2. statements \in [1 .. Len(statements) -> Statement]
    <3> HIDE DEF statements, set
    <3> QED BY <1>2, <2>1
  <2> HIDE DEF statements, set
  <2> QED BY <2>1, <2>2
<1>7. ASSUME NEW s \in set(pass)
      PROVE  /\ IsOf(origin, s) /\ s.op = "constraint"
             /\ pass = "keys" => s.constraint.type = "p"
  BY DEF IsOf, ConstraintOf, Wanted
<1>8. Due(origin, pass, t) \subseteq set(pass)
  BY DEF Due, Wanted
<1>9. pass \in Passes \ {"ddl"} /\ pass # "data" /\ pass # "indexes"
  BY DEF Passes
<1>10. Emit(pass, t, statements)
  BY <1>1
<1> HIDE DEF statements, set, wanted
<1>11. ASSUME NEW i \in 1 .. Len(statements)
       PROVE  /\ IsOf(origin, statements[i])
              /\ statements[i].op = CASE pass = "data" -> "copy"
                                      [] pass \in {"keys", "others"} -> "constraint"
                                      [] pass = "indexes" -> "index"
              /\ pass = "keys" => statements[i].constraint.type = "p"
  BY <1>5, <1>7, <1>9
<1>12. \A s \in Due(origin, pass, t) : \E i \in 1 .. Len(statements) : statements[i] = s
  BY <1>4, <1>8
<1> QED BY <1>6, <1>9, <1>10, <1>11, <1>12, LaterPassKeeps

LEMMA DumpIndexesKeeps ==
  ASSUME PgTypeOK, DumpInv, NEW t \in Tables, DumpIndexes(t)
  PROVE  PgTypeOK' /\ DumpInv'
<1> DEFINE statements == IF t \in origin.indexes /\ ~BacksConstraint(origin, t)
                         THEN <<IndexOf(t)>> ELSE <<>>
<1>1. Emit("indexes", t, statements) /\ "indexes" \in Passes \ {"ddl"} /\ IndexOf(t) \in Statement
  BY DEF DumpIndexes, IndexOf, Passes, Statement
<1>2. CASE t \in origin.indexes /\ ~BacksConstraint(origin, t)
  <2>1. statements \in Seq(Statement) /\ Len(statements) = 1 /\ statements[1] = IndexOf(t)
    BY <1>1, <1>2
  <2> HIDE DEF statements
  <2>2. IndexOf(t).op = "index" /\ IsOf(origin, IndexOf(t))
        /\ Due(origin, "indexes", t) = {IndexOf(t)}
    BY <1>2 DEF IndexOf, IsOf, Due
  <2>3. ASSUME NEW i \in 1 .. Len(statements) PROVE i = 1
    BY <2>1
  <2> QED BY <1>1, <2>1, <2>2, <2>3, LaterPassKeeps
<1>3. CASE ~(t \in origin.indexes /\ ~BacksConstraint(origin, t))
  <2>1. statements \in Seq(Statement) /\ Len(statements) = 0
    BY <1>3
  <2>2. Due(origin, "indexes", t) = {}
    BY <1>3 DEF Due
  <2> HIDE DEF statements
  <2>3. \A i \in 1 .. Len(statements) : FALSE
    BY <2>1
  <2> QED BY <1>1, <2>1, <2>2, <2>3, LaterPassKeeps
<1> QED BY <1>2, <1>3

-----------------------------------------------------------------------------
(***************************************************************************)
(* The other steps of the writers and the dump.                            *)
(***************************************************************************)

LEMMA InsertRowKeeps ==
  ASSUME PgTypeOK, DumpInv, NEW t \in Tables, InsertRow(t)
  PROVE  PgTypeOK' /\ DumpInv'
<1> DEFINE id == origin.sequence + 1
<1>1. PICK ref \in 0 .. MaxId :
        LET db == [origin EXCEPT !.rows[t] = @ \cup {[id |-> id, ref |-> ref]}, !.sequence = id]
        IN  /\ \A u \in Tables : ForeignKey(t, u) \in origin.constraints => Resolves(db, t, u)
            /\ ChangesTo(db)
  BY DEF InsertRow
<1> DEFINE row == [id |-> id, ref |-> ref]
           rows == [origin.rows EXCEPT ![t] = @ \cup {row}]
           db == [origin EXCEPT !.rows = rows, !.sequence = id]
<1>2. /\ t \in origin.tables /\ id \in 1 .. MaxId /\ origin \in Database
      /\ UNCHANGED <<dump, script, target, apply>>
  BY PgBoundAssumption DEF InsertRow, PgTypeOK
<1>3. row \in Row
  BY <1>2 DEF Row
<1>4. origin' = db /\ asDumped' = Missing
      /\ \A u \in Tables : ForeignKey(t, u) \in origin.constraints => Resolves(db, t, u)
  BY <1>1 DEF ChangesTo
<1> HIDE DEF row, id
<1>5. rows \in [Tables -> SUBSET Row] /\ rows[t] = origin.rows[t] \cup {row}
      /\ \A u \in Tables \ {t} : rows[u] = origin.rows[u]
  BY <1>2, <1>3 DEF Database
<1> HIDE DEF rows
<1>6. id \in 0 .. MaxId /\ id \in (0 .. MaxId) \cup {Missing}
  BY <1>2
<1>7. /\ db \in Database /\ db.tables = origin.tables /\ db.rows = rows
      /\ db.constraints = origin.constraints /\ db.indexes = origin.indexes
      /\ db.sequence = id
  BY <1>2, <1>5, <1>6 DEF Database
<1> HIDE DEF db
<1>8. Consistent(db)
  <2>1. Consistent(origin)
    BY DEF DumpInv
  <2>2. \A u \in Tables \ db.tables : db.rows[u] = {}
    BY <1>2, <1>5, <1>7, <2>1 DEF Consistent
  <2>3. ASSUME NEW c \in db.constraints, c.type = "f"
        PROVE  IsUnique(db, c.to) /\ Resolves(db, c.on, c.to)
    <3>1. c \in Constraint /\ c.on \in Tables /\ c.to \in Tables
          /\ IsUnique(origin, c.to) /\ Resolves(origin, c.on, c.to)
      BY <1>2, <1>7, <2>1, <2>3, ConstraintType DEF Consistent, Database
    <3>2. IsUnique(db, c.to)
      BY <1>7, <3>1 DEF IsUnique
    <3>3. CASE c.on = t
      <4>1. c = ForeignKey(t, c.to)
        BY <2>3, <3>1, <3>3 DEF Constraint, ForeignKey, UniqueKey
      <4> QED BY <1>4, <1>7, <3>1, <3>2, <3>3, <4>1
    <3>4. CASE c.on # t
      <4>1. db.rows[c.on] = origin.rows[c.on] /\ origin.rows[c.to] \subseteq db.rows[c.to]
        BY <1>5, <1>7, <3>1, <3>4
      <4>2. Ids(origin, c.to) \subseteq Ids(db, c.to)
        BY <4>1 DEF Ids
      <4>3. Resolves(db, c.on, c.to)
        BY <3>1, <4>1, <4>2 DEF Resolves
      <4> QED BY <3>2, <4>3
    <3> QED BY <3>3, <3>4
  <2> QED BY <1>7, <2>1, <2>2, <2>3 DEF Consistent
<1>9. dump.step \in {"idle", "tables"} => script = <<>>
  BY DEF DumpInv
<1>10. PgTypeOK'
  BY <1>2, <1>4, <1>6, <1>7 DEF PgTypeOK
<1>11. DumpInv'
  BY <1>2, <1>4, <1>8, <1>9 DEF DumpInv
<1> QED BY <1>10, <1>11

LEMMA DropTableKeeps ==
  ASSUME PgTypeOK, DumpInv, NEW t \in Tables, DropTable(t)
  PROVE  PgTypeOK' /\ DumpInv'
<1> DEFINE rows == [origin.rows EXCEPT ![t] = {}]
           tables == origin.tables \ {t}
           indexes == origin.indexes \ {t}
           constraints == {c \in origin.constraints : t \notin {c.on, c.to}}
           db == [origin EXCEPT !.tables = tables, !.rows = rows, !.indexes = indexes,
                                !.constraints = constraints]
<1>1. /\ origin' = db /\ asDumped' = Missing /\ origin \in Database
      /\ UNCHANGED <<dump, script, target, apply>>
  BY DEF DropTable, ChangesTo, PgTypeOK
<1>2. rows \in [Tables -> SUBSET Row] /\ rows[t] = {}
      /\ \A u \in Tables \ {t} : rows[u] = origin.rows[u]
  BY <1>1 DEF Database
<1>3. tables \in SUBSET Tables /\ indexes \in SUBSET Tables
      /\ constraints \in SUBSET Constraint
  BY <1>1 DEF Database
<1> HIDE DEF rows, tables, indexes, constraints
<1>4. /\ db \in Database /\ db.tables = tables /\ db.rows = rows /\ db.indexes = indexes
      /\ db.constraints = constraints /\ db.sequence = origin.sequence
  BY <1>1, <1>2, <1>3 DEF Database
<1> HIDE DEF db
<1>5. Consistent(origin)
  BY DEF DumpInv
<1>6. \A u \in Tables \ db.tables : db.rows[u] = {}
  BY <1>2, <1>4, <1>5 DEF Consistent, tables
<1>7. db.indexes \subseteq db.tables
  BY <1>4, <1>5 DEF Consistent, tables, indexes
<1>8. ASSUME NEW c \in db.constraints
      PROVE  /\ c.on \in db.tables /\ c.to \in db.tables
             /\ c.type = "f" => IsUnique(db, c.to) /\ Resolves(db, c.on, c.to)
  <2>1. /\ c \in origin.constraints /\ c.on # t /\ c.to # t
        /\ c.on \in origin.tables /\ c.to \in origin.tables
    BY <1>4, <1>5 DEF Consistent, constraints
  <2>2. c.on \in Tables /\ c.to \in Tables
    BY <1>1, <2>1, ConstraintType DEF Database
  <2>3. ASSUME c.type = "f" PROVE IsUnique(db, c.to) /\ Resolves(db, c.on, c.to)
    <3>1. IsUnique(origin, c.to) /\ Resolves(origin, c.on, c.to)
      BY <1>5, <2>1, <2>3 DEF Consistent
    <3>2. db.rows[c.on] = origin.rows[c.on] /\ db.rows[c.to] = origin.rows[c.to]
      BY <1>2, <1>4, <2>1, <2>2
    <3>3. Resolves(db, c.on, c.to)
      BY <3>1, <3>2 DEF Resolves, Ids
    <3>4. UniqueKey(c.to).on = c.to /\ UniqueKey(c.to).to = c.to
      BY DEF UniqueKey
    <3>5. IsUnique(db, c.to)
      BY <1>4, <2>1, <3>1, <3>4 DEF IsUnique, constraints, indexes
    <3> QED BY <3>3, <3>5
  <2> QED BY <1>4, <2>1, <2>3 DEF tables
<1>9. Consistent(db)
  BY <1>6, <1>7, <1>8 DEF Consistent
<1>10. dump.step \in {"idle", "tables"} => script = <<>>
  BY DEF DumpInv
<1>11. PgTypeOK'
  BY <1>1, <1>4 DEF PgTypeOK
<1>12. DumpInv'
  BY <1>1, <1>9, <1>10 DEF DumpInv
<1> QED BY <1>11, <1>12


LEMMA AddedOne ==
  ASSUME NEW sql \in Seq(Statement), NEW s \in Statement, NEW db, IsScriptOf(db, sql), IsOf(db, s),
         Len(sql) >= 1, s.op \notin {"sequence", "table", "constraint"},
         \A t \in db.tables : Says(sql, Len(sql), TableOf(t)),
         s.op \in {"index", "setval"} => \A t \in db.tables : Says(sql, Len(sql), CopyOf(db, t))
  PROVE  LET new == Append(sql, s) IN
         /\ new \in Seq(Statement) /\ Len(new) >= 1
         /\ IsScriptOf(db, new) /\ Says(new, Len(new), s)
         /\ \A x : Says(sql, Len(sql), x) => Says(new, Len(new), x)
         /\ (s.op # "torn" /\ \A j \in 1 .. Len(sql) : sql[j].op # "torn")
              => \A j \in 1 .. Len(new) : new[j].op # "torn"
<1> DEFINE new == Append(sql, s)
           n == Len(sql)
           m == Len(new)
<1>1. n \in Nat /\ n >= 1 /\ m = n + 1 /\ new \in Seq(Statement)
      /\ new[m] = s /\ \A i \in 1 .. n : new[i] = sql[i]
  OBVIOUS
<1>2. m \in Nat /\ n <= m /\ m - 1 = n /\ m # 1 /\ m >= 1 /\ m \in 1 .. m
      /\ \A j \in 1 .. m : j \in 1 .. n \/ j = m
  BY <1>1
<1>n. n <= n
  BY <1>1
<1> HIDE DEF new, m
<1>3. \A x : Says(sql, n, x) => Says(new, m, x)
  BY <1>1, <1>2, SaysMore
<1>4. \A x : Says(sql, n, x) => Says(new, n, x)
  BY <1>1, <1>n, SaysMore
<1>5. IsInOrder(db, new, m)
  BY <1>1, <1>2, <1>4 DEF IsInOrder
<1>6. ASSUME NEW j \in 1 .. n PROVE IsOf(db, new[j]) /\ IsInOrder(db, new, j)
  BY <1>1, <1>6, StillInOrder DEF IsScriptOf
<1>7. IsScriptOf(db, new)
  <2> HIDE DEF n
  <2> QED BY <1>1, <1>2, <1>5, <1>6 DEF IsScriptOf, m
<1>8. Says(new, m, s)
  BY <1>1, <1>2 DEF Says
<1>9. (s.op # "torn" /\ \A j \in 1 .. n : sql[j].op # "torn")
        => \A j \in 1 .. m : new[j].op # "torn"
  <2> HIDE DEF n
  <2> QED BY <1>1, <1>2
<1> QED BY <1>1, <1>2, <1>3, <1>7, <1>8, <1>9 DEF new, m

LEMMA BeginDumpKeeps ==
  ASSUME PgTypeOK, DumpInv, BeginDump
  PROVE  PgTypeOK' /\ DumpInv'
<1>1. /\ dump.step = "idle" /\ dump' = [dump EXCEPT !.step = "tables", !.last = origin.sequence]
      /\ asDumped' = origin /\ UNCHANGED <<origin, script, target, apply>>
  BY DEF BeginDump
<1>2. PgTypeOK'
  BY <1>1 DEF PgTypeOK
<1>3. dump'.step = "tables" /\ dump'.last = origin.sequence
  BY <1>1 DEF PgTypeOK
<1>4. script = <<>> /\ Consistent(origin)
  BY <1>1 DEF DumpInv
<1>5. IsScriptOf(origin, script)
  BY <1>4 DEF IsScriptOf
<1>6. \A q \in Passes : \A t : ~TurnIsOver(dump', q, t)
  BY <1>3, PassType DEF TurnIsOver
<1>7. IsSoFar(origin, dump', script)
  BY <1>3, <1>4, <1>6 DEF IsSoFar, Passes
<1>8. DumpInv'
  BY <1>1, <1>3, <1>4, <1>5, <1>7 DEF DumpInv
<1> QED BY <1>2, <1>8

LEMMA ListTablesKeeps ==
  ASSUME PgTypeOK, DumpInv, ListTables
  PROVE  PgTypeOK' /\ DumpInv'
<1> DEFINE s == [op |-> "sequence"]
           new == <<s>>
           step == IF origin.tables = {} THEN "values" ELSE "ddl"
<1>1. /\ dump.step = "tables"
      /\ dump' = [dump EXCEPT !.step = step, !.list = origin.tables, !.left = origin.tables]
      /\ script' = new /\ UNCHANGED <<origin, asDumped, target, apply>>
  BY DEF ListTables
<1>2. s \in Statement /\ s.op = "sequence"
  BY DEF Statement
<1>3. step \in {"values", "ddl"} /\ "ddl" \in Passes
      /\ step \in Passes \cup {"idle", "tables", "values", "done", "cut", "failed"}
  BY DEF Passes
<1>4. new \in Seq(Statement) /\ Len(new) = 1 /\ new[1] = s
  BY <1>2
<1>5. origin.tables \subseteq Tables
  BY DEF PgTypeOK, Database
<1>a. (step = "values") <=> (origin.tables = {})
  OBVIOUS
<1> HIDE DEF s, new, step
<1>6. dump'.step = step /\ dump'.last = dump.last /\ dump'.list = origin.tables
      /\ dump'.left = origin.tables
      /\ dump' \in [step : Passes \cup {"idle", "tables", "values", "done", "cut", "failed"},
                    last : 0 .. MaxId, list : SUBSET Tables, left : SUBSET Tables]
  BY <1>1, <1>3, <1>5 DEF PgTypeOK
<1>7. PgTypeOK'
  BY <1>1, <1>4, <1>6 DEF PgTypeOK
<1>8. ASSUME asDumped # Missing
      PROVE  IsScriptOf(origin, new) /\ IsSoFar(origin, dump', new)
  <2>1. dump.last = origin.sequence
    BY <1>8 DEF DumpInv, IsSoFar
  <2>2. \A j \in 1 .. Len(new) : j = 1
    BY <1>4
  <2>3. IsScriptOf(origin, new)
    BY <1>2, <1>4, <2>2 DEF IsScriptOf, IsOf, IsInOrder
  <2>4. \A q \in Passes, t \in origin.tables : ~TurnIsOver(dump', q, t)
    BY <1>a, <1>3, <1>6 DEF TurnIsOver, Passes, Later
  <2>5. \A t : ~Says(new, Len(new), TableOf(t))
    BY <1>2, <1>4, <2>2 DEF Says, TableOf
  <2>6. IsSoFar(origin, dump', new)
    <3>1. dump'.step # "done" /\ Len(new) >= 1
      BY <1>3, <1>4, <1>6
    <3>2. \A j \in 1 .. Len(new) : new[j].op # "torn"
      BY <1>2, <1>4, <2>2
    <3> QED BY <1>6, <2>1, <2>4, <2>5, <3>1, <3>2, Zenon DEF IsSoFar
  <2> QED BY <2>3, <2>6
<1>9. dump'.step \notin {"idle", "tables"}
  BY <1>3, <1>6
<1>10. DumpInv'
  BY <1>1, <1>8, <1>9 DEF DumpInv
<1> QED BY <1>7, <1>10

LEMMA DumpEndedIs ==
  ASSUME PgTypeOK, NEW step \in {"done", "cut", "failed"}, dump' = DumpEnded(step)
  PROVE  /\ dump'.step = step /\ dump'.last = dump.last
         /\ dump' \in [step : Passes \cup {"idle", "tables", "values", "done", "cut", "failed"},
                       last : 0 .. MaxId, list : SUBSET Tables, left : SUBSET Tables]
         /\ step \notin Passes
BY DEF PgTypeOK, DumpEnded, Passes

LEMMA DumpValuesKeeps ==
  ASSUME PgTypeOK, DumpInv, DumpValues
  PROVE  PgTypeOK' /\ DumpInv'
<1> DEFINE s == [op |-> "setval", value |-> dump.last]
<1>1. /\ dump.step = "values" /\ dump' = DumpEnded("done")
      /\ script' = (IF dump.last = 0 THEN script ELSE Append(script, s))
      /\ UNCHANGED <<origin, asDumped, target, apply>>
  BY DEF DumpValues
<1>2. s \in Statement /\ script \in Seq(Statement) /\ s.op = "setval"
  BY DEF Statement, PgTypeOK
<1> HIDE DEF s
<1>3. dump'.step = "done" /\ dump'.last = dump.last
      /\ dump' \in [step : Passes \cup {"idle", "tables", "values", "done", "cut", "failed"},
                    last : 0 .. MaxId, list : SUBSET Tables, left : SUBSET Tables]
      /\ "done" \notin Passes
  BY <1>1, DumpEndedIs
<1>4. script' \in Seq(Statement)
  BY <1>1, <1>2
<1>5. PgTypeOK'
  BY <1>1, <1>3, <1>4 DEF PgTypeOK
<1>6. ASSUME asDumped # Missing
      PROVE  IsScriptOf(origin, script') /\ IsSoFar(origin, dump', script')
  <2>1. /\ IsScriptOf(origin, script) /\ dump.last = origin.sequence /\ Len(script) >= 1
        /\ \A j \in 1 .. Len(script) : script[j].op # "torn"
        /\ \A q \in Passes, t \in origin.tables :
             TurnIsOver(dump, q, t) => \A x \in Due(origin, q, t) : Says(script, Len(script), x)
    BY <1>1, <1>6 DEF DumpInv, IsSoFar
  <2>2. \A q \in Passes, t \in origin.tables : TurnIsOver(dump, q, t)
    BY <1>1, PassType DEF TurnIsOver
  <2>3. \A q \in Passes, t \in origin.tables :
          \A x \in Due(origin, q, t) : Says(script, Len(script), x)
    BY <2>1, <2>2
  <2>4. \A t \in origin.tables : /\ Says(script, Len(script), TableOf(t))
                                 /\ Says(script, Len(script), CopyOf(origin, t))
    <3>1. {"ddl", "data"} \subseteq Passes
      BY DEF Passes
    <3>2. \A t : /\ TableOf(t) \in Due(origin, "ddl", t)
                /\ CopyOf(origin, t) \in Due(origin, "data", t)
      BY DEF Due
    <3> QED BY <2>3, <3>1, <3>2
  <2>5. s = ValueOf(origin) /\ IsOf(origin, s)
    BY <2>1 DEF s, ValueOf, IsOf
  <2>6. CASE dump.last = 0
    BY <1>1, <1>3, <2>1, <2>3, <2>6 DEF IsSoFar
  <2>7. CASE dump.last # 0
    <3>1. script' = Append(script, s)
      BY <1>1, <2>7
    <3>2. /\ Len(script') >= 1 /\ IsScriptOf(origin, script') /\ Says(script', Len(script'), s)
          /\ \A x : Says(script, Len(script), x) => Says(script', Len(script'), x)
          /\ \A j \in 1 .. Len(script') : script'[j].op # "torn"
      BY <1>2, <2>1, <2>4, <2>5, <3>1, AddedOne
    <3>3. IsSoFar(origin, dump', script')
      BY <1>3, <2>1, <2>3, <2>5, <3>2 DEF IsSoFar
    <3> QED BY <3>2, <3>3
  <2> QED BY <2>6, <2>7
<1>7. DumpInv'
  BY <1>1, <1>3, <1>6 DEF DumpInv
<1> QED BY <1>5, <1>7

LEMMA NoneIsOver ==
  ASSUME NEW d, d.step \in {"cut", "failed"}
  PROVE  \A q \in Passes : \A t : ~TurnIsOver(d, q, t)
BY DEF Passes, Later, TurnIsOver

LEMMA DumpFailsKeeps ==
  ASSUME PgTypeOK, DumpInv, DumpFails
  PROVE  PgTypeOK' /\ DumpInv'
<1>1. /\ dump' = DumpEnded("failed") /\ script' = <<>>
      /\ UNCHANGED <<origin, asDumped, target, apply>>
  BY DEF DumpFails
<1>2. dump'.step = "failed" /\ dump'.last = dump.last
      /\ dump' \in [step : Passes \cup {"idle", "tables", "values", "done", "cut", "failed"},
                    last : 0 .. MaxId, list : SUBSET Tables, left : SUBSET Tables]
      /\ "failed" \notin Passes
  BY <1>1, DumpEndedIs
<1>3. PgTypeOK'
  BY <1>1, <1>2 DEF PgTypeOK
<1>4. ASSUME asDumped # Missing
      PROVE  IsScriptOf(origin, script') /\ IsSoFar(origin, dump', script')
  <2>1. dump.last = origin.sequence
    BY <1>4 DEF DumpInv, IsSoFar
  <2>2. IsScriptOf(origin, script')
    BY <1>1 DEF IsScriptOf
  <2>3. IsSoFar(origin, dump', script')
    BY <1>1, <1>2, <2>1, NoneIsOver DEF IsSoFar
  <2> QED BY <2>2, <2>3
<1>5. DumpInv'
  BY <1>1, <1>2, <1>4 DEF DumpInv
<1> QED BY <1>3, <1>5

LEMMA DumpIsCutKeeps ==
  ASSUME PgTypeOK, DumpInv, DumpIsCut
  PROVE  PgTypeOK' /\ DumpInv'
<1>1. /\ Dumping /\ dump' = DumpEnded("cut") /\ UNCHANGED <<origin, asDumped, target, apply>>
      /\ \/ script' = script
         \/ \E t \in dump.left :
              /\ dump.step = "data"
              /\ \E rows \in SUBSET origin.rows[t] :
                   script' = Append(script, [op |-> "torn", table |-> t, rows |-> rows])
  BY DEF DumpIsCut
<1>2. dump'.step = "cut" /\ dump'.last = dump.last
      /\ dump' \in [step : Passes \cup {"idle", "tables", "values", "done", "cut", "failed"},
                    last : 0 .. MaxId, list : SUBSET Tables, left : SUBSET Tables]
      /\ "cut" \notin Passes
  BY <1>1, DumpEndedIs
<1>s. script \in Seq(Statement)
  BY DEF PgTypeOK
<1>3. ASSUME asDumped # Missing
      PROVE  IsScriptOf(origin, script) /\ dump.last = origin.sequence
  BY <1>3 DEF DumpInv, IsSoFar
<1>4. CASE script' = script
  <2>1. PgTypeOK'
    BY <1>1, <1>2, <1>4 DEF PgTypeOK
  <2>2. asDumped # Missing => IsSoFar(origin, dump', script')
    BY <1>2, <1>3, NoneIsOver DEF IsSoFar
  <2>3. DumpInv'
    BY <1>1, <1>2, <1>3, <1>4, <2>2 DEF DumpInv
  <2> QED BY <2>1, <2>3
<1>5. ASSUME dump.step = "data", NEW t \in dump.left, NEW rows \in SUBSET origin.rows[t],
             script' = Append(script, [op |-> "torn", table |-> t, rows |-> rows])
      PROVE  PgTypeOK' /\ DumpInv'
  <2> DEFINE s == [op |-> "torn", table |-> t, rows |-> rows]
  <2>1. s \in Statement /\ s.op = "torn"
    <3>1. t \in Tables /\ origin.rows[t] \subseteq Row
      BY DEF PgTypeOK, Database
    <3> QED BY <3>1 DEF Statement
  <2>2. script' = Append(script, s)
    BY <1>5
  <2> HIDE DEF s
  <2>3. script' \in Seq(Statement)
    BY <1>s, <2>1, <2>2
  <2>4. PgTypeOK'
    BY <1>1, <1>2, <2>3 DEF PgTypeOK
  <2>5. ASSUME asDumped # Missing
        PROVE  IsScriptOf(origin, script') /\ IsSoFar(origin, dump', script')
    <3>1. Len(script) >= 1 /\ \A u \in origin.tables : Says(script, Len(script), TableOf(u))
      <4>1. "data" \in Passes
        BY DEF Passes
      <4> QED BY <1>5, <2>5, <4>1, SaidBefore
    <3>2. IsOf(origin, s)
      BY <2>1 DEF IsOf
    <3>3. IsScriptOf(origin, script')
      BY <1>s, <1>3, <2>1, <2>2, <2>5, <3>1, <3>2, AddedOne
    <3>4. IsSoFar(origin, dump', script')
      BY <1>2, <1>3, <2>5, NoneIsOver DEF IsSoFar
    <3> QED BY <3>3, <3>4
  <2>6. DumpInv'
    BY <1>1, <1>2, <2>5 DEF DumpInv
  <2> QED BY <2>4, <2>6
<1> QED BY <1>1, <1>4, <1>5


-----------------------------------------------------------------------------
(***************************************************************************)
(* A quiet dump, replayed.                                                 *)
(***************************************************************************)

\* What each kind of statement of a script is of.
LEMMA IsOfIs ==
  ASSUME NEW s \in Statement, NEW db, IsOf(db, s)
  PROVE  /\ s.op = "table" => s.table \in db.tables /\ s = TableOf(s.table)
         /\ s.op = "copy" => s.table \in db.tables /\ s.rows = db.rows[s.table]
         /\ s.op = "constraint" => s.constraint \in db.constraints
         /\ s.op = "index" => s.table \in db.indexes
         /\ s.op = "setval" => s.value = db.sequence
BY StatementType DEF IsOf, TableOf, CopyOf, ConstraintOf, IndexOf, ValueOf

\* Only what is of the database is said.
LEMMA SaidIsOf ==
  ASSUME NEW sql \in Seq(Statement), NEW db, NEW n \in Nat, n <= Len(sql), IsScriptOf(db, sql),
         NEW s, Says(sql, n, s)
  PROVE  IsOf(db, s) /\ s \in Statement
<1>1. PICK i \in 1 .. n : sql[i] = s
  BY DEF Says
<1>2. i \in 1 .. Len(sql)
  OBVIOUS
<1>3. sql[i] \in Statement
  BY <1>2
<1> QED BY <1>1, <1>2, <1>3 DEF IsScriptOf

LEMMA MadeNext ==
  ASSUME NEW of \in Database, of.sequence \in 0 .. MaxId,
         NEW sql \in Seq(Statement), IsScriptOf(of, sql),
         NEW n \in Nat, n + 1 \in 1 .. Len(sql), sql[n + 1].op # "torn",
         NEW db \in Database, HasMade(db, sql, n, of)
  PROVE  HasMade(Result(db, sql[n + 1]), sql, n + 1, of)
<1> DEFINE m == n + 1
           s == sql[m]
           r == Result(db, s)
<1>1. s \in Statement /\ IsOf(of, s) /\ IsInOrder(of, sql, m)
  BY DEF IsScriptOf
<1>2. \A x : Says(sql, m, x) <=> Says(sql, n, x) \/ s = x
  BY SaidByNext
<1>3. m # 0 /\ (m = 1 <=> n = 0)
  OBVIOUS
<1>4. s.op \in {"sequence", "table", "index", "copy", "constraint", "setval"}
  BY <1>1, StatementType
<1> HIDE DEF m, s
<1>r. /\ r \in Database
      /\ r.tables = IF s.op = "table" THEN db.tables \cup {s.table} ELSE db.tables
      /\ \A t \in Tables :
           r.rows[t] = IF s.op \in {"copy", "torn"} /\ t = s.table
                       THEN db.rows[t] \cup s.rows ELSE db.rows[t]
      /\ r.constraints = IF s.op = "constraint" THEN db.constraints \cup {s.constraint}
                         ELSE db.constraints
      /\ r.indexes = IF s.op = "index" THEN db.indexes \cup {s.table} ELSE db.indexes
      /\ r.sequence = IF s.op = "setval" THEN s.value
                      ELSE IF s.op = "sequence" /\ db.sequence = Missing THEN 0
                      ELSE db.sequence
  BY <1>1, ResultIs
<1> HIDE DEF r
<1>s. /\ \A t : s = TableOf(t) <=> s.op = "table" /\ s.table = t
      /\ \A t : s = CopyOf(of, t) <=> s.op = "copy" /\ s.table = t /\ s.rows = of.rows[t]
      /\ \A c : s = ConstraintOf(c) <=> s.op = "constraint" /\ s.constraint = c
      /\ \A t : s = IndexOf(t) <=> s.op = "index" /\ s.table = t
      /\ s = ValueOf(of) <=> s.op = "setval" /\ s.value = of.sequence
  BY <1>1, StatementsAre
<1>o. /\ s.op = "copy" => s.table \in of.tables /\ s.rows = of.rows[s.table]
      /\ s.op = "setval" => s.value = of.sequence
      /\ s.op \in {"table", "index", "copy"} => s.table \in Tables
      /\ s.op = "constraint" => s.constraint \in Constraint
  BY <1>1, IsOfIs, StatementType
<1>5. r.tables = {t \in Tables : Says(sql, m, TableOf(t))}
  BY <1>2, <1>r, <1>s, <1>o DEF HasMade
<1>6. ASSUME NEW t \in Tables
      PROVE  /\ r.rows[t] \in {{}, of.rows[t]}
             /\ Says(sql, m, CopyOf(of, t)) => r.rows[t] = of.rows[t]
  <2>1. /\ db.rows[t] \in {{}, of.rows[t]}
        /\ Says(sql, n, CopyOf(of, t)) => db.rows[t] = of.rows[t]
    BY DEF HasMade
  <2>2. CASE s.op = "copy" /\ s.table = t
    <3>1. r.rows[t] = db.rows[t] \cup of.rows[t]
      BY <1>r, <1>o, <2>2
    <3> QED BY <2>1, <3>1
  <2>3. CASE ~(s.op = "copy" /\ s.table = t)
    <3>1. r.rows[t] = db.rows[t]
      BY <1>r, <1>4, <2>3
    <3>2. Says(sql, m, CopyOf(of, t)) => Says(sql, n, CopyOf(of, t))
      BY <1>2, <1>s, <2>3
    <3> QED BY <2>1, <3>1, <3>2
  <2> QED BY <2>2, <2>3
<1>7. r.constraints = {c \in Constraint : Says(sql, m, ConstraintOf(c))}
  BY <1>2, <1>r, <1>s, <1>o DEF HasMade
<1>8. r.indexes = {t \in Tables : Says(sql, m, IndexOf(t))}
  BY <1>2, <1>r, <1>s, <1>o DEF HasMade
<1>9. r.sequence = IF Says(sql, m, ValueOf(of)) THEN of.sequence ELSE 0
  <2>1. s.op = "sequence" <=> m = 1
    BY <1>1 DEF IsInOrder, s
  <2>2. CASE n = 0
    <3>1. db.sequence = Missing /\ s.op = "sequence" /\ ~Says(sql, n, ValueOf(of))
      BY <1>3, <2>1, <2>2, NothingSaid DEF HasMade
    <3> QED BY <1>2, <1>r, <1>s, <3>1
  <2>3. CASE n # 0
    <3>1. s.op # "sequence"
          /\ db.sequence = IF Says(sql, n, ValueOf(of)) THEN of.sequence ELSE 0
      BY <1>3, <2>1, <2>3 DEF HasMade
    <3> QED BY <1>2, <1>r, <1>s, <1>o, <3>1
  <2> QED BY <2>2, <2>3
<1> HIDE DEF Says
<1>10. HasMade(r, sql, m, of)
  BY <1>3, <1>5, <1>6, <1>7, <1>8, <1>9 DEF HasMade
<1> QED BY <1>10 DEF m, s, r

\* No statement of a quiet dump that is whole is refused.
LEMMA NextIsAccepted ==
  ASSUME NEW of \in Database, of.sequence \in 0 .. MaxId, Consistent(of),
         \A t \in of.indexes : ~BacksConstraint(of, t),
         NEW sql \in Seq(Statement), IsScriptOf(of, sql),
         NEW n \in Nat, n + 1 \in 1 .. Len(sql), sql[n + 1].op # "torn",
         NEW db \in Database, HasMade(db, sql, n, of)
  PROVE  Accepts(db, sql[n + 1])
<1> DEFINE s == sql[n + 1]
<1>1. s \in Statement /\ IsOf(of, s) /\ IsInOrder(of, sql, n + 1) /\ (n + 1) - 1 = n
      /\ (n + 1 = 1 <=> n = 0)
  BY DEF IsScriptOf
<1> HIDE DEF s
<1>2. /\ s.op = "sequence" <=> n = 0
      /\ s.op = "table" => ~Says(sql, n, s)
      /\ s.op \notin {"sequence", "table"} => \A t \in of.tables : Says(sql, n, TableOf(t))
      /\ s.op \in {"constraint", "index", "setval"}
           => \A t \in of.tables : Says(sql, n, CopyOf(of, t))
      /\ s.op = "constraint" =>
           (s.constraint.type = "f" =>
              \A c \in of.constraints : c.type = "p" => Says(sql, n, ConstraintOf(c)))
  BY <1>1, Zenon DEF IsInOrder, s
<1>3. s.op \in {"sequence", "table", "index", "copy", "constraint", "setval"}
  BY <1>1, StatementType DEF s
<1>o. /\ s.op = "table" => s.table \in of.tables /\ s = TableOf(s.table)
      /\ s.op = "copy" => s.table \in of.tables
      /\ s.op = "constraint" => s.constraint \in of.constraints
      /\ s.op = "index" => s.table \in of.indexes
  BY <1>1, IsOfIs
<1>t. of.tables \subseteq Tables /\ of.constraints \subseteq Constraint
      /\ of.indexes \subseteq of.tables
  BY DEF Database, Consistent
<1>h. /\ \A t \in Tables : t \in db.tables <=> Says(sql, n, TableOf(t))
      /\ \A t \in Tables : Says(sql, n, CopyOf(of, t)) => db.rows[t] = of.rows[t]
      /\ \A c \in Constraint : c \in db.constraints <=> Says(sql, n, ConstraintOf(c))
      /\ n # 0 => db.sequence \in {0, of.sequence}
  BY DEF HasMade, Database
<1>4. s.op \notin {"sequence", "table"} => of.tables \subseteq db.tables
  BY <1>2, <1>t, <1>h
<1>5. CASE s.op \in {"sequence", "setval"}
  BY <1>5 DEF Accepts, s
<1>6. CASE s.op = "table"
  <2>1. s.table \notin db.tables
    BY <1>2, <1>6, <1>o, <1>t, <1>h
  <2>2. n # 0
    BY <1>2, <1>6
  <2>3. db.sequence \in 0 .. MaxId
    BY <1>h, <2>2, PgBoundAssumption
  <2>4. db.sequence # Missing
    BY <2>3, MissingAssumption
  <2> QED BY <1>6, <2>1, <2>4 DEF Accepts, s
<1>7. CASE s.op = "copy"
  BY <1>4, <1>7, <1>o DEF Accepts, s
<1>8. CASE s.op = "index"
  BY <1>4, <1>8, <1>o, <1>t DEF Accepts, s
<1>9. CASE s.op = "constraint"
  <2> DEFINE c == s.constraint
  <2>1. c \in of.constraints /\ c \in Constraint
    BY <1>9, <1>o, <1>t
  <2> HIDE DEF c
  <2>2. /\ c.on \in of.tables /\ c.to \in of.tables
        /\ c.type = "f" => IsUnique(of, c.to) /\ Resolves(of, c.on, c.to)
    BY <2>1 DEF Consistent
  <2>3. {c.on, c.to} \subseteq db.tables
    BY <1>4, <1>9, <2>2
  <2>4. ASSUME c.type = "f" PROVE IsUnique(db, c.to) /\ Resolves(db, c.on, c.to)
    <3>1. c.on \in Tables /\ c.to \in Tables /\ c = ForeignKey(c.on, c.to)
      BY <1>t, <2>1, <2>2, <2>4 DEF Constraint, ForeignKey, UniqueKey
    <3>2. c.to \notin of.indexes
      BY <2>1, <3>1 DEF BacksConstraint
    <3>3. UniqueKey(c.to) \in of.constraints /\ UniqueKey(c.to).type = "p"
      BY <2>2, <2>4, <3>2 DEF IsUnique, UniqueKey
    <3>4. Says(sql, n, ConstraintOf(UniqueKey(c.to)))
      BY <1>2, <1>9, <2>4, <3>3 DEF c
    <3>5. IsUnique(db, c.to)
      BY <1>t, <1>h, <3>3, <3>4 DEF IsUnique
    <3>6. db.rows[c.on] = of.rows[c.on] /\ db.rows[c.to] = of.rows[c.to]
      BY <1>2, <1>9, <1>h, <2>2, <3>1
    <3>7. Resolves(db, c.on, c.to)
      BY <2>2, <2>4, <3>6 DEF Resolves, Ids
    <3> QED BY <3>5, <3>7
  <2> QED BY <1>9, <2>3, <2>4 DEF Accepts, s, c
<1> QED BY <1>3, <1>5, <1>6, <1>7, <1>8, <1>9

\* The whole of it makes the database again.
LEMMA WholeScriptMakesIt ==
  ASSUME PgTypeOK, DumpInv, asDumped # Missing, dump.step = "done",
         \A t \in origin.indexes : ~BacksConstraint(origin, t),
         NEW db \in Database, HasMade(db, script, Len(script), origin)
  PROVE  db = origin
<1> DEFINE n == Len(script)
<1>1. /\ Consistent(origin) /\ IsScriptOf(origin, script) /\ n >= 1
      /\ \A q \in Passes, t \in origin.tables :
           TurnIsOver(dump, q, t) => \A s \in Due(origin, q, t) : Says(script, n, s)
      /\ origin.sequence # 0 => Says(script, n, ValueOf(origin))
  BY DEF DumpInv, IsSoFar
<1>2. /\ origin \in Database /\ script \in Seq(Statement) /\ n \in Nat /\ n <= n
      /\ origin.tables \subseteq Tables /\ origin.constraints \subseteq Constraint
      /\ origin.indexes \subseteq origin.tables
  BY <1>1 DEF PgTypeOK, Database, Consistent
<1>3. \A q \in Passes, t \in origin.tables : \A s \in Due(origin, q, t) : Says(script, n, s)
  BY <1>1, PassType DEF TurnIsOver
<1>p. {"ddl", "data", "keys", "others", "indexes"} \subseteq Passes
  BY DEF Passes
<1> HIDE DEF n
<1>4. \A s : Says(script, n, s) => IsOf(origin, s) /\ s \in Statement
  BY <1>1, <1>2, SaidIsOf DEF n
<1>h. /\ db.tables = {t \in Tables : Says(script, n, TableOf(t))}
      /\ \A t \in Tables : /\ db.rows[t] \in {{}, origin.rows[t]}
                           /\ Says(script, n, CopyOf(origin, t)) => db.rows[t] = origin.rows[t]
      /\ db.constraints = {c \in Constraint : Says(script, n, ConstraintOf(c))}
      /\ db.indexes = {t \in Tables : Says(script, n, IndexOf(t))}
      /\ db.sequence = IF n = 0 THEN Missing
                       ELSE IF Says(script, n, ValueOf(origin)) THEN origin.sequence ELSE 0
  BY DEF HasMade, n
<1>5. \A t \in Tables : Says(script, n, TableOf(t)) <=> t \in origin.tables
  <2>1. ASSUME NEW t \in origin.tables PROVE Says(script, n, TableOf(t))
    <3>1. TableOf(t) \in Due(origin, "ddl", t)
      BY DEF Due
    <3> QED BY <1>3, <1>p, <3>1
  <2>2. ASSUME NEW t \in Tables, Says(script, n, TableOf(t)) PROVE t \in origin.tables
    <3>1. TableOf(t).op = "table" /\ TableOf(t).table = t
      BY DEF TableOf
    <3> QED BY <1>4, <2>2, <3>1, IsOfIs
  <2> QED BY <2>1, <2>2
<1>6. ASSUME NEW t \in Tables PROVE db.rows[t] = origin.rows[t]
  <2>1. CASE t \in origin.tables
    <3>1. CopyOf(origin, t) \in Due(origin, "data", t)
      BY DEF Due
    <3> QED BY <1>3, <1>h, <1>p, <2>1, <3>1
  <2>2. CASE t \notin origin.tables
    <3>1. origin.rows[t] = {}
      BY <1>1, <2>2 DEF Consistent
    <3> QED BY <1>h, <3>1
  <2> QED BY <2>1, <2>2
<1>7. \A c \in Constraint : Says(script, n, ConstraintOf(c)) <=> c \in origin.constraints
  <2>1. ASSUME NEW c \in origin.constraints PROVE Says(script, n, ConstraintOf(c))
    <3>1. c.on \in origin.tables /\ c.type \in {"p", "f"}
      BY <1>1, <1>2, ConstraintType DEF Consistent
    <3>2. \/ ConstraintOf(c) \in Due(origin, "keys", c.on)
          \/ ConstraintOf(c) \in Due(origin, "others", c.on)
      BY <3>1 DEF Due
    <3> QED BY <1>3, <1>p, <3>1, <3>2
  <2>2. ASSUME NEW c \in Constraint, Says(script, n, ConstraintOf(c)) PROVE c \in origin.constraints
    <3>1. ConstraintOf(c).op = "constraint" /\ ConstraintOf(c).constraint = c
      BY DEF ConstraintOf
    <3> QED BY <1>4, <2>2, <3>1, IsOfIs
  <2> QED BY <1>2, <2>1, <2>2
<1>8. \A t \in Tables : Says(script, n, IndexOf(t)) <=> t \in origin.indexes
  <2>1. ASSUME NEW t \in origin.indexes PROVE Says(script, n, IndexOf(t))
    <3>1. IndexOf(t) \in Due(origin, "indexes", t) /\ t \in origin.tables
      BY <1>2 DEF Due
    <3> QED BY <1>3, <1>p, <3>1
  <2>2. ASSUME NEW t \in Tables, Says(script, n, IndexOf(t)) PROVE t \in origin.indexes
    <3>1. IndexOf(t).op = "index" /\ IndexOf(t).table = t
      BY DEF IndexOf
    <3> QED BY <1>4, <2>2, <3>1, IsOfIs
  <2> QED BY <2>1, <2>2
<1>9. n # 0
  BY <1>1, <1>2
<1>10. /\ db.tables = origin.tables /\ db.constraints = origin.constraints
       /\ db.indexes = origin.indexes
  BY <1>2, <1>5, <1>7, <1>8, <1>h
<1>11. db.sequence = origin.sequence
  BY <1>1, <1>9, <1>h
<1> QED BY <1>2, <1>6, <1>10, <1>11, SameDatabase


-----------------------------------------------------------------------------
(***************************************************************************)
(* The steps of the apply.                                                 *)
(***************************************************************************)

\* No apply is under way while the dump is.
LEMMA ApplyStays ==
  ASSUME ApplyInv, dump.step \notin {"done", "cut"}, apply' = apply
  PROVE  ApplyInv'
BY DEF ApplyInv

LEMMA RestoreKeepsDump ==
  ASSUME DumpInv, NEW a, Restore(a)
  PROVE  DumpInv' /\ apply' = a /\ UNCHANGED <<origin, dump, script, asDumped>>
BY DEF DumpInv, Restore

LEMMA EndedIs ==
  ASSUME PgTypeOK, NEW step \in {"success", "refused", "lost"}
  PROVE  /\ Ended(step).step = step /\ Ended(step).before = apply.before
         /\ Ended(step) \in [step : ApplySteps, at : Nat, before : Database \cup {Missing},
                             txn : Database \cup {Missing}, cut : BOOLEAN]
BY DEF Ended, PgTypeOK, ApplySteps

\* An apply that never began to restore has changed nothing that is judged.
LEMMA NeverBegan ==
  ASSUME ApplyInv, NEW step \in {"success", "refused", "lost"},
         apply'.step = step, apply'.before = Missing, dump' = dump, dump.step \in {"done", "cut"}
  PROVE  ApplyInv'
<1>1. Missing # EmptyDatabase
  BY MissingAssumption
<1>2. AllOrNothing'
  BY DEF AllOrNothing
<1>3. QuietDumpReloads'
  <2>1. ~Reloads'
    BY <1>1 DEF Reloads, EmptyDatabase
  <2> QED BY <2>1 DEF QuietDumpReloads
<1> QED BY <1>2, <1>3 DEF ApplyInv

LEMMA BeginApplyKeeps ==
  ASSUME PgTypeOK, DumpInv, ApplyInv, BeginApply
  PROVE  PgTypeOK' /\ DumpInv' /\ ApplyInv'
<1> DEFINE step == IF target' = Missing THEN "create" ELSE "begin"
<1>1. /\ dump.step \in {"done", "cut"} /\ apply.step = "idle" /\ target' \in Targets
      /\ Restore([apply EXCEPT !.step = step])
  BY DEF BeginApply
<1>2. step \in {"create", "begin"} /\ (step = "begin" => target' # Missing)
  OBVIOUS
<1> HIDE DEF step
<1>3. /\ DumpInv' /\ apply' = [apply EXCEPT !.step = step]
      /\ UNCHANGED <<origin, dump, script, asDumped>>
  BY <1>1, RestoreKeepsDump
<1>4. target' = Missing \/ target' \in Database
  BY <1>1, TargetsAre
<1>5. apply'.step = step /\ apply'.before = Missing /\ apply'.at = 1
  BY <1>1, <1>3 DEF PgTypeOK, ApplyInv
<1>6. PgTypeOK'
  BY <1>2, <1>3, <1>4 DEF PgTypeOK, ApplySteps
<1>7. ApplyInv'
  BY <1>1, <1>2, <1>3, <1>4, <1>5 DEF ApplyInv
<1> QED BY <1>3, <1>6, <1>7

LEMMA CreateDatabaseKeeps ==
  ASSUME PgTypeOK, DumpInv, ApplyInv, CreateDatabase
  PROVE  PgTypeOK' /\ DumpInv' /\ ApplyInv'
<1>1. apply.step = "create" /\ dump.step \in {"done", "cut"}
      /\ apply.before = Missing /\ apply.at = 1
  BY DEF CreateDatabase, ApplyInv
<1>2. CASE target = Missing
  <2>1. Restore([apply EXCEPT !.step = "begin"]) /\ target' = EmptyDatabase
    BY <1>2 DEF CreateDatabase
  <2>2. /\ DumpInv' /\ apply' = [apply EXCEPT !.step = "begin"]
        /\ UNCHANGED <<origin, dump, script, asDumped>>
    BY <2>1, RestoreKeepsDump
  <2>3. apply'.step = "begin" /\ apply'.before = Missing /\ apply'.at = 1
    BY <1>1, <2>2 DEF PgTypeOK
  <2>4. target' \in Database
    BY <2>1, EmptyIs
  <2>5. PgTypeOK'
    BY <2>2, <2>4 DEF PgTypeOK, ApplySteps
  <2>6. ApplyInv'
    BY <1>1, <2>2, <2>3, <2>4 DEF ApplyInv
  <2> QED BY <2>2, <2>5, <2>6
<1>3. CASE target # Missing
  <2>1. Restore(Ended("refused")) /\ target' = target
    BY <1>3 DEF CreateDatabase
  <2>2. /\ DumpInv' /\ apply' = Ended("refused") /\ UNCHANGED <<origin, dump, script, asDumped>>
    BY <2>1, RestoreKeepsDump
  <2>3. PgTypeOK' /\ apply'.step = "refused" /\ apply'.before = Missing
    BY <1>1, <2>1, <2>2, EndedIs DEF PgTypeOK
  <2>4. ApplyInv'
    BY <1>1, <2>2, <2>3, NeverBegan
  <2> QED BY <2>2, <2>3, <2>4
<1> QED BY <1>2, <1>3

LEMMA OthersCreateKeeps ==
  ASSUME PgTypeOK, DumpInv, ApplyInv, OthersCreate
  PROVE  PgTypeOK' /\ DumpInv' /\ ApplyInv'
<1>1. /\ apply.step = "create" /\ target' = EmptyDatabase
      /\ UNCHANGED <<origin, dump, script, asDumped, apply>>
  BY DEF OthersCreate
<1>2. PgTypeOK'
  BY <1>1, EmptyIs DEF PgTypeOK
<1>3. DumpInv'
  BY <1>1 DEF DumpInv
<1>4. ApplyInv'
  BY <1>1 DEF ApplyInv
<1> QED BY <1>2, <1>3, <1>4

\* What a script of n statements makes, statement by statement.
LEMMA ScriptSteps ==
  ASSUME PgTypeOK, NEW before
  PROVE  /\ After(before, script, 0) = before
         /\ \A i \in 1 .. Len(script) :
              After(before, script, i) = Result(After(before, script, i - 1), script[i])
         /\ FoldLeft(Result, before, script) = After(before, script, Len(script))
<1>1. Len(script) \in Nat /\ DOMAIN script = 1 .. Len(script)
  BY DEF PgTypeOK
<1> QED BY <1>1, AfterSteps

\* What the first n of its statements make.
LEMMA BeginningMakes ==
  ASSUME PgTypeOK, NEW before, NEW n \in 0 .. Len(script)
  PROVE  FoldLeft(Result, before, SubSeq(script, 1, n)) = After(before, script, n)
<1> DEFINE first == SubSeq(script, 1, n)
           Differ == {k \in 0 .. n : After(before, first, k) # After(before, script, k)}
<1>1. /\ script \in Seq(Statement) /\ Len(script) \in Nat /\ n \in Nat /\ n <= Len(script)
      /\ first \in Seq(Statement) /\ Len(first) = n
      /\ \A i \in 1 .. n : first[i] = script[i]
  BY DEF PgTypeOK
<1> HIDE DEF first
<1>2. n \in Nat /\ DOMAIN first = 1 .. n
  BY <1>1
<1>3. /\ After(before, first, 0) = before
      /\ \A i \in 1 .. n : After(before, first, i) = Result(After(before, first, i - 1), first[i])
      /\ FoldLeft(Result, before, first) = After(before, first, n)
  BY <1>2, AfterSteps
<1>4. /\ After(before, script, 0) = before
      /\ \A i \in 1 .. n : After(before, script, i) = Result(After(before, script, i - 1), script[i])
  <2>1. 1 .. n \subseteq 1 .. Len(script)
    BY <1>1
  <2> QED BY <2>1, ScriptSteps
<1>5. Differ = {}
  <2> SUFFICES ASSUME Differ # {} PROVE FALSE
    OBVIOUS
  <2>1. Differ \subseteq Nat
    BY <1>1
  <2>2. PICK k \in Differ : \A j \in Differ : k <= j
    BY <2>1, LeastIsIn
  <2>3. /\ k \in 0 .. n /\ k # 0 /\ After(before, first, k) # After(before, script, k)
    BY <1>3, <1>4, <2>2
  <2>4. k \in 1 .. n /\ k - 1 \in 0 .. n /\ ~(k <= k - 1)
    BY <1>1, <2>3
  <2>5. After(before, first, k - 1) = After(before, script, k - 1)
    BY <2>2, <2>4
  <2> QED BY <1>1, <1>3, <1>4, <2>3, <2>4, <2>5
<1>6. After(before, first, n) = After(before, script, n)
  BY <1>1, <1>5
<1> QED BY <1>3, <1>6 DEF first

LEMMA BeginRestoreKeeps ==
  ASSUME PgTypeOK, DumpInv, ApplyInv, BeginRestore
  PROVE  PgTypeOK' /\ DumpInv' /\ ApplyInv'
<1>1. /\ apply.step = "begin" /\ target' = target
      /\ Restore([apply EXCEPT !.step = "replay", !.before = target, !.txn = target])
  BY DEF BeginRestore
<1>2. /\ DumpInv' /\ apply' = [apply EXCEPT !.step = "replay", !.before = target, !.txn = target]
      /\ UNCHANGED <<origin, dump, script, asDumped>>
  BY <1>1, RestoreKeepsDump
<1>3. target \in Database /\ dump.step \in {"done", "cut"} /\ apply.at = 1
  BY <1>1 DEF ApplyInv
<1>4. /\ apply'.step = "replay" /\ apply'.before = target /\ apply'.txn = target
      /\ apply'.at = 1
  BY <1>2, <1>3 DEF PgTypeOK
<1>5. PgTypeOK'
  BY <1>1, <1>2, <1>3 DEF PgTypeOK, ApplySteps
<1>6. 1 \in 1 .. (Len(script) + 1) /\ 1 - 1 = 0
  <2>1. Len(script) \in Nat
    BY DEF PgTypeOK
  <2> QED BY <2>1
<1>7. After(target, script, 0) = target
  BY ScriptSteps
<1>8. Reloads' => HasMade(target, script, 0, asDumped)
  <2> SUFFICES ASSUME target = EmptyDatabase PROVE HasMade(target, script, 0, asDumped)
    BY <1>4 DEF Reloads, EmptyDatabase
  <2> QED BY EmptyIs, NothingSaid DEF HasMade
<1>9. Undone(target, target)
  BY DEF Undone
<1>10. ApplyInv'
  BY <1>1, <1>2, <1>3, <1>4, <1>6, <1>7, <1>8, <1>9, Zenon DEF ApplyInv
<1> QED BY <1>2, <1>5, <1>10

\* A sequence that was there is all that outlives a transaction.
LEMMA OutlivesIs ==
  ASSUME NEW s \in Statement, NEW before \in Database, target \in Database, Undone(target, before)
  PROVE  Outlives(s) \in Database /\ Undone(Outlives(s), before)
<1>1. CASE s.op = "setval" /\ target.sequence # Missing
  <2> DEFINE v == s.value
             new == [target EXCEPT !.sequence = v]
  <2>1. v \in 0 .. MaxId /\ v # Missing
    BY <1>1, StatementType, MissingAssumption
  <2>2. Outlives(s) = new
    BY <1>1 DEF Outlives
  <2> HIDE DEF v
  <2>3. new \in Database /\ new.sequence = v
    BY <2>1 DEF Database
  <2>4. before.sequence # Missing
    BY <1>1 DEF Undone
  <2>5. [target EXCEPT !.sequence = before.sequence] = before
    <3>1. CASE target = before
      BY <3>1 DEF Database
    <3>2. CASE target # before
      BY <3>2 DEF Undone
    <3> QED BY <3>1, <3>2
  <2>6. [new EXCEPT !.sequence = before.sequence] = [target EXCEPT !.sequence = before.sequence]
    BY DEF Database
  <2> HIDE DEF new
  <2>7. Undone(new, before)
    BY <2>1, <2>3, <2>4, <2>5, <2>6 DEF Undone
  <2> QED BY <2>2, <2>3, <2>7
<1>2. CASE ~(s.op = "setval" /\ target.sequence # Missing)
  BY <1>2 DEF Outlives
<1> QED BY <1>1, <1>2

LEMMA UndoneIsNothing ==
  ASSUME Undone(target, apply.before)
  PROVE  AllOrNothing
BY DEF Undone, AllOrNothing

LEMMA UndoneStays ==
  ASSUME Undone(target', apply'.before)
  PROVE  AllOrNothing'
BY DEF Undone, AllOrNothing

\* A dump during which nobody wrote is of the database as it is.
LEMMA QuietIs ==
  ASSUME PgTypeOK, DumpInv, Reloads
  PROVE  /\ asDumped = origin /\ origin \in Database /\ origin.sequence \in 0 .. MaxId
         /\ Consistent(origin) /\ IsScriptOf(origin, script) /\ script \in Seq(Statement)
         /\ dump.step # "cut" => \A j \in 1 .. Len(script) : script[j].op # "torn"
BY DEF Reloads, DumpInv, IsSoFar, PgTypeOK


LEMMA ReplayKeeps ==
  ASSUME PgTypeOK, DumpInv, ApplyInv, Replay
  PROVE  PgTypeOK' /\ DumpInv' /\ ApplyInv'
<1> DEFINE at == apply.at
           n == at - 1
           s == script[at]
           before == apply.before
           r == Result(apply.txn, s)
<1>1. apply.step = "replay" /\ at <= Len(script)
  BY DEF Replay
<1>2. /\ target \in Database /\ before \in Database /\ apply.txn \in Database
      /\ at \in 1 .. (Len(script) + 1) /\ Undone(target, before)
      /\ apply.txn = After(before, script, n)
      /\ Reloads => HasMade(apply.txn, script, n, asDumped)
      /\ dump.step \in {"done", "cut"}
  BY <1>1 DEF ApplyInv
<1>3. /\ script \in Seq(Statement) /\ Len(script) \in Nat /\ at \in 1 .. Len(script)
      /\ n \in Nat /\ n + 1 = at /\ at + 1 \in 1 .. (Len(script) + 1) /\ (at + 1) - 1 = at
      /\ at + 1 \in Nat
  BY <1>1, <1>2 DEF PgTypeOK
<1>4. s \in Statement
  BY <1>3
<1>5. r \in Database /\ r = After(before, script, at)
  <2>1. r \in Database
    BY <1>2, <1>4, ResultIs
  <2>2. After(before, script, at) = Result(After(before, script, at - 1), script[at])
    BY <1>3, ScriptSteps
  <2> QED BY <1>2, <2>1, <2>2
<1> HIDE DEF n, s, before, r
<1>6. CASE Accepts(apply.txn, s)
  <2> DEFINE next == at + 1
  <2>1. /\ Restore([apply EXCEPT !.at = next, !.txn = r]) /\ target' = Outlives(s)
    BY <1>6 DEF Replay, s, r
  <2>2. next \in Nat /\ next \in 1 .. (Len(script) + 1) /\ next - 1 = at
    BY <1>3
  <2> HIDE DEF next
  <2>3. /\ DumpInv' /\ apply' = [apply EXCEPT !.at = next, !.txn = r]
        /\ UNCHANGED <<origin, dump, script, asDumped>>
    BY <2>1, RestoreKeepsDump
  <2>4. /\ apply'.step = "replay" /\ apply'.at = next /\ apply'.txn = r
        /\ apply'.before = before
    BY <1>1, <2>3 DEF PgTypeOK, before
  <2>5. target' \in Database /\ Undone(target', before)
    BY <1>2, <1>4, <2>1, OutlivesIs
  <2>6. PgTypeOK'
    BY <1>5, <2>2, <2>3, <2>5 DEF PgTypeOK
  <2>7. Reloads' => HasMade(r, script, at, asDumped)
    <3> SUFFICES ASSUME Reloads' PROVE HasMade(r, script, at, asDumped)
      OBVIOUS
    <3>1. Reloads
      BY <2>3, <2>4 DEF Reloads, EmptyDatabase, before
    <3>2. /\ asDumped = origin /\ origin \in Database /\ origin.sequence \in 0 .. MaxId
          /\ IsScriptOf(origin, script)
      BY <3>1, QuietIs
    <3>3. script[n + 1].op # "torn"
      BY <1>3, <1>6 DEF Accepts, s
    <3>4. HasMade(Result(apply.txn, script[n + 1]), script, n + 1, origin)
      BY <1>2, <1>3, <3>1, <3>2, <3>3, MadeNext
    <3> QED BY <1>3, <3>2, <3>4 DEF r, s
  <2>8. ApplyInv'
    <3>1. {target', before, r} \subseteq Database
      BY <1>2, <1>5, <2>5
    <3> QED BY <1>2, <1>5, <2>2, <2>3, <2>4, <2>5, <2>7, <3>1, Zenon DEF ApplyInv
  <2> QED BY <2>3, <2>6, <2>8
<1>7. CASE ~Accepts(apply.txn, s)
  <2>1. Restore(Ended("refused")) /\ target' = target
    BY <1>7 DEF Replay, s
  <2>2. /\ DumpInv' /\ apply' = Ended("refused") /\ UNCHANGED <<origin, dump, script, asDumped>>
    BY <2>1, RestoreKeepsDump
  <2>3. PgTypeOK' /\ apply'.step = "refused" /\ apply'.before = before
    BY <2>1, <2>2, EndedIs DEF PgTypeOK, before
  <2>4. AllOrNothing'
    BY <1>2, <2>1, <2>3, UndoneStays
  <2>5. QuietDumpReloads'
    <3> SUFFICES ASSUME Reloads', dump.step = "done",
                        \A t \in asDumped.indexes : ~BacksConstraint(asDumped, t)
                 PROVE  FALSE
      BY <2>2, <2>3 DEF QuietDumpReloads, BacksConstraint
    <3>1. Reloads
      BY <2>2, <2>3 DEF Reloads, EmptyDatabase, before
    <3>2. /\ asDumped = origin /\ origin \in Database /\ origin.sequence \in 0 .. MaxId
          /\ Consistent(origin) /\ IsScriptOf(origin, script)
          /\ \A j \in 1 .. Len(script) : script[j].op # "torn"
      BY <3>1, QuietIs
    <3>3. Accepts(apply.txn, script[n + 1])
      BY <1>2, <1>3, <3>1, <3>2, NextIsAccepted
    <3> QED BY <1>3, <1>7, <3>3 DEF s
  <2>6. ApplyInv'
    BY <1>2, <2>2, <2>3, <2>4, <2>5 DEF ApplyInv
  <2> QED BY <2>2, <2>3, <2>6
<1> QED BY <1>6, <1>7

LEMMA ReadFailsKeeps ==
  ASSUME PgTypeOK, DumpInv, ApplyInv, ReadFails
  PROVE  PgTypeOK' /\ DumpInv' /\ ApplyInv'
<1>1. apply.step = "replay" /\ target' = target
  BY DEF ReadFails
<1>2. /\ {target, apply.before, apply.txn} \subseteq Database
      /\ apply.at \in 1 .. (Len(script) + 1)
      /\ Undone(target, apply.before)
      /\ apply.txn = After(apply.before, script, apply.at - 1)
      /\ Reloads => HasMade(apply.txn, script, apply.at - 1, asDumped)
      /\ dump.step \in {"done", "cut"}
  BY <1>1 DEF ApplyInv
<1>3. CASE Restore([apply EXCEPT !.step = "stopped", !.cut = TRUE])
  <2>1. /\ DumpInv' /\ apply' = [apply EXCEPT !.step = "stopped", !.cut = TRUE]
        /\ UNCHANGED <<origin, dump, script, asDumped>>
    BY <1>3, RestoreKeepsDump
  <2>2. /\ apply'.step = "stopped" /\ apply'.cut /\ apply'.before = apply.before
        /\ apply'.at = apply.at /\ apply'.txn = apply.txn
    BY <2>1 DEF PgTypeOK
  <2>3. PgTypeOK'
    BY <1>1, <2>1 DEF PgTypeOK, ApplySteps
  <2>4. Reloads' => Reloads
    BY <2>1, <2>2 DEF Reloads, EmptyDatabase
  <2>5. ApplyInv'
    BY <1>1, <1>2, <2>1, <2>2, <2>4 DEF ApplyInv
  <2> QED BY <2>1, <2>3, <2>5
<1>4. CASE Restore([Ended("refused") EXCEPT !.cut = TRUE])
  <2> DEFINE old == Ended("refused")
  <2>1. /\ DumpInv' /\ apply' = [old EXCEPT !.cut = TRUE]
        /\ UNCHANGED <<origin, dump, script, asDumped>>
    BY <1>4, RestoreKeepsDump
  <2>2. /\ old.step = "refused" /\ old.before = apply.before
        /\ old \in [step : ApplySteps, at : Nat, before : Database \cup {Missing},
                    txn : Database \cup {Missing}, cut : BOOLEAN]
    BY EndedIs
  <2> HIDE DEF old
  <2>3. apply'.step = "refused" /\ apply'.before = apply.before /\ apply'.cut
    BY <2>1, <2>2
  <2>4. PgTypeOK'
    BY <1>1, <2>1, <2>2 DEF PgTypeOK
  <2>5. AllOrNothing'
    BY <1>1, <1>2, <2>3, UndoneStays
  <2>6. QuietDumpReloads'
    BY <2>3 DEF QuietDumpReloads
  <2>7. ApplyInv'
    BY <1>2, <2>1, <2>3, <2>5, <2>6 DEF ApplyInv
  <2> QED BY <2>1, <2>4, <2>7
<1> QED BY <1>3, <1>4 DEF ReadFails

LEMMA CommitKeeps ==
  ASSUME PgTypeOK, DumpInv, ApplyInv, Commit
  PROVE  PgTypeOK' /\ DumpInv' /\ ApplyInv'
<1> DEFINE n == apply.at - 1
<1>1. /\ apply.step = "stopped" \/ (apply.step = "replay" /\ apply.at > Len(script))
      /\ Restore(Ended("success")) /\ target' = apply.txn
  BY DEF Commit, ReadToTheEnd
<1>2. /\ apply.before \in Database /\ apply.txn \in Database
      /\ apply.at \in 1 .. (Len(script) + 1) /\ apply.cut \in BOOLEAN
      /\ apply.step = "stopped" => apply.cut
      /\ apply.txn = After(apply.before, script, n)
      /\ Reloads => HasMade(apply.txn, script, n, asDumped)
      /\ dump.step \in {"done", "cut"}
  BY <1>1 DEF ApplyInv, PgTypeOK
<1>3. /\ n \in 0 .. Len(script) /\ Len(script) \in 0 .. Len(script)
      /\ ~apply.cut => n = Len(script)
  <2>1. Len(script) \in Nat
    BY DEF PgTypeOK
  <2> QED BY <1>1, <1>2, <2>1
<1> HIDE DEF n
<1>4. /\ DumpInv' /\ apply' = Ended("success") /\ UNCHANGED <<origin, dump, script, asDumped>>
  BY <1>1, RestoreKeepsDump
<1>5. /\ PgTypeOK' /\ apply'.step = "success" /\ apply'.before = apply.before
      /\ apply'.cut = apply.cut
  <2>1. Ended("success").cut = apply.cut
    BY DEF Ended, PgTypeOK
  <2> QED BY <1>1, <1>2, <1>4, <2>1, EndedIs DEF PgTypeOK
<1>6. target' = FoldLeft(Result, apply.before, SubSeq(script, 1, n))
  BY <1>1, <1>2, <1>3, BeginningMakes
<1>7. AllOrNothing'
  <2>1. \E k \in IF apply.cut THEN 0 .. Len(script) ELSE {Len(script)} :
          target' = FoldLeft(Result, apply.before, SubSeq(script, 1, k))
    BY <1>3, <1>6
  <2> QED BY <1>4, <1>5, <2>1 DEF AllOrNothing
<1>8. QuietDumpReloads'
  <2> SUFFICES ASSUME Reloads' PROVE QuietDumpReloads'
    BY DEF QuietDumpReloads
  <2>1. Reloads
    BY <1>4, <1>5 DEF Reloads, EmptyDatabase
  <2>2. asDumped = origin /\ asDumped # Missing /\ HasMade(apply.txn, script, n, origin)
    BY <1>2, <2>1, QuietIs DEF Reloads
  <2>3. \A t \in Tables : apply.txn.rows[t] \in {{}, origin.rows[t]}
    BY <2>2 DEF HasMade
  <2>4. /\ dump.step = "done" /\ ~apply.cut
        /\ \A t \in origin.indexes : ~BacksConstraint(origin, t)
        => apply.txn = origin
    <3> SUFFICES ASSUME ~apply.cut PROVE
          dump.step = "done" /\ (\A t \in origin.indexes : ~BacksConstraint(origin, t))
            => apply.txn = origin
      OBVIOUS
    <3>1. HasMade(apply.txn, script, Len(script), origin)
      BY <1>3, <2>2
    <3> QED BY <1>2, <2>2, <3>1, WholeScriptMakesIt
  <2> QED BY <1>1, <1>4, <1>5, <2>2, <2>3, <2>4 DEF QuietDumpReloads, BacksConstraint
<1>9. ApplyInv'
  BY <1>2, <1>4, <1>5, <1>7, <1>8 DEF ApplyInv
<1> QED BY <1>4, <1>5, <1>9

LEMMA LoseConnectionKeeps ==
  ASSUME PgTypeOK, DumpInv, ApplyInv, LoseConnection
  PROVE  PgTypeOK' /\ DumpInv' /\ ApplyInv'
<1>1. /\ apply.step \in {"create", "begin", "replay", "stopped"} /\ Restore(Ended("lost"))
      /\ \/ target' = target
         \/ ReadToTheEnd /\ target' = apply.txn
  BY DEF LoseConnection
<1>2. /\ DumpInv' /\ apply' = Ended("lost") /\ UNCHANGED <<origin, dump, script, asDumped>>
      /\ dump.step \in {"done", "cut"}
  BY <1>1, RestoreKeepsDump DEF ApplyInv
<1>3. apply'.step = "lost" /\ apply'.before = apply.before /\ apply'.cut = apply.cut
  <2>1. Ended("lost").cut = apply.cut
    BY DEF Ended, PgTypeOK
  <2> QED BY <1>2, <2>1, EndedIs
<1>4. target' \in Database \cup {Missing}
  BY <1>1 DEF PgTypeOK, ApplyInv, ReadToTheEnd
<1>5. PgTypeOK'
  BY <1>2, <1>4, EndedIs DEF PgTypeOK
<1>6. CASE apply.step \in {"create", "begin"}
  <2>1. apply.before = Missing
    BY <1>6 DEF ApplyInv
  <2> QED BY <1>2, <1>3, <1>5, <2>1, NeverBegan
<1>7. CASE apply.step \in {"replay", "stopped"}
  <2> DEFINE n == apply.at - 1
  <2>1. /\ apply.at \in 1 .. (Len(script) + 1) /\ Undone(target, apply.before)
        /\ apply.txn = After(apply.before, script, n) /\ apply.cut \in BOOLEAN
        /\ apply.step = "stopped" => apply.cut
    BY <1>7 DEF ApplyInv, PgTypeOK
  <2>2. AllOrNothing'
    <3>1. CASE target' = target
      BY <1>3, <2>1, <3>1, UndoneStays
    <3>2. CASE ReadToTheEnd /\ target' = apply.txn
      <4>1. /\ n \in 0 .. Len(script) /\ Len(script) \in 0 .. Len(script)
            /\ ~apply.cut => n = Len(script)
        <5>1. Len(script) \in Nat
          BY DEF PgTypeOK
        <5> QED BY <2>1, <3>2, <5>1 DEF ReadToTheEnd
      <4> HIDE DEF n
      <4>2. target' = FoldLeft(Result, apply.before, SubSeq(script, 1, n))
        BY <2>1, <3>2, <4>1, BeginningMakes
      <4>3. \E k \in IF apply.cut THEN 0 .. Len(script) ELSE {Len(script)} :
              target' = FoldLeft(Result, apply.before, SubSeq(script, 1, k))
        BY <2>1, <4>1, <4>2
      <4> QED BY <1>2, <1>3, <4>3 DEF AllOrNothing
    <3> QED BY <1>1, <3>1, <3>2
  <2>3. QuietDumpReloads'
    <3>1. apply'.step # "refused" /\ apply'.step # "success"
      BY <1>3
    <3>2. dump.step = "cut" \/ dump.step = "done"
      BY <1>2
    <3> QED BY <3>1 DEF QuietDumpReloads
  <2>4. ApplyInv'
    BY <1>2, <1>3, <2>2, <2>3 DEF ApplyInv
  <2> QED BY <1>2, <1>5, <2>4
<1> QED BY <1>1, <1>6, <1>7

-----------------------------------------------------------------------------
(***************************************************************************)
(* The theorems about dumps and restores.                                  *)
(***************************************************************************)

LEMMA PgInvInit == ASSUME PgInit PROVE PgInv
<1>1. /\ origin \in Database /\ origin.sequence \in 0 .. MaxId /\ Consistent(origin)
  BY DesignsAre DEF PgInit
<1>2. /\ dump = [step |-> "idle", last |-> 0, list |-> {}, left |-> {}]
      /\ script = <<>> /\ asDumped = Missing /\ target = Missing
      /\ apply = [step |-> "idle", at |-> 1, before |-> Missing, txn |-> Missing, cut |-> FALSE]
  BY DEF PgInit
<1>3. 0 \in 0 .. MaxId
  BY PgBoundAssumption
<1>4. PgTypeOK
  BY <1>1, <1>2, <1>3 DEF PgTypeOK, ApplySteps
<1>5. DumpInv
  BY <1>1, <1>2 DEF DumpInv
<1>6. ApplyInv
  BY <1>2 DEF ApplyInv
<1> QED BY <1>4, <1>5, <1>6 DEF PgInv

LEMMA PgInvNext == ASSUME PgInv, [PgNext]_pgVars PROVE PgInv'
<1>1. PgTypeOK /\ DumpInv /\ ApplyInv
  BY DEF PgInv
<1>2. ASSUME NEW t \in Tables, InsertRow(t) PROVE PgInv'
  <2>1. dump.step \notin {"done", "cut"} /\ apply' = apply
    BY <1>2 DEF InsertRow, ChangesTo, Dumping
  <2> QED BY <1>1, <1>2, <2>1, InsertRowKeeps, ApplyStays DEF PgInv
<1>3. ASSUME NEW t \in Tables, DropTable(t) PROVE PgInv'
  <2>1. dump.step \notin {"done", "cut"} /\ apply' = apply
    BY <1>3 DEF DropTable, ChangesTo, Dumping
  <2> QED BY <1>1, <1>3, <2>1, DropTableKeeps, ApplyStays DEF PgInv
<1>4. ASSUME NEW t \in Tables, DumpDDL(t) PROVE PgInv'
  <2>1. dump.step \notin {"done", "cut"} /\ apply' = apply
    BY <1>4 DEF DumpDDL, Emit
  <2> QED BY <1>1, <1>4, <2>1, DumpDDLKeeps, ApplyStays DEF PgInv
<1>5. ASSUME NEW t \in Tables, DumpData(t) PROVE PgInv'
  <2>1. dump.step \notin {"done", "cut"} /\ apply' = apply
    BY <1>5 DEF DumpData, Emit
  <2> QED BY <1>1, <1>5, <2>1, DumpDataKeeps, ApplyStays DEF PgInv
<1>6. ASSUME NEW t \in Tables, DumpConstraints(t) PROVE PgInv'
  <2>1. dump.step \notin {"done", "cut"} /\ apply' = apply
    BY <1>6 DEF DumpConstraints, Emit
  <2> QED BY <1>1, <1>6, <2>1, DumpConstraintsKeeps, ApplyStays DEF PgInv
<1>7. ASSUME NEW t \in Tables, DumpIndexes(t) PROVE PgInv'
  <2>1. dump.step \notin {"done", "cut"} /\ apply' = apply
    BY <1>7 DEF DumpIndexes, Emit
  <2> QED BY <1>1, <1>7, <2>1, DumpIndexesKeeps, ApplyStays DEF PgInv
<1>8. CASE BeginDump
  <2>1. dump.step \notin {"done", "cut"} /\ apply' = apply
    BY <1>8 DEF BeginDump
  <2> QED BY <1>1, <1>8, <2>1, BeginDumpKeeps, ApplyStays DEF PgInv
<1>9. CASE ListTables
  <2>1. dump.step \notin {"done", "cut"} /\ apply' = apply
    BY <1>9 DEF ListTables
  <2> QED BY <1>1, <1>9, <2>1, ListTablesKeeps, ApplyStays DEF PgInv
<1>10. CASE DumpValues
  <2>1. dump.step \notin {"done", "cut"} /\ apply' = apply
    BY <1>10 DEF DumpValues
  <2> QED BY <1>1, <1>10, <2>1, DumpValuesKeeps, ApplyStays DEF PgInv
<1>11. CASE DumpFails
  <2>1. dump.step \notin {"done", "cut"} /\ apply' = apply
    BY <1>11 DEF DumpFails, Dumping
  <2> QED BY <1>1, <1>11, <2>1, DumpFailsKeeps, ApplyStays DEF PgInv
<1>12. CASE DumpIsCut
  <2>1. dump.step \notin {"done", "cut"} /\ apply' = apply
    BY <1>12 DEF DumpIsCut, Dumping
  <2> QED BY <1>1, <1>12, <2>1, DumpIsCutKeeps, ApplyStays DEF PgInv
<1>13. CASE BeginApply
  BY <1>1, <1>13, BeginApplyKeeps DEF PgInv
<1>14. CASE CreateDatabase
  BY <1>1, <1>14, CreateDatabaseKeeps DEF PgInv
<1>15. CASE OthersCreate
  BY <1>1, <1>15, OthersCreateKeeps DEF PgInv
<1>16. CASE BeginRestore
  BY <1>1, <1>16, BeginRestoreKeeps DEF PgInv
<1>17. CASE Replay
  BY <1>1, <1>17, ReplayKeeps DEF PgInv
<1>18. CASE ReadFails
  BY <1>1, <1>18, ReadFailsKeeps DEF PgInv
<1>19. CASE Commit
  BY <1>1, <1>19, CommitKeeps DEF PgInv
<1>20. CASE LoseConnection
  BY <1>1, <1>20, LoseConnectionKeeps DEF PgInv
<1>21. CASE UNCHANGED pgVars
  <2>1. UNCHANGED <<origin, dump, script, asDumped, target, apply>>
    BY <1>21 DEF pgVars
  <2>2. AllOrNothing => AllOrNothing'
    BY <2>1 DEF AllOrNothing
  <2>3. QuietDumpReloads => QuietDumpReloads'
    BY <2>1 DEF QuietDumpReloads, Reloads, EmptyDatabase, BacksConstraint, ForeignKey
  <2>4. PgTypeOK' /\ DumpInv'
    BY <1>1, <2>1 DEF PgTypeOK, DumpInv
  <2>5. ApplyInv'
    BY <1>1, <2>1, <2>2, <2>3 DEF ApplyInv, Reloads, EmptyDatabase
  <2> QED BY <2>4, <2>5 DEF PgInv
<1> QED BY <1>2, <1>3, <1>4, <1>5, <1>6, <1>7, <1>8, <1>9, <1>10, <1>11, <1>12, <1>13, <1>14,
           <1>15, <1>16, <1>17, <1>18, <1>19, <1>20, <1>21 DEF PgNext

\* The steps of postgres_dump.go and postgres_restore.go keep what they rely on, and with
\* it every type (PgInv: the script is in an order that can be replayed, and says all of
\* the database that the dump has been through; the transaction holds what was replayed).
THEOREM PgInvariant == PgSpec => []PgInv
<1>1. PgInit => PgInv
  BY PgInvInit
<1>2. PgInv /\ [PgNext]_pgVars => PgInv'
  BY PgInvNext
<1> QED BY <1>1, <1>2, PTL DEF PgSpec

\* Whatever fails, a restore (postgres_restore.go) whose file is read to its end leaves the
\* database as it was or as the whole script makes it, the value of a sequence apart.  One
\* whose reading fails may leave what the statements before make of it: that is all the
\* code gives, and no statement is left half done.
THEOREM RestoreIsAllOrNothing == PgSpec => []AllOrNothing
<1>1. ASSUME PgInv PROVE AllOrNothing
  <2>1. PgTypeOK /\ ApplyInv
    BY <1>1 DEF PgInv
  <2>2. apply.step \in ApplySteps
    BY <2>1 DEF PgTypeOK
  <2>3. CASE apply.step \in {"idle", "create", "begin"}
    BY <2>1, <2>3 DEF ApplyInv, AllOrNothing
  <2>4. CASE apply.step \in {"replay", "stopped"}
    BY <2>1, <2>4, UndoneIsNothing DEF ApplyInv
  <2>5. CASE apply.step \in {"success", "refused", "lost"}
    BY <2>1, <2>5 DEF ApplyInv
  <2> QED BY <2>2, <2>3, <2>4, <2>5 DEF ApplySteps
<1> QED BY <1>1, PgInvariant, PTL

\* A dump during which nobody wrote goes through, into an empty database, to the last
\* statement, and makes the database that it is of; one that was cut short, or is read in
\* part, leaves no table with part of its rows.
THEOREM QuietDumpsReload == PgSpec => []QuietDumpReloads
<1>1. ASSUME PgInv PROVE QuietDumpReloads
  <2>1. PgTypeOK /\ ApplyInv
    BY <1>1 DEF PgInv
  <2>2. apply.step \in ApplySteps
    BY <2>1 DEF PgTypeOK
  <2>3. CASE apply.step \in {"idle", "create", "begin", "replay", "stopped"}
    BY <2>3 DEF QuietDumpReloads
  <2>4. CASE apply.step \in {"success", "refused", "lost"}
    BY <2>1, <2>4 DEF ApplyInv
  <2> QED BY <2>2, <2>3, <2>4 DEF ApplySteps
<1> QED BY <1>1, PgInvariant, PTL

-----------------------------------------------------------------------------
\* A program that serves either (service.go, Lookup) behaves as both of the above say.
THEOREM ServicesAreBoth == ServicesSpec => Spec /\ PgSpec
<1>1. ServicesInit => Init /\ PgInit
  BY DEF ServicesInit
<1>2. [ServicesNext]_servicesVars => [Next]_vars /\ [PgNext]_pgVars
  BY DEF ServicesNext, servicesVars
<1> QED BY <1>1, <1>2, PTL DEF ServicesSpec, Spec, PgSpec
=============================================================================
