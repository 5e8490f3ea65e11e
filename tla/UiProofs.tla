------------------------------- MODULE UiProofs --------------------------------
(***************************************************************************)
(* What the screens show, and what the upload pool does, for any number of *)
(* files, workers, buckets, folders, databases, regions, names and builds, *)
(* and with a screen left at any moment.                                   *)
(***************************************************************************)
EXTENDS Ui, FiniteSetTheorems, SequenceTheorems, WellFoundedInduction, TLAPS

-----------------------------------------------------------------------------
(***************************************************************************)
(* The upload pool.                                                        *)
(***************************************************************************)

PoolInv == PoolTypeOK /\ PoolIsSound

LEMMA BusyIsFinite ==
  ASSUME PoolTypeOK
  PROVE  IsFiniteSet(busy) /\ Cardinality(busy) \in Nat
<1>1. next \in Nat
  BY PoolAssumption DEF PoolTypeOK
<1>2. IsFiniteSet(1..next)
  BY <1>1, FS_Interval
<1> QED BY <1>2, FS_Subset, FS_CardinalityType DEF PoolTypeOK

LEMMA WorkersType ==
  ASSUME NEW n \in 1..MaxFiles
  PROVE  /\ Workers(n) \in 1..n /\ Workers(n) <= MaxConcurrent
         /\ Workers(n) < n => Workers(n) = MaxConcurrent
BY PoolAssumption DEF Workers, Smaller

\* A batch begins with one file for each worker.
LEMMA StartKeeps ==
  ASSUME NEW n \in 1..MaxFiles, Start(n)
  PROVE  PoolInv'
<1>1. /\ n \in Nat /\ MaxFiles \in Nat /\ MaxConcurrent \in Nat
      /\ Workers(n) \in 1..n /\ Workers(n) <= MaxConcurrent
      /\ Workers(n) < n => Workers(n) = MaxConcurrent
  BY PoolAssumption, WorkersType
<1>2. Cardinality(1..Workers(n)) = Workers(n)
  BY <1>1, FS_Interval
<1>3. PoolTypeOK'
  BY <1>1 DEF Start, PoolTypeOK
<1>4. EachFileOnce'
  BY <1>1, <1>2 DEF Start, EachFileOnce
<1>5. BoundedPool'
  BY <1>1, <1>2 DEF Start, BoundedPool
<1> QED BY <1>3, <1>4, <1>5 DEF PoolInv, PoolIsSound

\* A worker that goes on takes the next file, or leaves the pool smaller by one.
LEMMA TakeNextKeeps ==
  ASSUME PoolInv, NEW f \in busy, TakeNext(f), UNCHANGED <<running, total>>,
         \/ done' = done + 1 /\ UNCHANGED failed
         \/ failed' = failed + 1 /\ UNCHANGED done
  PROVE  PoolInv'
<1>1. /\ PoolTypeOK /\ EachFileOnce /\ BoundedPool
      /\ IsFiniteSet(busy) /\ Cardinality(busy) \in Nat
      /\ MaxFiles \in Nat /\ MaxConcurrent \in Nat
      /\ total \in Nat /\ next \in Nat /\ done \in Nat /\ failed \in Nat
  BY BusyIsFinite, PoolAssumption DEF PoolInv, PoolIsSound, PoolTypeOK
<1>2. running
  BY <1>1 DEF EachFileOnce, PoolTypeOK
<1>3. IsFiniteSet(busy \ {f}) /\ Cardinality(busy \ {f}) = Cardinality(busy) - 1
  BY <1>1, FS_RemoveElement
<1>4. CASE next < total
  <2>1. next + 1 \notin busy \ {f} /\ next + 1 \in 1..MaxFiles
    <3>1. total \in 0..MaxFiles /\ busy \subseteq 1..next
      BY <1>1 DEF PoolTypeOK
    <3>2. next + 1 \in 1..MaxFiles /\ next + 1 \notin 1..next
      BY <1>1, <1>4, <3>1
    <3> QED BY <3>1, <3>2
  <2>2. Cardinality((busy \ {f}) \cup {next + 1}) = Cardinality(busy)
    <3> DEFINE rest == busy \ {f}
    <3>1. IsFiniteSet(rest) /\ Cardinality(rest) = Cardinality(busy) - 1 /\ next + 1 \notin rest
      BY <1>3, <2>1
    <3> HIDE DEF rest
    <3>2. Cardinality(rest \cup {next + 1}) = Cardinality(rest) + 1
      BY <3>1, FS_AddElement
    <3>3. Cardinality(rest \cup {next + 1}) = Cardinality(busy)
      BY <1>1, <3>1, <3>2
    <3> QED BY <3>3 DEF rest
  <2>3. /\ next' = next + 1 /\ busy' = (busy \ {f}) \cup {next + 1}
        /\ sent' = [sent EXCEPT ![next + 1] = @ + 1]
    BY <1>4 DEF TakeNext
  <2>4. PoolTypeOK'
    <3>1. /\ running' \in BOOLEAN /\ total' \in 0..MaxFiles
          /\ done' \in Nat /\ failed' \in Nat
      BY <1>1 DEF PoolTypeOK
    <3>2. next' \in 0..total' /\ busy' \subseteq 1..next'
      BY <1>1, <1>4, <2>3 DEF PoolTypeOK
    <3>3. sent' \in [1..MaxFiles -> Nat]
      <4>1. sent \in [1..MaxFiles -> Nat] /\ sent[next + 1] + 1 \in Nat
        BY <1>1, <2>1 DEF PoolTypeOK
      <4> QED BY <2>3, <4>1
    <3> QED BY <3>1, <3>2, <3>3 DEF PoolTypeOK
  <2>5. \A g \in 1..MaxFiles : sent'[g] = IF g <= next' THEN 1 ELSE 0
    <3>1. \A g \in 1..MaxFiles : sent[g] = IF g <= next THEN 1 ELSE 0
      BY <1>1 DEF EachFileOnce
    <3>2. sent \in [1..MaxFiles -> Nat]
      BY <1>1 DEF PoolTypeOK
    <3>3. sent[next + 1] = 0
      BY <1>1, <2>1, <3>1
    <3>4. ASSUME NEW g \in 1..MaxFiles
          PROVE  sent'[g] = IF g = next + 1 THEN 1 ELSE sent[g]
      BY <2>1, <2>3, <3>2, <3>3
    <3>5. \A g \in 1..MaxFiles : g <= next + 1 <=> g = next + 1 \/ g <= next
      BY <1>1
    <3>6. next' = next + 1
      BY <2>3
    <3> QED BY <3>1, <3>4, <3>5, <3>6
  <2>6. done' + failed' + Cardinality(busy') = next'
    <3>1. done + failed + Cardinality(busy) = next
      BY <1>1 DEF EachFileOnce
    <3>2. Cardinality(busy') = Cardinality(busy) /\ next' = next + 1
      BY <2>2, <2>3
    <3>3. done' + failed' = done + failed + 1
      BY <1>1
    <3>4. done' \in Nat /\ failed' \in Nat
      BY <1>1
    <3> QED BY <1>1, <3>1, <3>2, <3>3, <3>4
  <2>7. EachFileOnce'
    BY <1>2, <2>5, <2>6 DEF EachFileOnce
  <2>8. BoundedPool'
    BY <1>1, <1>4, <2>2, <2>3 DEF BoundedPool
  <2> QED BY <2>4, <2>7, <2>8 DEF PoolInv, PoolIsSound
<1>5. CASE ~(next < total)
  <2>1. busy' = busy \ {f} /\ UNCHANGED <<next, sent>>
    BY <1>5 DEF TakeNext
  <2>2. PoolTypeOK'
    BY <1>1, <2>1 DEF PoolTypeOK
  <2>3. done' + failed' + Cardinality(busy') = next'
    <3>1. done + failed + Cardinality(busy) = next
      BY <1>1 DEF EachFileOnce
    <3> QED BY <1>1, <1>3, <2>1, <3>1
  <2>4. EachFileOnce'
    BY <1>1, <1>2, <2>1, <2>3 DEF EachFileOnce
  <2>5. BoundedPool'
    BY <1>1, <1>3, <1>5, <2>1 DEF BoundedPool
  <2> QED BY <2>2, <2>4, <2>5 DEF PoolInv, PoolIsSound
<1> QED BY <1>4, <1>5

LEMMA FinishKeeps ==
  ASSUME PoolInv, Finish
  PROVE  PoolInv'
<1>1. PoolTypeOK /\ EachFileOnce /\ BoundedPool /\ Cardinality({}) = 0
  BY FS_EmptySet DEF PoolInv, PoolIsSound
<1>2. next = total
  <2>1. Cardinality(busy) = 0
    BY <1>1 DEF Finish
  <2> QED BY <1>1, <2>1, PoolAssumption DEF BoundedPool, PoolTypeOK
<1>3. UNCHANGED <<total, next, busy, done, failed, sent>> /\ running' = FALSE /\ busy = {}
  BY DEF Finish
<1> QED BY <1>1, <1>2, <1>3 DEF PoolInv, PoolIsSound, PoolTypeOK, EachFileOnce, BoundedPool

LEMMA NewPoolKeeps ==
  ASSUME NewPool
  PROVE  PoolInv'
<1>1. Cardinality({}) = 0
  BY FS_EmptySet
<1>2. /\ running' = FALSE /\ busy' = {} /\ total' = 0 /\ next' = 0 /\ done' = 0 /\ failed' = 0
      /\ sent' = [f \in 1..MaxFiles |-> 0]
  BY DEF NewPool
<1>3. 0 \in 0..MaxFiles /\ 0 \in 0..0 /\ {} \subseteq 1..0 /\ 0 <= MaxConcurrent
  BY PoolAssumption
<1>4. PoolTypeOK'
  BY <1>2, <1>3 DEF PoolTypeOK
<1>5. EachFileOnce' /\ BoundedPool'
  BY <1>1, <1>2, <1>3 DEF EachFileOnce, BoundedPool
<1> QED BY <1>4, <1>5 DEF PoolInv, PoolIsSound

LEMMA PoolInitially ==
  ASSUME PoolInit
  PROVE  PoolInv
<1>1. Cardinality({}) = 0
  BY FS_EmptySet
<1>2. 0 \in 0..MaxFiles /\ 0 \in 0..0 /\ {} \subseteq 1..0 /\ 0 <= MaxConcurrent
  BY PoolAssumption
<1>3. PoolTypeOK
  BY <1>2 DEF PoolInit, PoolTypeOK
<1>4. EachFileOnce /\ BoundedPool
  BY <1>1, <1>2 DEF PoolInit, EachFileOnce, BoundedPool
<1> QED BY <1>3, <1>4 DEF PoolInv, PoolIsSound

LEMMA PoolUnchanged ==
  ASSUME PoolInv, UNCHANGED poolVars
  PROVE  PoolInv'
BY DEF poolVars, PoolInv, PoolIsSound, PoolTypeOK, EachFileOnce, BoundedPool

LEMMA PoolRunsKeeps ==
  ASSUME PoolInv, PoolRuns
  PROVE  PoolInv'
<1>1. CASE UploadAnswered
  <2>1. PICK f \in busy : Uploaded(f) \/ UploadFailed(f)
    BY <1>1 DEF UploadAnswered
  <2> QED BY <2>1, TakeNextKeeps DEF Uploaded, UploadFailed
<1>2. CASE UploadsEnd
  BY <1>2, FinishKeeps DEF UploadsEnd
<1> QED BY <1>1, <1>2 DEF PoolRuns

\* A step of the UI is one of the pool, leaves it alone, or begins with an empty one.
LEMMA PoolStep ==
  ASSUME PoolInv, [UiNext]_allVars
  PROVE  PoolInv'
<1>1. CASE UNCHANGED allVars
  BY <1>1, PoolUnchanged DEF allVars
<1>2. ASSUME NEW part \in Parts, Mount(part) PROVE PoolInv'
  BY <1>2, NewPoolKeeps DEF Mount
<1>3. ASSUME NEW part \in Parts, Unmount(part) PROVE PoolInv'
  BY <1>3, PoolUnchanged DEF Unmount
<1>4. CASE UploadsGoOn
  BY <1>4, PoolRunsKeeps DEF UploadsGoOn
<1>5. CASE MinioWorks
  BY <1>5, PoolUnchanged, StartKeeps DEF MinioWorks, Upload
<1>6. CASE \E part \in Parts : OtherWorks(part)
  BY <1>6, PoolUnchanged DEF OtherWorks
<1> QED BY <1>1, <1>2, <1>3, <1>4, <1>5, <1>6 DEF UiNext, Parts

\* No file of a batch is lost, sent twice or left waiting by an idle worker, and no more
\* than MAX_CONCURRENT are in flight, for batches of any size and any number of workers.
THEOREM UploadsAreSound == UiSpec => []PoolIsSound
<1>1. UiInit => PoolInv
  BY PoolInitially DEF UiInit, BrowserInit
<1>2. PoolInv /\ [UiNext]_allVars => PoolInv'
  BY PoolStep
<1>3. PoolInv => PoolIsSound
  BY DEF PoolInv
<1> QED BY <1>1, <1>2, <1>3, PTL DEF UiSpec

-----------------------------------------------------------------------------
(***************************************************************************)
(* Loads.  A load is made for a key, and what it has is for that key.      *)
(***************************************************************************)

IsLoad(load) == {"status", "key", "data", "late"} \subseteq DOMAIN load
LoadAt(load, key) == IsLoad(load) /\ load.key = key /\ ShownFor(load, key)

LEMMA MountedAt == ASSUME NEW key PROVE LoadAt(Mounted(key), key)
BY DEF LoadAt, IsLoad, Mounted, ShownFor, HasData

LEMMA ReloadedAt == ASSUME NEW load, NEW key PROVE LoadAt(Reloaded(load, key), key)
BY DEF LoadAt, IsLoad, Reloaded, ShownFor, HasData

LEMMA SucceededAt ==
  ASSUME NEW load, NEW key, LoadAt(load, key), NEW data, data.of = load.key
  PROVE  LoadAt(Succeeded(load, data), key)
BY DEF LoadAt, IsLoad, Succeeded, ShownFor, HasData

LEMMA FailedAt ==
  ASSUME NEW load, NEW key, LoadAt(load, key)
  PROVE  LoadAt(Failed(load), key)
BY DEF LoadAt, IsLoad, Failed, ShownFor, HasData

LEMMA LateAt ==
  ASSUME NEW load, NEW key, LoadAt(load, key), NEW data
  PROVE  LoadAt(LateAnswer(load, data), key)
BY DEF LoadAt, IsLoad, LateAnswer, ShownFor, HasData

-----------------------------------------------------------------------------
(***************************************************************************)
(* The listing of a folder of a bucket.                                    *)
(***************************************************************************)

ListingAt(w) ==
  /\ {"bucket", "prefix", "listing", "dialog", "shown"} \subseteq DOMAIN w
  /\ LoadAt(w.listing, At(w))

SameListing(v, w) ==
  /\ DOMAIN v = DOMAIN w
  /\ v.bucket = w.bucket /\ v.prefix = w.prefix /\ v.listing = w.listing

LEMMA SameListingAt ==
  ASSUME NEW v, NEW w, ListingAt(w), SameListing(v, w)
  PROVE  ListingAt(v)
BY DEF ListingAt, SameListing, At

LEMMA RenderedAt ==
  ASSUME NEW w, ListingAt(w)
  PROVE  ListingAt(Rendered(w))
<1>1. SameListing(Rendered(w), w)
  BY DEF Rendered, SameListing, ListingAt
<1> QED BY <1>1, SameListingAt

LEMMA ListingChanged ==
  ASSUME NEW w, ListingAt(w), NEW load, LoadAt(load, At(w))
  PROVE  ListingAt([w EXCEPT !.listing = load])
BY DEF ListingAt, At

LEMMA ReloadAt ==
  ASSUME NEW w, {"bucket", "prefix", "listing", "dialog", "shown"} \subseteq DOMAIN w
  PROVE  ListingAt(Reload(w))
<1>1. LoadAt(Reloaded(w.listing, At(w)), At(w))
  BY ReloadedAt
<1> QED BY <1>1 DEF Reload, ListingAt, At

\* Contents that are mounted anew for a bucket.
LEMMA ContentsAt ==
  ASSUME NEW b, NEW w, "bucket" \in DOMAIN w, w.bucket = b
  PROVE  ListingAt(Mounting(Contents(b), w))
<1>1. LoadAt(Mounted(<<b, Root>>), <<b, Root>>)
  BY MountedAt
<1> DEFINE c == Contents(b)
<1>2. /\ {"prefix", "listing", "dialog", "shown"} \subseteq DOMAIN c /\ "bucket" \notin DOMAIN c
      /\ c.prefix = Root /\ c.listing = Mounted(<<b, Root>>)
  BY DEF Contents, NoContents
<1> HIDE DEF c
<1>3. /\ {"bucket", "prefix", "listing", "dialog", "shown"} \subseteq DOMAIN Mounting(c, w)
      /\ Mounting(c, w).prefix = Root /\ Mounting(c, w).bucket = b
      /\ Mounting(c, w).listing = Mounted(<<b, Root>>)
  BY <1>2 DEF Mounting
<1>4. ListingAt(Mounting(c, w))
  BY <1>1, <1>3 DEF ListingAt, At
<1> QED BY <1>4 DEF c

LEMMA FreshBrowserAt == ListingAt(FreshBrowser)
<1>1. LoadAt(Mounted(<<Nothing, Root>>), <<Nothing, Root>>)
  BY MountedAt
<1>2. /\ {"bucket", "prefix", "listing", "dialog", "shown"} \subseteq DOMAIN FreshBrowser
      /\ FreshBrowser.prefix = Root /\ FreshBrowser.bucket = Nothing
      /\ FreshBrowser.listing = Mounted(<<Nothing, Root>>)
  BY DEF FreshBrowser, NoContents, Mounting
<1> QED BY <1>1, <1>2 DEF ListingAt, At

LEMMA ListingUnchanged ==
  ASSUME ListingAt(browser), NEW w, SameListing(w, browser), browser' = w
  PROVE  ListingAt(browser')
BY SameListingAt

\* Whatever the user, the store and the answers do, the listing that is shown or awaited
\* is for the bucket and folder on the screen.
LEMMA BrowserKeeps ==
  ASSUME ListingAt(browser), BrowserActs
  PROVE  ListingAt(browser')
<1> USE DEF SameListing
<1>d. {"bucket", "prefix", "listing", "dialog", "shown"} \subseteq DOMAIN browser
  BY DEF ListingAt
<1>1. ASSUME NEW bs \in SUBSET Buckets, BucketsListed(bs) PROVE ListingAt(browser')
  <2> DEFINE loaded == [browser EXCEPT !.buckets = Succeeded(@, [of |-> Nothing, names |-> bs])]
  <2>1. SameListing(loaded, browser) /\ "bucket" \in DOMAIN loaded
    BY <1>d
  <2>2. ASSUME NEW b PROVE ListingAt(Mounting(Contents(b), [loaded EXCEPT !.bucket = b]))
    <3>1. "bucket" \in DOMAIN [loaded EXCEPT !.bucket = b] /\ [loaded EXCEPT !.bucket = b].bucket = b
      BY <2>1
    <3> QED BY <3>1, ContentsAt
  <2>3. ListingAt(loaded)
    BY <2>1, SameListingAt
  <2>4. browser' = loaded \/ \E b : browser' = Mounting(Contents(b), [loaded EXCEPT !.bucket = b])
    BY <1>1 DEF BucketsListed
  <2> QED BY <2>2, <2>3, <2>4
<1>2. CASE BucketsFail
  BY <1>2, <1>d, ListingUnchanged DEF BucketsFail
<1>3. ASSUME NEW b \in Buckets, SelectBucket(b) PROVE ListingAt(browser')
  <2>1. "bucket" \in DOMAIN [browser EXCEPT !.bucket = b] /\ [browser EXCEPT !.bucket = b].bucket = b
    BY <1>d
  <2> QED BY <1>3, <2>1, ContentsAt DEF SelectBucket
<1>4. ASSUME NEW p \in Folders, Navigate(p) PROVE ListingAt(browser')
  <2> DEFINE w == ClearSelection([browser EXCEPT !.prefix = p])
  <2>1. {"bucket", "prefix", "listing", "dialog", "shown"} \subseteq DOMAIN w
    BY <1>d DEF ClearSelection
  <2> QED BY <1>4, <2>1, ReloadAt DEF Navigate
<1>5. ASSUME NEW d \in AllListings, Answer(d) PROVE ListingAt(browser')
  <2>1. d.of = browser.listing.key
    BY <1>5 DEF Answer, Listings
  <2>2. LoadAt(Succeeded(browser.listing, d), At(browser))
    BY <2>1, SucceededAt DEF ListingAt
  <2>3. ListingAt([browser EXCEPT !.listing = Succeeded(@, d)])
    BY <2>2, ListingChanged
  <2> QED BY <1>5, <2>3, RenderedAt DEF Answer
<1>6. ASSUME NEW d \in AllListings, AnswerLate(d) PROVE ListingAt(browser')
  <2>1. LoadAt(LateAnswer(browser.listing, d), At(browser))
    BY LateAt DEF ListingAt
  <2>2. ListingAt([browser EXCEPT !.listing = LateAnswer(@, d)])
    BY <2>1, ListingChanged
  <2> QED BY <1>6, <2>2, RenderedAt DEF AnswerLate
<1>7. CASE ListingFails
  <2>1. LoadAt(Failed(browser.listing), At(browser))
    BY FailedAt DEF ListingAt
  <2>2. ListingAt([browser EXCEPT !.listing = Failed(@)])
    BY <2>1, ListingChanged
  <2> QED BY <1>7, <2>2, RenderedAt DEF ListingFails
<1>8. CASE ToggleAll \/ ClosePanel
  BY <1>8, <1>d, ListingUnchanged DEF ToggleAll, ClosePanel, ClearSelection
<1>9. ASSUME NEW e \in Entries, OpenObject(e) \/ Toggle(e) PROVE ListingAt(browser')
  BY <1>9, <1>d, ListingUnchanged DEF OpenObject, Toggle
<1>10. ASSUME NEW panel \in {"object", "selection"}, AskDelete(panel) PROVE ListingAt(browser')
  <2>1. SameListing([browser EXCEPT !.dialog = panel], browser)
    BY <1>d
  <2> QED BY <1>10, <2>1, SameListingAt, RenderedAt DEF AskDelete
<1>11. CASE CancelDelete
  <2>1. SameListing([browser EXCEPT !.dialog = "none"], browser)
    BY <1>d
  <2> QED BY <1>11, <2>1, SameListingAt, RenderedAt DEF CancelDelete
<1>12. CASE ConfirmDelete
  <2>1. ASSUME NEW del PROVE SameListing([browser EXCEPT !.dialog = "none", !.deleting = del], browser)
    BY <1>d
  <2>2. \E del : browser' = Rendered([browser EXCEPT !.dialog = "none", !.deleting = del])
    BY <1>12 DEF ConfirmDelete
  <2> QED BY <2>1, <2>2, SameListingAt, RenderedAt
<1>13. CASE DeleteSucceeds
  <2> DEFINE w == ClearSelection([browser EXCEPT !.deleting = {}])
  <2>1. {"bucket", "prefix", "listing", "dialog", "shown"} \subseteq DOMAIN w
    BY <1>d DEF ClearSelection
  <2> QED BY <1>13, <2>1, ReloadAt DEF DeleteSucceeds
<1>14. CASE DeleteFails
  BY <1>14, <1>d, ListingUnchanged DEF DeleteFails
<1> QED BY <1>1, <1>2, <1>3, <1>4, <1>5, <1>6, <1>7, <1>8, <1>9, <1>10, <1>11, <1>12, <1>13, <1>14
  DEF BrowserActs

LEMMA UploadsKeepListing ==
  ASSUME ListingAt(browser), PoolRuns \/ \E n \in 1..MaxFiles : Upload(n)
  PROVE  ListingAt(browser')
<1> USE DEF SameListing
<1>d. {"bucket", "prefix", "listing", "dialog", "shown"} \subseteq DOMAIN browser
  BY DEF ListingAt
<1>1. CASE UploadAnswered
  BY <1>1 DEF UploadAnswered
<1>2. CASE UploadsEnd
  <2>1. ListingAt(Rendered(Reload([browser EXCEPT !.uploads = FALSE])))
    BY <1>d, ReloadAt, RenderedAt
  <2> QED BY <1>2, <2>1 DEF UploadsEnd
<1>3. CASE \E n \in 1..MaxFiles : Upload(n)
  BY <1>3, <1>d, ListingUnchanged DEF Upload
<1> QED BY <1>1, <1>2, <1>3 DEF PoolRuns

-----------------------------------------------------------------------------
(***************************************************************************)
(* The keys and the value of a Redis database.                             *)
(***************************************************************************)

RedisFields == {"tab", "db", "databases", "pattern", "selected", "list", "value", "log",
                "commands", "call", "pending"}

KeysAt(w) ==
  /\ RedisFields \subseteq DOMAIN w
  /\ LoadAt(w.list, <<w.db, w.pattern>>)
  /\ LoadAt(w.value, w.value.key)
  /\ w.selected # Nothing => w.value.key = <<w.db, w.selected>>

SameKeys(v, w) ==
  /\ DOMAIN v = DOMAIN w
  /\ v.db = w.db /\ v.pattern = w.pattern /\ v.selected = w.selected
  /\ v.list = w.list /\ v.value = w.value

LEMMA SameKeysAt ==
  ASSUME NEW v, NEW w, KeysAt(w), SameKeys(v, w)
  PROVE  KeysAt(v)
BY DEF KeysAt, SameKeys

LEMMA FreshRedisAt == KeysAt(FreshRedis)
<1>1. /\ LoadAt(Mounted(<<0, AnyPattern>>), <<0, AnyPattern>>)
      /\ LoadAt(Mounted(Nothing), Nothing) /\ Mounted(Nothing).key = Nothing
  BY MountedAt DEF Mounted
<1> QED BY <1>1 DEF FreshRedis, KeysAt, RedisFields

\* After a change of the database, the pattern or the selection, both loads follow.
LEMMA OpenedAt ==
  ASSUME NEW w, RedisFields \subseteq DOMAIN w,
         LoadAt(w.value, w.value.key)
  PROVE  /\ RedisFields \subseteq DOMAIN Opened(w)
         /\ Opened(w).db = w.db /\ Opened(w).pattern = w.pattern
         /\ Opened(w).selected = w.selected /\ Opened(w).list = w.list
         /\ LoadAt(Opened(w).value, Opened(w).value.key)
         /\ w.selected # Nothing => Opened(w).value.key = <<w.db, w.selected>>
<1>1. /\ DOMAIN Opened(w) = DOMAIN w
      /\ Opened(w).db = w.db /\ Opened(w).pattern = w.pattern
      /\ Opened(w).selected = w.selected /\ Opened(w).list = w.list
  BY DEF Opened, RedisFields
<1>2. Opened(w).value = IF w.selected = Nothing THEN Mounted(Nothing)
                        ELSE IF w.value.key = <<w.db, w.selected>> THEN w.value
                        ELSE Mounted(<<w.db, w.selected>>)
  BY DEF Opened, RedisFields
<1>3. \A key : LoadAt(Mounted(key), key) /\ Mounted(key).key = key
  BY MountedAt DEF Mounted
<1> QED BY <1>1, <1>2, <1>3

LEMMA ScannedAt ==
  ASSUME NEW w, RedisFields \subseteq DOMAIN w, LoadAt(w.list, w.list.key),
         LoadAt(w.value, w.value.key),
         w.selected # Nothing => w.value.key = <<w.db, w.selected>>
  PROVE  KeysAt(Scanned(w))
<1>1. /\ DOMAIN Scanned(w) = DOMAIN w
      /\ Scanned(w).db = w.db /\ Scanned(w).pattern = w.pattern
      /\ Scanned(w).selected = w.selected /\ Scanned(w).value = w.value
      /\ Scanned(w).list = IF w.list.key = <<w.db, w.pattern>> THEN w.list
                           ELSE Reloaded(w.list, <<w.db, w.pattern>>)
  BY DEF Scanned, RedisFields
<1>2. LoadAt(Scanned(w).list, <<w.db, w.pattern>>)
  BY <1>1, ReloadedAt
<1> QED BY <1>1, <1>2 DEF KeysAt

\* Scanned anew, with the value that belongs to it.
LEMMA OpenedScannedAt ==
  ASSUME NEW w, RedisFields \subseteq DOMAIN w, LoadAt(w.list, w.list.key),
         LoadAt(w.value, w.value.key)
  PROVE  KeysAt(Scanned(Opened(w)))
<1> DEFINE v == Opened(w)
<1>1. /\ RedisFields \subseteq DOMAIN v /\ LoadAt(v.list, v.list.key)
      /\ LoadAt(v.value, v.value.key)
      /\ v.selected # Nothing => v.value.key = <<v.db, v.selected>>
  BY OpenedAt
<1> HIDE DEF v
<1>2. KeysAt(Scanned(v))
  BY <1>1, ScannedAt
<1> QED BY <1>2 DEF v

LEMMA OwnKey ==
  ASSUME NEW load, NEW key, LoadAt(load, key)
  PROVE  LoadAt(load, load.key)
BY DEF LoadAt

\* Whichever tab changes the database, and whatever was on its way.
LEMMA RedisKeeps ==
  ASSUME KeysAt(redis), RedisActs
  PROVE  KeysAt(redis')
<1>d. /\ RedisFields \subseteq DOMAIN redis
      /\ LoadAt(redis.list, redis.list.key)
      /\ LoadAt(redis.value, redis.value.key)
  BY OwnKey DEF KeysAt
<1> USE DEF RedisFields
<1>1. ASSUME NEW w, SameKeys(w, redis), redis' = w PROVE KeysAt(redis')
  BY <1>1, SameKeysAt
<1>2. CASE DatabasesAnswered
  BY <1>2, <1>1, <1>d DEF DatabasesAnswered, SameKeys
<1>3. CASE ScanFails
  BY <1>3, <1>d, FailedAt DEF ScanFails, KeysAt
<1>4. CASE ValueFails
  <2>1. LoadAt(Failed(redis.value), redis.value.key)
    BY <1>d, FailedAt
  <2>2. Failed(redis.value).key = redis.value.key
    BY <2>1 DEF LoadAt
  <2> QED BY <1>4, <1>d, <2>1, <2>2 DEF ValueFails, KeysAt
<1>5. ASSUME NEW p \in Patterns, Scan(p) PROVE KeysAt(redis')
  <2> DEFINE w == [redis EXCEPT !.selected = Nothing, !.pattern = p]
  <2>1. /\ RedisFields \subseteq DOMAIN w /\ w.selected = Nothing /\ w.list = redis.list
        /\ w.value = redis.value
    BY <1>d
  <2> HIDE DEF w
  <2>2. KeysAt(Scanned(Opened(w)))
    BY <1>d, <2>1, OpenedScannedAt
  <2> QED BY <1>5, <2>2 DEF Scan, w
<1>6. ASSUME NEW k, redis' = Opened([redis EXCEPT !.selected = k])
                    \/ redis' = Opened([redis EXCEPT !.selected = k, !.tab = "keys"]),
             KeysAt(redis)
      PROVE  KeysAt(redis')
  <2>0. PICK w : redis' = Opened(w) /\ w \in {[redis EXCEPT !.selected = k],
                                            [redis EXCEPT !.selected = k, !.tab = "keys"]}
    BY <1>6
  <2>1. /\ RedisFields \subseteq DOMAIN w /\ w.list = redis.list /\ w.db = redis.db
        /\ w.pattern = redis.pattern /\ w.value = redis.value
    BY <1>d, <2>0
  <2> QED BY <1>6, <1>d, <2>0, <2>1, OpenedAt DEF KeysAt
<1>7. ASSUME NEW d \in Dbs, PickDb(d) PROVE KeysAt(redis')
  <2>1. CASE redis' = Scanned(Opened([redis EXCEPT !.db = d, !.selected = Nothing]))
    <3> DEFINE w == [redis EXCEPT !.db = d, !.selected = Nothing]
    <3>1. /\ RedisFields \subseteq DOMAIN w /\ w.selected = Nothing /\ w.list = redis.list
          /\ w.value = redis.value
      BY <1>d
    <3> HIDE DEF w
    <3>2. KeysAt(Scanned(Opened(w)))
      BY <1>d, <3>1, OpenedScannedAt
    <3> QED BY <2>1, <3>2 DEF w
  <2>2. CASE redis' = Scanned(Opened([redis EXCEPT !.db = d]))
    <3> DEFINE w == [redis EXCEPT !.db = d]
    <3>1. /\ RedisFields \subseteq DOMAIN w /\ w.selected = redis.selected
          /\ w.value = redis.value /\ w.list = redis.list
      BY <1>d
    <3> HIDE DEF w
    <3>2. KeysAt(Scanned(Opened(w)))
      BY <1>d, <3>1, OpenedScannedAt
    <3> QED BY <2>2, <3>2 DEF w
  <2> QED BY <1>7, <2>1, <2>2 DEF PickDb
<1>8. ASSUME NEW at, NEW data \in Scans(at), ScanAnswered(data) \/ ScanAnsweredLate(data)
      PROVE  KeysAt(redis')
  <2>1. CASE ScanAnswered(data)
    <3>1. data.of = redis.list.key
      BY <2>1 DEF ScanAnswered, Scans
    <3> QED BY <2>1, <3>1, <1>d, SucceededAt DEF ScanAnswered, KeysAt
  <2>2. CASE ScanAnsweredLate(data)
    BY <2>2, <1>d, LateAt DEF ScanAnsweredLate, KeysAt
  <2> QED BY <1>8, <2>1, <2>2
<1>9. ASSUME NEW at, NEW data \in Values(at), ValueAnswered(data) PROVE KeysAt(redis')
  <2>1. data.of = redis.value.key
    BY <1>9 DEF ValueAnswered, Values
  <2>2. LoadAt(Succeeded(redis.value, data), redis.value.key)
    BY <1>d, <2>1, SucceededAt
  <2>3. Succeeded(redis.value, data).key = redis.value.key
    BY <2>2 DEF LoadAt
  <2> QED BY <1>9, <1>d, <2>2, <2>3 DEF ValueAnswered, KeysAt
<1>10. ASSUME NEW tab, SwitchTab(tab) PROVE KeysAt(redis')
  BY <1>10, <1>1, <1>d DEF SwitchTab, SameKeys
<1>11. ASSUME NEW v PROVE SameKeys(Run(redis, v), redis)
  BY <1>d DEF Run, SameKeys
<1>12. ASSUME NEW v, Submit(v) PROVE KeysAt(redis')
  <2>1. SameKeys([redis EXCEPT !.pending = v], redis)
    BY <1>d DEF SameKeys
  <2> QED BY <1>12, <1>1, <1>11, <2>1 DEF Submit
<1>13. CASE Confirm
  <2>1. SameKeys(Run([redis EXCEPT !.pending = Nothing], redis.pending), redis)
    BY <1>d DEF Run, SameKeys
  <2> QED BY <1>13, <1>1, <2>1 DEF Confirm
<1>14. CASE Cancel
  BY <1>14, <1>1, <1>d DEF Cancel, SameKeys
<1>15. CASE Clear
  BY <1>15, <1>1, <1>d DEF Clear, SameKeys
<1>16. CASE CommandAnswered
  BY <1>16, <1>1, <1>d DEF CommandAnswered, SameKeys
<1>17. ASSUME NEW i, ScanNext(i) PROVE KeysAt(redis')
  BY <1>17, <1>1, <1>11 DEF ScanNext
<1>18. ASSUME NEW k, SelectKey(k) PROVE KeysAt(redis')
  BY <1>18, <1>6 DEF SelectKey
<1>19. ASSUME NEW i, NEW k, OpenKey(i, k) PROVE KeysAt(redis')
  BY <1>19, <1>6 DEF OpenKey
<1> QED BY <1>2, <1>3, <1>4, <1>5, <1>7, <1>8, <1>9, <1>10, <1>12, <1>13, <1>14, <1>15,
           <1>16, <1>17, <1>18, <1>19
  DEF RedisActs

-----------------------------------------------------------------------------
(***************************************************************************)
(* The log of the Redis console.  At most the newest entry runs, its call  *)
(* is the only one, and a command that awaits its confirmation has no call *)
(* beside it, so that a call is never replaced before it is answered.      *)
(***************************************************************************)

LogEntries ==
  [id : Nat, verb : Verbs \cup {"SCAN"}, db : Dbs, status : {"running", "done", "failed"},
   reply : [keys : SUBSET Keys, more : BOOLEAN] \cup {Nothing}]

LogTyped(w) ==
  /\ RedisFields \subseteq DOMAIN w
  /\ w.db \in Dbs /\ w.pending \in Verbs \cup {Nothing} /\ w.commands \in Nat
  /\ w.log \in Seq(LogEntries) /\ Len(w.log) <= MaxLog
  /\ \A c \in w.call : c.verb \in Verbs \cup {"SCAN"}
  /\ \A i \in DOMAIN w.log : w.log[i].id <= w.commands

CallsMatch(w) ==
  /\ w.pending # Nothing => w.call = {}
  /\ \A c, d \in w.call : c = d
  /\ \A i \in DOMAIN w.log : w.log[i].status = "running"
       => \E c \in w.call : c.id = w.log[i].id
  /\ \A c \in w.call, i \in DOMAIN w.log :
       w.log[i].id = c.id => w.log[i].status = "running" /\ i = 1

LogAt(w) == LogTyped(w) /\ CallsMatch(w)

\* Everything else on the page may change, and the dialog may close.
SameLog(v, w) ==
  /\ DOMAIN v = DOMAIN w
  /\ v.db \in Dbs /\ v.commands = w.commands /\ v.log = w.log /\ v.call = w.call
  /\ v.pending \in {w.pending, Nothing}

LEMMA SameLogAt ==
  ASSUME NEW v, NEW w, LogAt(w), SameLog(v, w)
  PROVE  LogAt(v)
BY DEF LogAt, LogTyped, CallsMatch, SameLog

LEMMA FreshLogAt == LogAt(FreshRedis)
<1>1. /\ RedisFields \subseteq DOMAIN FreshRedis
      /\ FreshRedis.db = 0 /\ FreshRedis.pending = Nothing /\ FreshRedis.commands = 0
      /\ FreshRedis.log = <<>> /\ FreshRedis.call = {}
  BY DEF FreshRedis, RedisFields
<1>2. <<>> \in Seq(LogEntries) /\ Len(<<>>) = 0 /\ DOMAIN <<>> = {} /\ 0 <= MaxLog
  BY RedisAssumption
<1>3. LogTyped(FreshRedis)
  BY <1>1, <1>2, RedisAssumption DEF LogTyped
<1>4. CallsMatch(FreshRedis)
  BY <1>1, <1>2 DEF CallsMatch
<1> QED BY <1>3, <1>4 DEF LogAt

\* The newest entry first, and the oldest cut off.
LEMMA LoggedAt ==
  ASSUME NEW log \in Seq(LogEntries), Len(log) <= MaxLog, NEW e \in LogEntries
  PROVE  /\ Logged(log, e) \in Seq(LogEntries)
         /\ Len(Logged(log, e)) <= MaxLog
         /\ 1 \in DOMAIN Logged(log, e) /\ Logged(log, e)[1] = e
         /\ \A i \in DOMAIN Logged(log, e) :
              i # 1 => i - 1 \in DOMAIN log /\ Logged(log, e)[i] = log[i - 1]
<1> DEFINE n == IF Len(log) < MaxLog THEN Len(log) + 1 ELSE MaxLog
           s == <<e>> \o log
<1>1. /\ Len(log) \in Nat /\ DOMAIN log = 1..Len(log)
      /\ n \in Nat /\ 1 <= n /\ n <= MaxLog /\ n <= Len(log) + 1
  BY RedisAssumption
<1>2. /\ s \in Seq(LogEntries) /\ Len(s) = Len(log) + 1
      /\ \A i \in 1..Len(s) : s[i] = IF i = 1 THEN e ELSE log[i - 1]
  OBVIOUS
<1>3. Logged(log, e) = SubSeq(s, 1, n)
  BY DEF Logged
<1> HIDE DEF n, s
<1>4. /\ SubSeq(s, 1, n) \in Seq(LogEntries) /\ Len(SubSeq(s, 1, n)) = n
      /\ DOMAIN SubSeq(s, 1, n) = 1..n
      /\ \A i \in 1..n : SubSeq(s, 1, n)[i] = s[i]
  BY <1>1, <1>2
<1>5. \A i \in 1..n : i # 1 => i - 1 \in 1..Len(log)
  BY <1>1
<1>6. 1 \in 1..n /\ 1..n \subseteq 1..Len(s)
  BY <1>1, <1>2
<1> QED BY <1>1, <1>2, <1>3, <1>4, <1>5, <1>6

\* A command that runs, with no other on its way.
LEMMA RunAt ==
  ASSUME NEW w, LogAt(w), w.call = {}, w.pending = Nothing, NEW verb \in Verbs \cup {"SCAN"}
  PROVE  LogAt(Run(w, verb))
<1> DEFINE e == [id |-> w.commands + 1, verb |-> verb, db |-> w.db,
                 status |-> "running", reply |-> Nothing]
           v == Run(w, verb)
<1>1. LogTyped(w) /\ CallsMatch(w)
  BY DEF LogAt
<1>2. e \in LogEntries /\ e.id = w.commands + 1 /\ e.status = "running"
  BY <1>1 DEF LogTyped, LogEntries
<1>3. /\ DOMAIN v = DOMAIN w /\ v.db = w.db /\ v.pending = w.pending
      /\ v.commands = w.commands + 1 /\ v.log = Logged(w.log, e)
      /\ v.call = {[id |-> w.commands + 1, verb |-> verb]}
  BY <1>1 DEF Run, LogTyped, RedisFields
<1> HIDE DEF e, v
<1>4. /\ v.log \in Seq(LogEntries) /\ Len(v.log) <= MaxLog
      /\ 1 \in DOMAIN v.log /\ v.log[1] = e
      /\ \A i \in DOMAIN v.log : i # 1 => i - 1 \in DOMAIN w.log /\ v.log[i] = w.log[i - 1]
  <2>1. w.log \in Seq(LogEntries) /\ Len(w.log) <= MaxLog
    BY <1>1 DEF LogTyped
  <2> DEFINE m == Logged(w.log, e)
  <2>2. /\ m \in Seq(LogEntries) /\ Len(m) <= MaxLog
        /\ 1 \in DOMAIN m /\ m[1] = e
        /\ \A i \in DOMAIN m : i # 1 => i - 1 \in DOMAIN w.log /\ m[i] = w.log[i - 1]
    BY <1>2, <2>1, LoggedAt
  <2> HIDE DEF m
  <2>3. v.log = m
    BY <1>3 DEF m
  <2> QED BY <2>2, <2>3
<1>5. \A i \in DOMAIN w.log : /\ w.log[i].id \in Nat /\ w.log[i].id <= w.commands
                              /\ w.log[i].status # "running"
  <2>1. \A i \in DOMAIN w.log : w.log[i] \in LogEntries
    BY <1>1 DEF LogTyped
  <2> QED BY <1>1, <2>1 DEF LogTyped, CallsMatch, LogEntries
<1>6. w.commands \in Nat
  BY <1>1 DEF LogTyped
<1>7. \A i \in DOMAIN v.log : v.log[i].id <= w.commands + 1
  BY <1>2, <1>4, <1>5, <1>6
<1>8. LogTyped(v)
  BY <1>1, <1>3, <1>4, <1>6, <1>7 DEF LogTyped
<1>9. \A i \in DOMAIN v.log : v.log[i].id = w.commands + 1 => i = 1
  BY <1>4, <1>5, <1>6
<1>10. \A i \in DOMAIN v.log : v.log[i].status = "running" => i = 1
  BY <1>4, <1>5
<1>11. CallsMatch(v)
  BY <1>2, <1>3, <1>4, <1>9, <1>10 DEF CallsMatch
<1> QED BY <1>8, <1>11 DEF LogAt, v

\* The answer settles the entry of the call, and nothing runs any more.
LEMMA SettledAt ==
  ASSUME NEW w, LogAt(w), NEW c \in w.call, NEW status \in {"done", "failed"},
         NEW reply \in [keys : SUBSET Keys, more : BOOLEAN] \cup {Nothing}
  PROVE  LogAt([w EXCEPT !.call = {}, !.log = Settled(@, c.id, status, reply)])
<1> DEFINE s == Settled(w.log, c.id, status, reply)
           v == [w EXCEPT !.call = {}, !.log = Settled(@, c.id, status, reply)]
<1>1. LogTyped(w) /\ CallsMatch(w)
  BY DEF LogAt
<1>2. /\ DOMAIN v = DOMAIN w /\ v.db = w.db /\ v.pending = w.pending
      /\ v.commands = w.commands /\ v.log = s /\ v.call = {}
  BY <1>1 DEF LogTyped, RedisFields
<1>3. /\ Len(w.log) \in Nat /\ DOMAIN w.log = 1..Len(w.log)
      /\ \A i \in DOMAIN w.log : w.log[i] \in LogEntries
  BY <1>1 DEF LogTyped
<1>4. DOMAIN s = DOMAIN w.log
  BY DEF Settled
<1>5. ASSUME NEW i \in DOMAIN w.log
      PROVE  s[i] \in LogEntries /\ s[i].id = w.log[i].id /\ s[i].status # "running"
  <2>1. w.log[i] \in LogEntries
    BY <1>3
  <2>2. CASE w.log[i].id = c.id
    <3>1. s[i] = [w.log[i] EXCEPT !.status = status, !.reply = reply]
      BY <2>2 DEF Settled
    <3> HIDE DEF s
    <3> QED BY <2>1, <3>1 DEF LogEntries
  <2>3. CASE w.log[i].id # c.id
    <3>1. s[i] = w.log[i]
      BY <2>3 DEF Settled
    <3>2. w.log[i].status # "running"
      BY <1>1, <2>3 DEF CallsMatch
    <3> HIDE DEF s
    <3> QED BY <2>1, <3>1, <3>2
  <2> QED BY <2>2, <2>3
<1>6. s \in Seq(LogEntries) /\ Len(s) = Len(w.log)
  <2>1. s = [i \in 1..Len(w.log) |-> s[i]]
    BY <1>3 DEF Settled
  <2> HIDE DEF s
  <2>2. s \in [1..Len(w.log) -> LogEntries]
    BY <1>3, <1>4, <1>5, <2>1
  <2> QED BY <1>3, <2>2
<1> HIDE DEF s, v
<1>7. LogTyped(v)
  BY <1>1, <1>2, <1>4, <1>5, <1>6 DEF LogTyped
<1>8. CallsMatch(v)
  BY <1>2, <1>4, <1>5 DEF CallsMatch
<1> QED BY <1>7, <1>8 DEF LogAt, v

LEMMA LogKeeps ==
  ASSUME LogAt(redis), RedisActs
  PROVE  LogAt(redis')
<1>d. /\ RedisFields \subseteq DOMAIN redis /\ redis.db \in Dbs
      /\ redis.pending \in Verbs \cup {Nothing}
      /\ redis.pending # Nothing => redis.call = {}
  BY DEF LogAt, LogTyped, CallsMatch
<1> USE DEF RedisFields
<1>1. ASSUME NEW w, SameLog(w, redis), redis' = w PROVE LogAt(redis')
  BY <1>1, SameLogAt
<1>2. ASSUME NEW w, RedisFields \subseteq DOMAIN w
      PROVE  /\ DOMAIN Opened(w) = DOMAIN w /\ DOMAIN Scanned(w) = DOMAIN w
             /\ \A x \in RedisFields : x # "value" => Opened(w)[x] = w[x]
             /\ \A x \in RedisFields : x # "list" => Scanned(w)[x] = w[x]
  BY <1>2 DEF Opened, Scanned
<1>3. ASSUME NEW w, RedisFields \subseteq DOMAIN w
      PROVE  SameLog(Opened(w), redis) <=> SameLog(w, redis)
  BY <1>2, <1>3 DEF SameLog
<1>4. ASSUME NEW w, RedisFields \subseteq DOMAIN w
      PROVE  SameLog(Scanned(w), redis) <=> SameLog(w, redis)
  BY <1>2, <1>4 DEF SameLog
<1>5. ASSUME NEW w, RedisFields \subseteq DOMAIN w, SameLog(w, redis)
      PROVE  SameLog(Opened(w), redis) /\ SameLog(Scanned(Opened(w)), redis)
  <2> DEFINE v == Opened(w)
  <2>1. RedisFields \subseteq DOMAIN v /\ SameLog(v, redis)
    BY <1>2, <1>3, <1>5
  <2> HIDE DEF v
  <2>2. SameLog(Scanned(v), redis)
    BY <1>4, <2>1
  <2> QED BY <2>1, <2>2 DEF v
<1>6. CASE DatabasesAnswered
  BY <1>6, <1>1, <1>d DEF DatabasesAnswered, SameLog
<1>7. CASE ScanFails
  BY <1>7, <1>1, <1>d DEF ScanFails, SameLog
<1>8. CASE ValueFails
  BY <1>8, <1>1, <1>d DEF ValueFails, SameLog
<1>9. ASSUME NEW p \in Patterns, Scan(p) PROVE LogAt(redis')
  <2> DEFINE w == [redis EXCEPT !.selected = Nothing, !.pattern = p]
  <2>1. RedisFields \subseteq DOMAIN w /\ SameLog(w, redis)
    BY <1>d DEF SameLog
  <2> HIDE DEF w
  <2>2. SameLog(Scanned(Opened(w)), redis)
    BY <1>5, <2>1
  <2>3. redis' = Scanned(Opened(w))
    BY <1>9 DEF Scan, w
  <2> QED BY <1>1, <2>2, <2>3
<1>10. ASSUME NEW d \in Dbs, PickDb(d) PROVE LogAt(redis')
  <2>0. PICK w : /\ redis' = Scanned(Opened(w))
                 /\ w \in {[redis EXCEPT !.db = d, !.selected = Nothing], [redis EXCEPT !.db = d]}
    BY <1>10 DEF PickDb
  <2>1. RedisFields \subseteq DOMAIN w /\ SameLog(w, redis)
    BY <1>d, <2>0 DEF SameLog
  <2> QED BY <1>1, <1>5, <2>0, <2>1
<1>11. ASSUME NEW k, redis' = Opened([redis EXCEPT !.selected = k])
                    \/ redis' = Opened([redis EXCEPT !.selected = k, !.tab = "keys"])
       PROVE  LogAt(redis')
  <2>0. PICK w : redis' = Opened(w) /\ w \in {[redis EXCEPT !.selected = k],
                                            [redis EXCEPT !.selected = k, !.tab = "keys"]}
    BY <1>11
  <2>1. RedisFields \subseteq DOMAIN w /\ SameLog(w, redis)
    BY <1>d, <2>0 DEF SameLog
  <2> QED BY <1>1, <1>5, <2>0, <2>1
<1>12. ASSUME NEW data, ScanAnswered(data) \/ ScanAnsweredLate(data) PROVE LogAt(redis')
  BY <1>12, <1>1, <1>d DEF ScanAnswered, ScanAnsweredLate, SameLog
<1>13. ASSUME NEW data, ValueAnswered(data) PROVE LogAt(redis')
  BY <1>13, <1>1, <1>d DEF ValueAnswered, SameLog
<1>14. ASSUME NEW tab, SwitchTab(tab) PROVE LogAt(redis')
  BY <1>14, <1>1, <1>d DEF SwitchTab, SameLog
<1>15. ASSUME NEW v \in Verbs, Submit(v) PROVE LogAt(redis')
  <2>1. redis.pending = Nothing /\ redis.call = {}
    BY <1>15 DEF Submit, ConsoleShown, Running
  <2>2. LogAt(Run(redis, v))
    BY <2>1, RunAt
  <2>3. LogAt([redis EXCEPT !.pending = v])
    BY <1>d, <2>1 DEF LogAt, LogTyped, CallsMatch
  <2> QED BY <1>15, <2>2, <2>3 DEF Submit
<1>16. CASE Confirm
  <2> DEFINE w == [redis EXCEPT !.pending = Nothing]
  <2>1. SameLog(w, redis) /\ w.pending = Nothing /\ w.call = redis.call
    BY <1>d DEF SameLog
  <2>2. redis.pending \in Verbs /\ redis.call = {}
    BY <1>16, <1>d DEF Confirm
  <2> HIDE DEF w
  <2>3. LogAt(w)
    BY <2>1, SameLogAt
  <2>4. LogAt(Run(w, redis.pending))
    BY <2>1, <2>2, <2>3, RunAt
  <2> QED BY <1>16, <2>4 DEF Confirm, w
<1>17. CASE Cancel
  BY <1>17, <1>1, <1>d DEF Cancel, SameLog
<1>18. CASE Clear
  <2>1. LogAt([redis EXCEPT !.log = <<>>])
    <3>1. <<>> \in Seq(LogEntries) /\ Len(<<>>) = 0 /\ DOMAIN <<>> = {} /\ 0 <= MaxLog
      BY RedisAssumption
    <3> QED BY <1>d, <3>1 DEF LogAt, LogTyped, CallsMatch
  <2> QED BY <1>18, <2>1 DEF Clear
<1>19. CASE CommandAnswered
  <2>1. PICK c \in redis.call :
          \/ \E r \in Replies(c.verb) :
               redis' = [redis EXCEPT !.call = {}, !.log = Settled(@, c.id, "done", r)]
          \/ redis' = [redis EXCEPT !.call = {}, !.log = Settled(@, c.id, "failed", Nothing)]
    BY <1>19 DEF CommandAnswered
  <2>2. Replies(c.verb) \subseteq [keys : SUBSET Keys, more : BOOLEAN]
    <3>1. {{}, Keys} \subseteq SUBSET Keys
      OBVIOUS
    <3>2. [keys |-> {}, more |-> FALSE] \in [keys : SUBSET Keys, more : BOOLEAN]
      OBVIOUS
    <3>3. [keys : {{}, Keys}, more : BOOLEAN] \subseteq [keys : SUBSET Keys, more : BOOLEAN]
      BY <3>1
    <3> QED BY <3>2, <3>3 DEF Replies
  <2>3. ASSUME NEW r \in Replies(c.verb),
               redis' = [redis EXCEPT !.call = {}, !.log = Settled(@, c.id, "done", r)]
        PROVE  LogAt(redis')
    BY <2>2, <2>3, SettledAt
  <2>4. CASE redis' = [redis EXCEPT !.call = {}, !.log = Settled(@, c.id, "failed", Nothing)]
    BY <2>4, SettledAt
  <2> QED BY <2>1, <2>3, <2>4
<1>20. ASSUME NEW i \in DOMAIN redis.log, ScanNext(i) PROVE LogAt(redis')
  <2>1. redis.pending = Nothing /\ redis.call = {}
    BY <1>20 DEF ScanNext, ConsoleShown, Running
  <2>2. LogAt(Run(redis, "SCAN"))
    BY <2>1, RunAt
  <2> QED BY <1>20, <2>2 DEF ScanNext
<1>21. ASSUME NEW k, SelectKey(k) PROVE LogAt(redis')
  BY <1>21, <1>11 DEF SelectKey
<1>22. ASSUME NEW i, NEW k, OpenKey(i, k) PROVE LogAt(redis')
  BY <1>22, <1>11 DEF OpenKey
<1> QED BY <1>6, <1>7, <1>8, <1>9, <1>10, <1>12, <1>13, <1>14, <1>15, <1>16, <1>17, <1>18,
           <1>19, <1>20, <1>21, <1>22
  DEF RedisActs

-----------------------------------------------------------------------------
(***************************************************************************)
(* The health of the region that is selected.                              *)
(***************************************************************************)

HealthAt(w) ==
  /\ {"region", "health", "polling", "select"} \subseteq DOMAIN w
  /\ LoadAt(w.health, w.region)

LEMMA FreshHeaderAt == ASSUME NEW last PROVE HealthAt(FreshHeader(last))
<1> DEFINE r == IF last = Nothing THEN ConfigRegion ELSE last
<1>1. LoadAt(Mounted(r), r)
  BY MountedAt
<1>2. FreshHeader(last) =
        [region |-> r, health |-> Mounted(r), polling |-> "call", select |-> ClosedSelect]
  BY DEF FreshHeader
<1> HIDE DEF r
<1> QED BY <1>1, <1>2 DEF HealthAt

\* Another round is for the region it is given.
LEMMA RestartedAt ==
  ASSUME NEW w, {"region", "health", "polling", "select"} \subseteq DOMAIN w,
         NEW r, w.region = r
  PROVE  HealthAt(Restarted(w, r))
<1> DEFINE late == IF w.polling = "call" THEN w.health.key ELSE w.health.late
           load == [Mounted(r) EXCEPT !.late = late]
<1>1. LoadAt(load, r)
  BY DEF LoadAt, IsLoad, Mounted, ShownFor, HasData
<1>2. Restarted(w, r) = [w EXCEPT !.polling = "call", !.health = load]
  BY DEF Restarted
<1> HIDE DEF late, load
<1> QED BY <1>1, <1>2 DEF HealthAt

LEMMA HeaderKeeps ==
  ASSUME HealthAt(header), HeaderActs
  PROVE  HealthAt(header')
<1>d. /\ {"region", "health", "polling", "select"} \subseteq DOMAIN header
      /\ LoadAt(header.health, header.region)
  BY DEF HealthAt
<1>1. ASSUME NEW w, DOMAIN w = DOMAIN header, w.region = header.region,
             w.health = header.health, header' = w
      PROVE  HealthAt(header')
  BY <1>1, <1>d DEF HealthAt
<1>2. CASE HealthAnswered
  <2> DEFINE good == Succeeded(header.health, [of |-> header.health.key])
             bad == Failed(header.health)
  <2>1. [of |-> header.health.key].of = header.health.key
    OBVIOUS
  <2>2. LoadAt(good, header.region)
    BY <1>d, <2>1, SucceededAt
  <2>3. LoadAt(bad, header.region)
    BY <1>d, FailedAt
  <2>4. \/ header' = [header EXCEPT !.polling = "timer", !.health = good]
        \/ header' = [header EXCEPT !.polling = "timer", !.health = bad]
    BY <1>2 DEF HealthAnswered
  <2> HIDE DEF good, bad
  <2> QED BY <1>d, <2>2, <2>3, <2>4 DEF HealthAt
<1>3. CASE HealthAnsweredLate
  <2> DEFINE load == LateAnswer(header.health, [of |-> header.health.late])
  <2>1. LoadAt(load, header.region)
    BY <1>d, LateAt
  <2>2. header' = [header EXCEPT !.health = load]
    BY <1>3 DEF HealthAnsweredLate
  <2> HIDE DEF load
  <2> QED BY <1>d, <2>1, <2>2 DEF HealthAt
<1>4. CASE PollTimer
  BY <1>4, <1>1, <1>d DEF PollTimer
<1>5. CASE RetryHealth
  BY <1>5, <1>d, RestartedAt DEF RetryHealth
<1>6. CASE OpenSelect
  <2> DEFINE w == [header EXCEPT !.select = [ClosedSelect EXCEPT !.open = TRUE]]
  <2>1. DOMAIN w = DOMAIN header /\ w.region = header.region /\ w.health = header.health
    OBVIOUS
  <2>2. header' = w
    BY <1>6 DEF OpenSelect
  <2> HIDE DEF w
  <2> QED BY <1>1, <2>1, <2>2
<1>7. CASE CloseSelect
  BY <1>7, <1>1, <1>d DEF CloseSelect
<1>8. ASSUME NEW t \in Texts, Search(t) PROVE HealthAt(header')
  BY <1>8, <1>1, <1>d DEF Search
<1>9. ASSUME NEW i, Highlight(i) PROVE HealthAt(header')
  BY <1>9, <1>1, <1>d DEF Highlight
<1>10. CASE Choose
  <2> DEFINE r == Shown(header.select)[header.select.active]
             closed == [header EXCEPT !.select.open = FALSE]
             moved == [closed EXCEPT !.region = r]
  <2>1. header' = closed \/ header' = Restarted(moved, r)
    BY <1>10 DEF Choose
  <2>2. /\ DOMAIN closed = DOMAIN header /\ closed.region = header.region
        /\ closed.health = header.health
        /\ DOMAIN moved = DOMAIN header /\ moved.region = r
    BY <1>d
  <2> HIDE DEF r, closed, moved
  <2>3. HealthAt(Restarted(moved, r))
    BY <1>d, <2>2, RestartedAt
  <2> QED BY <1>1, <2>1, <2>2, <2>3
<1> QED BY <1>2, <1>3, <1>4, <1>5, <1>6, <1>7, <1>8, <1>9, <1>10 DEF HeaderActs

-----------------------------------------------------------------------------
(***************************************************************************)
(* The list of the view and of the region.  A list that the emulator read  *)
(* is for the load that asked for it.                                      *)
(***************************************************************************)

CloudFields == {"region", "calls", "unsure", "view", "list", "read", "dialog", "preview"}

ListAt(w) ==
  /\ CloudFields \subseteq DOMAIN w
  /\ LoadAt(w.list, <<w.view, w.region>>)
  /\ \A data \in w.read : data.of = w.list.key

SameList(v, w) ==
  /\ DOMAIN v = DOMAIN w
  /\ v.view = w.view /\ v.region = w.region /\ v.list = w.list /\ v.read = w.read

LEMMA SameListAt ==
  ASSUME NEW v, NEW w, ListAt(w), SameList(v, w)
  PROVE  ListAt(v)
BY DEF ListAt, SameList

LEMMA FreshViewAt ==
  ASSUME NEW view, NEW r, NEW w, {"region", "calls", "unsure"} \subseteq DOMAIN w, w.region = r
  PROVE  ListAt(Mounting(FreshView(view, r), w))
<1> DEFINE m == Mounting(FreshView(view, r), w)
<1>1. LoadAt(Mounted(<<view, r>>), <<view, r>>)
  BY MountedAt
<1>2. /\ CloudFields \subseteq DOMAIN m
      /\ m.view = view /\ m.list = Mounted(<<view, r>>) /\ m.read = {} /\ m.region = r
  BY DEF Mounting, FreshView, CloudFields
<1> HIDE DEF m
<1>3. ListAt(m)
  BY <1>1, <1>2 DEF ListAt
<1> QED BY <1>3 DEF m

LEMMA FreshCloudAt == ASSUME NEW r PROVE ListAt(FreshCloud(r))
<1> DEFINE w == [region |-> r, calls |-> {}, unsure |-> FALSE]
<1>1. {"region", "calls", "unsure"} \subseteq DOMAIN w /\ w.region = r
  OBVIOUS
<1>2. FreshCloud(r) = Mounting(FreshView("launcher", r), w)
  BY DEF FreshCloud
<1> HIDE DEF w
<1> QED BY <1>1, <1>2, FreshViewAt

LEMMA ReloadListAt ==
  ASSUME NEW w, CloudFields \subseteq DOMAIN w
  PROVE  ListAt(ReloadList(w))
<1> DEFINE m == ReloadList(w)
<1>1. LoadAt(Reloaded(w.list, <<w.view, w.region>>), <<w.view, w.region>>)
  BY ReloadedAt
<1>2. /\ DOMAIN m = DOMAIN w /\ m.view = w.view /\ m.region = w.region
      /\ m.list = Reloaded(w.list, <<w.view, w.region>>) /\ m.read = {}
  BY DEF ReloadList, CloudFields
<1> HIDE DEF m
<1>3. ListAt(m)
  BY <1>1, <1>2 DEF ListAt
<1> QED BY <1>3 DEF m

LEMMA CloudKeeps ==
  ASSUME ListAt(cloud), CloudActs
  PROVE  ListAt(cloud')
<1>d. /\ CloudFields \subseteq DOMAIN cloud
      /\ LoadAt(cloud.list, <<cloud.view, cloud.region>>)
      /\ \A data \in cloud.read : data.of = cloud.list.key
  BY DEF ListAt
<1> USE DEF CloudFields
<1>1. ASSUME NEW w, SameList(w, cloud), cloud' = w PROVE ListAt(cloud')
  BY <1>1, SameListAt
<1>2. ASSUME NEW v \in Views, GoTo(v) PROVE ListAt(cloud')
  <2> DEFINE w == [cloud EXCEPT !.unsure = cloud.calls # {},
                     !.calls = {[c EXCEPT !.mounted = FALSE, !.waiting = FALSE] : c \in @}]
  <2>1. DOMAIN w = DOMAIN cloud /\ w.region = cloud.region
    BY <1>d
  <2>2. cloud' = Mounting(FreshView(v, cloud.region), w)
    BY <1>2 DEF GoTo
  <2> HIDE DEF w
  <2> QED BY <1>d, <2>1, <2>2, FreshViewAt
<1>3. ASSUME NEW r \in AllRegions, ChangeRegion(r) PROVE ListAt(cloud')
  <2> DEFINE w == [cloud EXCEPT !.region = r]
  <2>1. DOMAIN w = DOMAIN cloud
    OBVIOUS
  <2>2. cloud' = ReloadList(w)
    BY <1>3 DEF ChangeRegion
  <2> HIDE DEF w
  <2> QED BY <1>d, <2>1, <2>2, ReloadListAt
<1>4. CASE ReadList
  BY <1>4, <1>d DEF ReadList, ListAt
<1>5. CASE ListAnswered
  <2>1. PICK data \in cloud.read :
          cloud' = [cloud EXCEPT !.list = Succeeded(@, data), !.read = {}]
    BY <1>5 DEF ListAnswered
  <2> DEFINE load == Succeeded(cloud.list, data)
  <2>2. LoadAt(load, <<cloud.view, cloud.region>>)
    BY <1>d, SucceededAt
  <2>3. cloud' = [cloud EXCEPT !.list = load, !.read = {}]
    BY <2>1
  <2> HIDE DEF load
  <2> QED BY <1>d, <2>2, <2>3 DEF ListAt
<1>6. CASE ListFails
  <2>1. PICK status \in {"error", "unreachable"} :
          cloud' = [cloud EXCEPT !.list.status = status, !.read = {}]
    BY <1>6 DEF ListFails
  <2> DEFINE load == [cloud.list EXCEPT !.status = status]
  <2>2. LoadAt(load, <<cloud.view, cloud.region>>)
    BY <1>d DEF LoadAt, IsLoad, ShownFor, HasData
  <2>3. cloud' = [cloud EXCEPT !.list = load, !.read = {}]
    BY <2>1
  <2> HIDE DEF load
  <2> QED BY <1>d, <2>2, <2>3 DEF ListAt
<1>7. CASE RetryMail
  BY <1>7, <1>d, ReloadListAt DEF RetryMail
<1>8. ASSUME NEW n \in Names, Create(n) PROVE ListAt(cloud')
  <2> DEFINE w == [cloud EXCEPT !.calls = @ \cup {Sent(cloud, "create", n)}]
  <2>1. SameList(w, cloud)
    BY <1>d DEF SameList
  <2>2. cloud' = w
    BY <1>8 DEF Create
  <2> HIDE DEF w
  <2> QED BY <1>1, <2>1, <2>2
<1>9. ASSUME NEW n \in Names, Preview(n) PROVE ListAt(cloud')
  <2> DEFINE w == [cloud EXCEPT !.dialog = <<"preview", n>>, !.preview = Mounted(n)]
  <2>1. SameList(w, cloud)
    BY <1>d DEF SameList
  <2>2. cloud' = w
    BY <1>9 DEF Preview
  <2> HIDE DEF w
  <2> QED BY <1>1, <2>1, <2>2
<1>10. ASSUME NEW op, NEW n \in Names, AskRow(op, n) PROVE ListAt(cloud')
  BY <1>10, <1>1, <1>d DEF AskRow, SameList
<1>11. CASE PreviewAnswered
  BY <1>11, <1>1, <1>d DEF PreviewAnswered, SameList
<1>12. CASE CloseDialog
  <2> DEFINE w == [cloud EXCEPT !.dialog = Nothing, !.preview = Mounted(Nothing)]
  <2>1. SameList(w, cloud)
    BY <1>d DEF SameList
  <2>2. cloud' = w
    BY <1>12 DEF CloseDialog
  <2> HIDE DEF w
  <2> QED BY <1>1, <2>1, <2>2
<1>13. CASE ConfirmRow
  <2> DEFINE w == [cloud EXCEPT !.dialog = Nothing,
                     !.calls = @ \cup {Sent(cloud, cloud.dialog[1], cloud.dialog[2])}]
  <2>1. SameList(w, cloud)
    BY <1>d DEF SameList
  <2>2. cloud' = w
    BY <1>13 DEF ConfirmRow
  <2> HIDE DEF w
  <2> QED BY <1>1, <2>1, <2>2
<1>14. ASSUME NEW c \in cloud.calls, CarryOut(c) PROVE ListAt(cloud')
  BY <1>14, <1>1, <1>d DEF CarryOut, SameList
<1>15. ASSUME NEW c \in cloud.calls, CallSucceeds(c) PROVE ListAt(cloud')
  <2> DEFINE w == [cloud EXCEPT !.calls = @ \ {c}]
  <2>1. SameList(w, cloud)
    BY <1>d DEF SameList
  <2>2. cloud' = ReloadList(w) \/ cloud' = w
    BY <1>15 DEF CallSucceeds
  <2> HIDE DEF w
  <2>3. ListAt(ReloadList(w))
    BY <1>d, <2>1, ReloadListAt DEF SameList
  <2> QED BY <1>1, <2>1, <2>2, <2>3
<1>16. ASSUME NEW c \in cloud.calls, CallFails(c) PROVE ListAt(cloud')
  <2> DEFINE w == [cloud EXCEPT !.calls = @ \ {c}, !.unsure = @ \/ c.done]
  <2>1. SameList(w, cloud)
    BY <1>d DEF SameList
  <2>2. cloud' = w
    BY <1>16 DEF CallFails
  <2> HIDE DEF w
  <2> QED BY <1>1, <2>1, <2>2
<1>17. ASSUME NEW at, NEW names, OthersOwn(at, names) PROVE ListAt(cloud')
  <2> DEFINE unsure == cloud.unsure \/ OnTheScreen(cloud, at)
  <2>1. cloud' = [cloud EXCEPT !.unsure = unsure]
    BY <1>17 DEF OthersOwn
  <2> HIDE DEF unsure
  <2>2. SameList(cloud', cloud)
    BY <1>d, <2>1 DEF SameList
  <2> QED BY <2>2, SameListAt
<1> QED BY <1>2, <1>3, <1>4, <1>5, <1>6, <1>7, <1>8, <1>9, <1>10, <1>11, <1>12, <1>13,
           <1>14, <1>15, <1>16, <1>17
  DEF CloudActs

-----------------------------------------------------------------------------
(***************************************************************************)
(* The log of a build.  What was read is of what was written up to the     *)
(* offset, the request on its way asks for what follows it, and so does    *)
(* its answer, of which the end may be cut off; an answer that says there  *)
(* is no more was given after the build's end.                             *)
(***************************************************************************)

JenkinsFields == {"poll", "jobs", "open", "triggers", "builds", "log", "lateRead"}
StreamFields == {"build", "offset", "text", "status", "live", "timer", "read"}

AnswerFits(r, wr, en) ==
  /\ DOMAIN r.answer = {"text", "offset", "more"}
  /\ r.answer.offset \in Nat /\ r.from <= r.answer.offset /\ r.answer.offset <= wr[r.build]
  /\ r.answer.text = AnswerText(r.build, r.from, r.answer.offset)
  /\ ~r.answer.more => r.build \in en /\ r.answer.offset = wr[r.build]

ReadFits(l, wr, en) ==
  /\ DOMAIN l.read = {"build", "from", "answer"}
  /\ l.read.build = l.build /\ l.read.from = l.offset
  /\ l.read.answer # Nothing => AnswerFits(l.read, wr, en)

LogIsWhole(l, wr, en) ==
  /\ DOMAIN l = StreamFields
  /\ l.build \in Builds /\ l.offset \in Nat /\ l.offset <= wr[l.build]
  /\ l.text \in Seq({l.build} \X Nat) /\ IsLogOf(l.text, l.build, l.offset)
  /\ l.status = "active" /\ ~l.live => l.build \in en /\ l.offset = wr[l.build]
  /\ l.read # Nothing => ReadFits(l, wr, en)

BuildLogAt(w, wr, en) ==
  /\ JenkinsFields \subseteq DOMAIN w
  /\ wr \in [Builds -> Nat]
  /\ w.log # Nothing => LogIsWhole(w.log, wr, en)

\* Everything else on the page may change, and the dialog may close.
KeepsLog(v, w) ==
  JenkinsFields \subseteq DOMAIN v /\ v.log \in {w.log, Nothing}

LEMMA KeepsLogAt ==
  ASSUME NEW v, NEW w, NEW wr, NEW en, BuildLogAt(w, wr, en), KeepsLog(v, w)
  PROVE  BuildLogAt(v, wr, en)
BY DEF BuildLogAt, KeepsLog

LEMMA RowsShownKeeps ==
  ASSUME NEW w, JenkinsFields \subseteq DOMAIN w
  PROVE  KeepsLog(RowsShown(w), w)
<1> DEFINE s == Stopped(w)
           v == [s EXCEPT !.builds = Reloaded(@, OpenRow(w))]
<1>1. DOMAIN s = DOMAIN w /\ s.log = Nothing
  BY DEF Stopped, JenkinsFields
<1>2. RowsShown(w) = w \/ RowsShown(w) = v
  BY DEF RowsShown
<1> HIDE DEF s
<1>3. DOMAIN v = DOMAIN s /\ v.log = s.log
  BY <1>1 DEF JenkinsFields
<1> HIDE DEF v
<1> QED BY <1>1, <1>2, <1>3 DEF KeepsLog

LEMMA RestartKeeps ==
  ASSUME NEW w, JenkinsFields \subseteq DOMAIN w
  PROVE  KeepsLog(Restart(w), w)
<1> DEFINE jobs == [Mounted("jobs") EXCEPT !.late = IF w.poll = "call" THEN "jobs" ELSE w.jobs.late]
           u == [w EXCEPT !.poll = "call", !.jobs = jobs]
           v == TableGone(u)
<1>1. Restart(w) = RowsShown(v)
  BY DEF Restart
<1>2. DOMAIN u = DOMAIN w /\ u.log = w.log
  BY DEF JenkinsFields
<1> HIDE DEF jobs, u
<1>3. DOMAIN v = DOMAIN u /\ v.log = u.log
  BY <1>2 DEF TableGone, JenkinsFields
<1> HIDE DEF v
<1>4. KeepsLog(RowsShown(v), v)
  BY <1>2, <1>3, RowsShownKeeps
<1> QED BY <1>1, <1>2, <1>3, <1>4 DEF KeepsLog

LEMMA FreshJenkinsAt == ASSUME NEW en PROVE BuildLogAt(FreshJenkins, NothingWritten, en)
BY DEF FreshJenkins, NothingWritten, BuildLogAt, JenkinsFields

\* The log is read from the top.
LEMMA StreamAt ==
  ASSUME NEW b \in Builds, NEW wr \in [Builds -> Nat], NEW en
  PROVE  LogIsWhole(Stream(b), wr, en)
<1> DEFINE l == Stream(b)
<1>1. /\ DOMAIN l = StreamFields /\ l.build = b /\ l.offset = 0 /\ l.text = <<>>
      /\ l.status = "loading" /\ l.read = Read(b, 0)
  BY DEF Stream, StreamFields
<1>2. /\ DOMAIN Read(b, 0) = {"build", "from", "answer"}
      /\ Read(b, 0).build = b /\ Read(b, 0).from = 0 /\ Read(b, 0).answer = Nothing
  BY DEF Read
<1>3. <<>> \in Seq({b} \X Nat) /\ IsLogOf(<<>>, b, 0)
  BY DEF IsLogOf
<1>4. 0 \in Nat /\ 0 <= wr[b]
  OBVIOUS
<1> HIDE DEF l
<1>5. ReadFits(l, wr, en)
  BY <1>1, <1>2 DEF ReadFits
<1>6. LogIsWhole(l, wr, en)
  BY <1>1, <1>3, <1>4, <1>5 DEF LogIsWhole
<1> QED BY <1>6 DEF l

\* As much of the rest as one answer holds is appended to what is there.
LEMMA LogGrows ==
  ASSUME NEW b, NEW m \in Nat, NEW n \in Nat, m <= n,
         NEW s \in Seq({b} \X Nat), IsLogOf(s, b, m)
  PROVE  s \o AnswerText(b, m, n) \in Seq({b} \X Nat) /\ IsLogOf(s \o AnswerText(b, m, n), b, n)
<1> DEFINE S == {b} \X Nat
           k == IF n - m <= MaxAnswer THEN n - m ELSE MaxAnswer
           t == AnswerText(b, m, n)
           v == s \o t
<1>1. /\ MaxAnswer \in Nat /\ MaxAnswer >= 1 /\ k \in Nat /\ m + k <= n
      /\ m + k < n => k = MaxAnswer
      /\ (1..(n - m)) \cap (1..MaxAnswer) = 1..k
  BY JenkinsAssumption
<1>2. t = [i \in 1..k |-> <<b, m + i>>]
  BY <1>1 DEF AnswerText
<1> HIDE DEF k, t
<1>3. t \in Seq(S) /\ Len(t) = k /\ \A i \in 1..k : t[i] = <<b, m + i>>
  BY <1>1, <1>2
<1>4. /\ \A i \in DOMAIN s : s[i] = <<b, s[i][2]>> /\ s[i][2] \in 1..m
      /\ \A i, j \in DOMAIN s : i < j => s[i][2] < s[j][2]
      /\ \A c \in (1..m) \ ChunksOf(s) : CutOff(s, c)
      /\ Len(s) \in Nat /\ DOMAIN s = 1..Len(s)
  BY DEF IsLogOf
<1> DEFINE p == Len(s)
<1>5. /\ v \in Seq(S) /\ Len(v) = p + k
      /\ \A i \in 1..(p + k) : v[i] = IF i <= p THEN s[i] ELSE t[i - p]
  <2>1. /\ v \in Seq(S) /\ Len(v) = Len(s) + Len(t)
        /\ \A i \in 1..(Len(s) + Len(t)) :
             v[i] = IF i <= Len(s) THEN s[i] ELSE t[i - Len(s)]
    BY <1>3, ConcatProperties
  <2> QED BY <1>3, <2>1
<1> HIDE DEF v, S, p
<1>p. p \in Nat /\ DOMAIN s = 1..p
  BY <1>4 DEF p
<1>6. DOMAIN v = 1..(p + k)
  BY <1>5
<1>7. ASSUME NEW i \in 1..(p + k), i <= p
      PROVE  i \in DOMAIN s /\ v[i] = s[i]
  <2>1. i \in 1..p
    BY <1>1, <1>p, <1>7
  <2> QED BY <1>p, <1>5, <1>7, <2>1
<1>b. ASSUME NEW i \in 1..(p + k), ~(i <= p)
      PROVE  i - p \in 1..k /\ v[i] = <<b, m + (i - p)>> /\ v[i][2] = m + (i - p)
  <2>1. i - p \in 1..k
    BY <1>1, <1>p, <1>b
  <2>2. v[i] = t[i - p]
    BY <1>5, <1>b
  <2>3. t[i - p] = <<b, m + (i - p)>>
    BY <1>3, <2>1
  <2> QED BY <2>1, <2>2, <2>3
<1>8. ASSUME NEW i \in 1..(p + k)
      PROVE  v[i] \in {b} \X (1..n)
  <2>p. \A x \in 1..n : <<b, x>> \in {b} \X (1..n)
    OBVIOUS
  <2>1. CASE i <= p
    <3>1. s[i] = <<b, s[i][2]>> /\ s[i][2] \in 1..m /\ v[i] = s[i]
      BY <1>4, <1>7, <2>1
    <3>2. s[i][2] \in 1..n
      BY <3>1
    <3>3. <<b, s[i][2]>> \in {b} \X (1..n)
      BY <2>p, <3>2
    <3> QED BY Zenon, <3>1, <3>3
  <2>2. CASE ~(i <= p)
    <3>1. i - p \in 1..k /\ v[i] = <<b, m + (i - p)>>
      BY <1>b, <2>2
    <3>2. m + (i - p) \in 1..n
      BY <1>1, <3>1
    <3>3. <<b, m + (i - p)>> \in {b} \X (1..n)
      BY <2>p, <3>2
    <3> QED BY Zenon, <3>1, <3>3
  <2> QED BY <2>1, <2>2
<1>9. ASSUME NEW i \in 1..(p + k), NEW j \in 1..(p + k), i < j
      PROVE  v[i][2] < v[j][2]
  <2>1. CASE j <= p
    <3>1. i <= p
      BY <1>1, <1>9, <1>p, <2>1
    <3> QED BY <1>4, <1>7, <1>9, <2>1, <3>1
  <2>2. CASE ~(j <= p)
    <3>1. j - p \in 1..k /\ v[j][2] = m + (j - p)
      BY <1>b, <2>2
    <3>2. CASE i <= p
      <4>1. v[i][2] \in 1..m
        BY <1>4, <1>7, <3>2
      <4> QED BY <1>1, <3>1, <4>1
    <3>3. CASE ~(i <= p)
      <4>1. v[i][2] = m + (i - p)
        BY <1>b, <3>3
      <4> QED BY <1>1, <1>9, <1>p, <3>1, <4>1
    <3> QED BY <3>2, <3>3
  <2> QED BY <2>1, <2>2
<1>10. ChunksOf(v) = ChunksOf(s) \cup ((m + 1)..(m + k))
  <2>1. ASSUME NEW c \in ChunksOf(v) PROVE c \in ChunksOf(s) \cup ((m + 1)..(m + k))
    <3>1. PICK i \in 1..(p + k) : c = v[i][2]
      BY <1>6, <2>1 DEF ChunksOf
    <3>2. CASE i <= p
      BY <1>7, <3>1, <3>2 DEF ChunksOf
    <3>3. CASE ~(i <= p)
      <4>1. i - p \in 1..k /\ c = m + (i - p)
        BY <1>b, <3>1, <3>3
      <4> QED BY <1>1, <4>1
    <3> QED BY <3>2, <3>3
  <2>2. ASSUME NEW c \in ChunksOf(s) PROVE c \in ChunksOf(v)
    <3>1. PICK i \in DOMAIN s : c = s[i][2]
      BY <2>2 DEF ChunksOf
    <3>2. i \in 1..(p + k) /\ i <= p
      BY <1>1, <1>p, <3>1
    <3> QED BY <1>6, <1>7, <3>1, <3>2 DEF ChunksOf
  <2>3. ASSUME NEW c \in (m + 1)..(m + k) PROVE c \in ChunksOf(v)
    <3> DEFINE i == p + (c - m)
    <3>1. i \in 1..(p + k) /\ ~(i <= p) /\ m + (i - p) = c
      BY <1>1, <1>p
    <3> HIDE DEF i
    <3>2. v[i][2] = c
      BY <1>b, <3>1
    <3> QED BY <1>6, <3>1, <3>2 DEF ChunksOf
  <2> QED BY <2>1, <2>2, <2>3
<1>11. ChunksOf(s) \subseteq 1..m
  BY <1>4 DEF ChunksOf
<1>12. ASSUME NEW c \in (1..n) \ ChunksOf(v) PROVE CutOff(v, c)
  <2>1. CASE c <= m
    <3>1. c \in (1..m) \ ChunksOf(s)
      BY <1>10, <1>12, <2>1
    <3>2. PICK e \in MaxAnswer..(c - 1) : /\ (e - MaxAnswer + 1)..e \subseteq ChunksOf(s)
                                         /\ (e + 1)..c \cap ChunksOf(s) = {}
      BY <1>4, <3>1 DEF CutOff
    <3>3. (e + 1)..c \cap ((m + 1)..(m + k)) = {}
      BY <1>1, <2>1, <1>12, <3>2
    <3>4. /\ (e - MaxAnswer + 1)..e \subseteq ChunksOf(v)
          /\ (e + 1)..c \cap ChunksOf(v) = {}
      BY <1>10, <3>2, <3>3
    <3> QED BY <3>2, <3>4 DEF CutOff
  <2>2. CASE ~(c <= m)
    <3> DEFINE e == m + k
    <3>1. c > m /\ c <= n /\ c \in Nat /\ c > m + k
      BY <1>1, <1>10, <1>12, <2>2
    <3>2. k = MaxAnswer
      BY <1>1, <3>1
    <3>3. /\ e \in MaxAnswer..(c - 1) /\ (e - MaxAnswer + 1)..e = (m + 1)..(m + k)
          /\ (e + 1)..c \cap ((m + 1)..(m + k)) = {} /\ (e + 1)..c \cap 1..m = {}
      BY <1>1, <3>1, <3>2
    <3> HIDE DEF e
    <3>4. /\ (e - MaxAnswer + 1)..e \subseteq ChunksOf(v)
          /\ (e + 1)..c \cap ChunksOf(v) = {}
      BY <1>10, <1>11, <3>3
    <3> QED BY <3>3, <3>4 DEF CutOff
  <2> QED BY <2>1, <2>2
<1>13. IsLogOf(v, b, n)
  BY <1>6, <1>8, <1>9, <1>12 DEF IsLogOf
<1> QED BY <1>5, <1>13 DEF v, t, S

LEMMA AppendedAt ==
  ASSUME NEW l, NEW wr \in [Builds -> Nat], NEW en, LogIsWhole(l, wr, en),
         l.read # Nothing, l.read.answer # Nothing
  PROVE  LogIsWhole(Appended(l, l.read.answer), wr, en)
<1> DEFINE a == l.read.answer
           v == Appended(l, a)
<1>1. /\ DOMAIN l = StreamFields
      /\ l.build \in Builds /\ l.offset \in Nat
      /\ l.text \in Seq({l.build} \X Nat) /\ IsLogOf(l.text, l.build, l.offset)
  BY DEF LogIsWhole
<1>2. l.read.build = l.build /\ l.read.from = l.offset /\ AnswerFits(l.read, wr, en)
  BY DEF LogIsWhole, ReadFits
<1>3. /\ a.offset \in Nat /\ l.offset <= a.offset /\ a.offset <= wr[l.build]
      /\ a.text = AnswerText(l.build, l.offset, a.offset)
      /\ ~a.more => l.build \in en /\ a.offset = wr[l.build]
  BY <1>2 DEF AnswerFits
<1> HIDE DEF a
<1>4. /\ DOMAIN v = StreamFields /\ v.build = l.build /\ v.offset = a.offset
      /\ v.text = l.text \o a.text /\ v.status = "active" /\ v.live = a.more /\ v.read = Nothing
  <2>1. v = [l EXCEPT !.read = Nothing, !.text = l.text \o a.text, !.offset = a.offset,
                      !.status = "active", !.live = a.more, !.timer = a.more]
    BY DEF Appended
  <2> HIDE DEF v
  <2> QED BY <1>1, <2>1 DEF StreamFields
<1>5. /\ l.text \o a.text \in Seq({l.build} \X Nat)
      /\ IsLogOf(l.text \o a.text, l.build, a.offset)
  BY <1>1, <1>3, LogGrows
<1> HIDE DEF v
<1>6. LogIsWhole(v, wr, en)
  BY <1>1, <1>3, <1>4, <1>5 DEF LogIsWhole
<1> QED BY <1>6 DEF v, a

\* A build that writes, or ends, takes nothing from what was read.
LEMMA WritingKeeps ==
  ASSUME NEW l, NEW wr \in [Builds -> Nat], NEW en, LogIsWhole(l, wr, en), NEW b \in Builds \ en
  PROVE  /\ LogIsWhole(l, [wr EXCEPT ![b] = @ + 1], en)
         /\ LogIsWhole(l, wr, en \cup {b})
<1> DEFINE more == [wr EXCEPT ![b] = @ + 1]
<1>1. /\ more \in [Builds -> Nat]
      /\ \A c \in Builds : wr[c] <= more[c] /\ (c \in en => more[c] = wr[c])
  OBVIOUS
<1>2. l.build \in Builds /\ l.offset \in Nat /\ wr[l.build] \in Nat /\ more[l.build] \in Nat
  BY <1>1 DEF LogIsWhole
<1> HIDE DEF more
<1>3. ASSUME l.read # Nothing PROVE ReadFits(l, more, en) /\ ReadFits(l, wr, en \cup {b})
  <2>1. ReadFits(l, wr, en)
    BY <1>3 DEF LogIsWhole
  <2>2. ASSUME AnswerFits(l.read, wr, en), l.read.build = l.build
        PROVE  AnswerFits(l.read, more, en) /\ AnswerFits(l.read, wr, en \cup {b})
    BY <1>1, <1>2, <2>2 DEF AnswerFits
  <2> QED BY <2>1, <2>2 DEF ReadFits
<1>4. LogIsWhole(l, more, en)
  BY <1>1, <1>2, <1>3 DEF LogIsWhole
<1>5. LogIsWhole(l, wr, en \cup {b})
  BY <1>3 DEF LogIsWhole
<1> QED BY <1>4, <1>5 DEF more

LEMMA JenkinsKeeps ==
  ASSUME BuildLogAt(jenkins, written, ended), JenkinsActs
  PROVE  BuildLogAt(jenkins', written', ended')
<1>d. /\ JenkinsFields \subseteq DOMAIN jenkins
      /\ written \in [Builds -> Nat]
      /\ jenkins.log # Nothing => LogIsWhole(jenkins.log, written, ended)
  BY DEF BuildLogAt
<1>u. ASSUME UNCHANGED jenkinsServer PROVE written' = written /\ ended' = ended
  BY <1>u DEF jenkinsServer
<1>1. ASSUME NEW v, UNCHANGED jenkinsServer, jenkins' = v, KeepsLog(v, jenkins)
      PROVE  BuildLogAt(jenkins', written', ended')
  <2>1. BuildLogAt(v, written, ended)
    BY <1>1, KeepsLogAt
  <2> QED BY <1>1, <1>u, <2>1
<1>2. ASSUME NEW l, l = Nothing \/ LogIsWhole(l, written, ended), NEW v,
             UNCHANGED jenkinsServer, jenkins' = v, v.log = l, JenkinsFields \subseteq DOMAIN v
      PROVE  BuildLogAt(jenkins', written', ended')
  BY <1>2, <1>d, <1>u DEF BuildLogAt
<1>3. ASSUME NEW names, JobsAnswered(names) PROVE BuildLogAt(jenkins', written', ended')
  <2> DEFINE w == [jenkins EXCEPT !.poll = "timer",
                     !.jobs = Succeeded(@, [of |-> "jobs", names |-> names])]
  <2>1. JenkinsFields \subseteq DOMAIN w /\ w.log = jenkins.log
    BY <1>d DEF JenkinsFields
  <2>2. jenkins' = RowsShown(w) /\ UNCHANGED jenkinsServer
    BY <1>3 DEF JobsAnswered
  <2> HIDE DEF w
  <2>3. KeepsLog(RowsShown(w), jenkins)
    BY <2>1, RowsShownKeeps DEF KeepsLog
  <2> QED BY <1>1, <2>2, <2>3
<1>4. CASE JobsFail
  <2> DEFINE u == [jenkins EXCEPT !.poll = "timer", !.jobs = Failed(@)]
             w == TableGone(u)
  <2>1. JenkinsFields \subseteq DOMAIN u /\ u.log = jenkins.log
    BY <1>d DEF JenkinsFields
  <2>2. jenkins' = RowsShown(w) /\ UNCHANGED jenkinsServer
    BY <1>4 DEF JobsFail
  <2> HIDE DEF u
  <2>3. JenkinsFields \subseteq DOMAIN w /\ w.log = jenkins.log
    BY <2>1 DEF TableGone, JenkinsFields
  <2> HIDE DEF w
  <2>4. KeepsLog(RowsShown(w), jenkins)
    BY <2>3, RowsShownKeeps DEF KeepsLog
  <2> QED BY <1>1, <2>2, <2>4
<1>5. CASE JobsTimer
  BY <1>5, <1>1, <1>d DEF JobsTimer, KeepsLog, JenkinsFields
<1>6. CASE RetryJobs
  BY <1>6, <1>1, <1>d, RestartKeeps DEF RetryJobs
<1>7. CASE JobsLate
  BY <1>7, <1>1, <1>d DEF JobsLate, KeepsLog, JenkinsFields
<1>8. ASSUME NEW j, ToggleJob(j) PROVE BuildLogAt(jenkins', written', ended')
  <2> DEFINE w == [jenkins EXCEPT !.open = IF @ = j THEN Nothing ELSE j]
  <2>1. JenkinsFields \subseteq DOMAIN w /\ w.log = jenkins.log
    BY <1>d DEF JenkinsFields
  <2>2. jenkins' = RowsShown(w) /\ UNCHANGED jenkinsServer
    BY <1>8 DEF ToggleJob
  <2> HIDE DEF w
  <2>3. KeepsLog(RowsShown(w), jenkins)
    BY <2>1, RowsShownKeeps DEF KeepsLog
  <2> QED BY <1>1, <2>2, <2>3
<1>9. ASSUME NEW j, Trigger(j) PROVE BuildLogAt(jenkins', written', ended')
  <2> DEFINE w == [jenkins EXCEPT !.triggers = @ \cup {[job |-> j, mounted |-> TRUE]}]
  <2>1. KeepsLog(w, jenkins)
    BY <1>d DEF KeepsLog, JenkinsFields
  <2>2. jenkins' = w /\ UNCHANGED jenkinsServer
    BY <1>9 DEF Trigger
  <2> HIDE DEF w
  <2> QED BY <1>1, <2>1, <2>2
<1>10. ASSUME NEW listed, BuildsAnswered(listed) PROVE BuildLogAt(jenkins', written', ended')
  BY <1>10, <1>1, <1>d DEF BuildsAnswered, KeepsLog, JenkinsFields
<1>11. CASE BuildsFail
  BY <1>11, <1>1, <1>d DEF BuildsFail, KeepsLog, JenkinsFields
<1>12. CASE BuildsLate
  BY <1>12, <1>1, <1>d DEF BuildsLate, KeepsLog, JenkinsFields
<1>13. ASSUME NEW t, TriggerSucceeds(t) PROVE BuildLogAt(jenkins', written', ended')
  <2> DEFINE w == [jenkins EXCEPT !.triggers = @ \ {t}]
  <2>1. JenkinsFields \subseteq DOMAIN w /\ w.log = jenkins.log
    BY <1>d DEF JenkinsFields
  <2>2. jenkins' = Restart(w) /\ UNCHANGED jenkinsServer
    BY <1>13 DEF TriggerSucceeds
  <2> HIDE DEF w
  <2>3. KeepsLog(Restart(w), jenkins)
    BY <2>1, RestartKeeps DEF KeepsLog
  <2> QED BY <1>1, <2>2, <2>3
<1>14. ASSUME NEW t, TriggerFails(t) PROVE BuildLogAt(jenkins', written', ended')
  BY <1>14, <1>1, <1>d DEF TriggerFails, KeepsLog, JenkinsFields
<1>15. ASSUME NEW b \in Builds, OpenBuildLog(b) PROVE BuildLogAt(jenkins', written', ended')
  <2> DEFINE l == Stream(b)
             v == [jenkins EXCEPT !.log = l]
  <2>1. LogIsWhole(l, written, ended)
    BY <1>d, StreamAt
  <2>2. jenkins' = v /\ UNCHANGED jenkinsServer
    BY <1>15 DEF OpenBuildLog
  <2> HIDE DEF l
  <2>3. v.log = l /\ JenkinsFields \subseteq DOMAIN v
    BY <1>d DEF JenkinsFields
  <2> HIDE DEF v
  <2> QED BY <1>2, <2>1, <2>2, <2>3
<1>16. DOMAIN Stopped(jenkins) = DOMAIN jenkins /\ Stopped(jenkins).log = Nothing
  BY <1>d DEF Stopped, JenkinsFields
<1>17. CASE CloseBuildLog
  BY <1>17, <1>1, <1>d, <1>16 DEF CloseBuildLog, KeepsLog
<1>18. CASE RefreshLog
  <2> DEFINE s == Stopped(jenkins)
             l == Stream(jenkins.log.build)
             v == [s EXCEPT !.log = l]
  <2>1. jenkins.log # Nothing /\ jenkins' = v /\ UNCHANGED jenkinsServer
    BY <1>18 DEF RefreshLog
  <2>2. jenkins.log.build \in Builds
    BY <1>d, <2>1 DEF LogIsWhole
  <2>3. LogIsWhole(l, written, ended)
    BY <1>d, <2>2, StreamAt
  <2> HIDE DEF l
  <2>4. DOMAIN s = DOMAIN jenkins
    BY <1>16
  <2> HIDE DEF s
  <2>5. v.log = l /\ JenkinsFields \subseteq DOMAIN v
    BY <1>d, <2>4 DEF JenkinsFields
  <2> HIDE DEF v
  <2> QED BY <1>2, <2>1, <2>3, <2>5
<1>19. CASE LogRead
  <2> DEFINE old == jenkins.log
             r == old.read
             a == [text |-> AnswerText(r.build, r.from, written[r.build]),
                   offset |-> written[r.build], more |-> r.build \notin ended]
             s == [r EXCEPT !.answer = a]
             l == [old EXCEPT !.read = s]
             v == [jenkins EXCEPT !.log = l]
  <2>1. /\ old # Nothing /\ r # Nothing /\ jenkins' = v /\ UNCHANGED jenkinsServer
    <3>1. old # Nothing /\ r # Nothing
      BY <1>19 DEF LogRead, Reading
    <3> QED BY <1>19, <3>1 DEF LogRead
  <2>2. LogIsWhole(old, written, ended)
    BY <1>d, <2>1
  <2> HIDE DEF old
  <2>3. /\ DOMAIN r = {"build", "from", "answer"}
        /\ r.build = old.build /\ r.from = old.offset
        /\ old.build \in Builds /\ old.offset \in Nat /\ old.offset <= written[old.build]
        /\ DOMAIN old = StreamFields
    BY <2>1, <2>2 DEF LogIsWhole, ReadFits
  <2> HIDE DEF r
  <2>4. written[old.build] \in Nat
    BY <1>d, <2>3
  <2>5. /\ DOMAIN a = {"text", "offset", "more"}
        /\ a.offset = written[r.build] /\ (~a.more => r.build \in ended)
        /\ a.text = AnswerText(r.build, r.from, written[r.build])
    OBVIOUS
  <2> HIDE DEF a
  <2>6. /\ DOMAIN s = {"build", "from", "answer"}
        /\ s.build = old.build /\ s.from = old.offset /\ s.answer = a
    BY <2>3
  <2> HIDE DEF s
  <2>7. AnswerFits(s, written, ended)
    BY <2>3, <2>4, <2>5, <2>6 DEF AnswerFits
  <2>8. /\ DOMAIN l = StreamFields /\ l.read = s /\ l.build = old.build /\ l.offset = old.offset
        /\ l.text = old.text /\ l.status = old.status /\ l.live = old.live
    BY <2>3 DEF StreamFields
  <2> HIDE DEF l
  <2>9. ReadFits(l, written, ended)
    BY <2>6, <2>7, <2>8 DEF ReadFits
  <2>10. LogIsWhole(l, written, ended)
    BY <2>2, <2>8, <2>9 DEF LogIsWhole
  <2>11. v.log = l /\ JenkinsFields \subseteq DOMAIN v
    BY <1>d DEF JenkinsFields
  <2> HIDE DEF v
  <2> QED BY <1>2, <2>1, <2>10, <2>11
<1>20. CASE LogAnswered
  <2> DEFINE old == jenkins.log
             l == Appended(old, old.read.answer)
             v == [jenkins EXCEPT !.log = l]
  <2>1. /\ old # Nothing /\ old.read # Nothing /\ old.read.answer # Nothing
        /\ jenkins' = v /\ UNCHANGED jenkinsServer
    <3>1. old # Nothing /\ old.read # Nothing
      BY <1>20 DEF LogAnswered, Reading
    <3> QED BY <1>20, <3>1 DEF LogAnswered
  <2>2. LogIsWhole(l, written, ended)
    BY <1>d, <2>1, AppendedAt
  <2> HIDE DEF l
  <2>3. v.log = l /\ JenkinsFields \subseteq DOMAIN v
    BY <1>d DEF JenkinsFields
  <2> HIDE DEF v
  <2> QED BY <1>2, <2>1, <2>2, <2>3
<1>21. CASE LogFails
  <2> DEFINE old == jenkins.log
             l == [old EXCEPT !.read = Nothing, !.status = "error", !.live = FALSE]
             v == [jenkins EXCEPT !.log = l]
  <2>1. old # Nothing /\ jenkins' = v /\ UNCHANGED jenkinsServer
    <3>1. old # Nothing
      BY <1>21 DEF LogFails, Reading
    <3>2. [jenkins EXCEPT !.log.read = Nothing, !.log.status = "error", !.log.live = FALSE] = v
      BY <1>d DEF JenkinsFields
    <3> QED BY <1>21, <3>1, <3>2 DEF LogFails
  <2>2. LogIsWhole(old, written, ended)
    BY <1>d, <2>1
  <2> HIDE DEF old
  <2>3. DOMAIN old = StreamFields
    BY <2>2 DEF LogIsWhole
  <2>4. /\ DOMAIN l = StreamFields /\ l.read = Nothing /\ l.build = old.build
        /\ l.offset = old.offset /\ l.text = old.text /\ l.status = "error"
    BY <2>3 DEF StreamFields
  <2> HIDE DEF l
  <2>5. LogIsWhole(l, written, ended)
    BY <2>2, <2>4 DEF LogIsWhole
  <2>6. v.log = l /\ JenkinsFields \subseteq DOMAIN v
    BY <1>d DEF JenkinsFields
  <2> HIDE DEF v
  <2> QED BY <1>2, <2>1, <2>5, <2>6
<1>22. CASE LogTimer
  <2> DEFINE old == jenkins.log
             r == Read(old.build, old.offset)
             l == [old EXCEPT !.timer = FALSE, !.read = r]
             v == [jenkins EXCEPT !.log = l]
  <2>1. old # Nothing /\ jenkins' = v /\ UNCHANGED jenkinsServer
    <3>1. [jenkins EXCEPT !.log.timer = FALSE, !.log.read = r] = v
      BY <1>d DEF JenkinsFields
    <3> QED BY <1>22, <3>1 DEF LogTimer
  <2>2. LogIsWhole(old, written, ended)
    BY <1>d, <2>1
  <2> HIDE DEF old
  <2>3. DOMAIN old = StreamFields
    BY <2>2 DEF LogIsWhole
  <2>4. /\ DOMAIN r = {"build", "from", "answer"}
        /\ r.build = old.build /\ r.from = old.offset /\ r.answer = Nothing
    BY DEF Read
  <2> HIDE DEF r
  <2>5. /\ DOMAIN l = StreamFields /\ l.read = r /\ l.build = old.build /\ l.offset = old.offset
        /\ l.text = old.text /\ l.status = old.status /\ l.live = old.live
    BY <2>3 DEF StreamFields
  <2> HIDE DEF l
  <2>6. ReadFits(l, written, ended)
    BY <2>4, <2>5 DEF ReadFits
  <2>7. LogIsWhole(l, written, ended)
    BY <2>2, <2>5, <2>6 DEF LogIsWhole
  <2>8. v.log = l /\ JenkinsFields \subseteq DOMAIN v
    BY <1>d DEF JenkinsFields
  <2> HIDE DEF v
  <2> QED BY <1>2, <2>1, <2>7, <2>8
<1>23. CASE LogReadLate
  BY <1>23, <1>1, <1>d DEF LogReadLate, DropLate, KeepsLog, JenkinsFields
<1>24. ASSUME NEW b \in Builds, BuildWrites(b) PROVE BuildLogAt(jenkins', written', ended')
  <2>1. /\ b \in Builds \ ended /\ UNCHANGED <<jenkins, ended>>
        /\ written' = [written EXCEPT ![b] = @ + 1]
    BY <1>24 DEF BuildWrites
  <2>2. written' \in [Builds -> Nat]
    BY <1>d, <2>1
  <2>3. jenkins.log # Nothing => LogIsWhole(jenkins.log, written', ended)
    BY <1>d, <2>1, WritingKeeps
  <2> QED BY <1>d, <2>1, <2>2, <2>3 DEF BuildLogAt
<1>25. ASSUME NEW b \in Builds, BuildEnds(b) PROVE BuildLogAt(jenkins', written', ended')
  <2>1. b \in Builds \ ended /\ UNCHANGED <<jenkins, written>> /\ ended' = ended \cup {b}
    BY <1>25 DEF BuildEnds
  <2>2. jenkins.log # Nothing => LogIsWhole(jenkins.log, written, ended')
    BY <1>d, <2>1, WritingKeeps
  <2> QED BY <1>d, <2>1, <2>2 DEF BuildLogAt
<1> QED BY <1>3, <1>4, <1>5, <1>6, <1>7, <1>8, <1>9, <1>10, <1>11, <1>12, <1>13, <1>14,
           <1>15, <1>17, <1>18, <1>19, <1>20, <1>21, <1>22, <1>23, <1>24, <1>25
  DEF JenkinsActs

-----------------------------------------------------------------------------
(***************************************************************************)
(* The tabs of a console.  A state of tabs, on a page or in the storage,   *)
(* has only ids that were given out, so that a new one is its tab's own.   *)
(***************************************************************************)

TabRecords == [id : Nat, number : Nat, text : {Blank, Typed}, under : Connections]

TabsAt(s, at, n) ==
  /\ DOMAIN s = {"list", "active"}
  /\ s.list \in Seq(TabRecords)
  /\ \A i \in DOMAIN s.list : s.list[i].id < n
  /\ ConsistentTabs(s, at)

PageAt(page, n) ==
  /\ DOMAIN page = {"at", "state", "schema"}
  /\ page.at \in Connections
  /\ TabsAt(page.state, page.at, n)
  /\ LoadAt(page.schema, page.at)

TabsInv(ts, st, n) ==
  /\ n \in Nat
  /\ DOMAIN ts = Windows /\ DOMAIN st = Connections
  /\ \A at \in Connections : st[at] # NoTabs => TabsAt(st[at], at, n)
  /\ \A w \in Windows : ts[w] # Nothing => PageAt(ts[w], n)

LEMMA TabsWiden ==
  ASSUME NEW s, NEW at, NEW n \in Nat, NEW m \in Nat, n <= m, TabsAt(s, at, n)
  PROVE  TabsAt(s, at, m)
<1>1. \A i \in DOMAIN s.list : s.list[i].id \in Nat /\ s.list[i].id < n
  <2>1. \A i \in DOMAIN s.list : s.list[i] \in TabRecords
    BY DEF TabsAt
  <2> QED BY <2>1 DEF TabsAt, TabRecords
<1>2. \A i \in DOMAIN s.list : s.list[i].id < m
  BY <1>1
<1> QED BY <1>2 DEF TabsAt

LEMMA PageWidens ==
  ASSUME NEW page, NEW n \in Nat, NEW m \in Nat, n <= m, PageAt(page, n)
  PROVE  PageAt(page, m)
BY TabsWiden DEF PageAt

LEMMA TabFields ==
  ASSUME NEW id, NEW number, NEW text, NEW at
  PROVE  /\ Tab(id, number, text, at).id = id
         /\ Tab(id, number, text, at).number = number
         /\ Tab(id, number, text, at).under = at
         /\ id \in Nat /\ number \in Nat /\ text \in {Blank, Typed} /\ at \in Connections
              => Tab(id, number, text, at) \in TabRecords
BY DEF Tab, TabRecords

\* A page begins with what is stored, or with one console.
LEMMA LoadedTabsAt ==
  ASSUME TabsInv(tabs, stored, opened), NEW at \in Connections
  PROVE  /\ opened + NewTabs(at) \in Nat /\ opened <= opened + NewTabs(at)
         /\ TabsAt(LoadTabs(at), at, opened + NewTabs(at))
<1>1. opened \in Nat
  BY DEF TabsInv
<1>2. CASE stored[at] # NoTabs
  BY <1>1, <1>2 DEF TabsInv, LoadTabs, NewTabs
<1>3. CASE stored[at] = NoTabs
  <2> DEFINE t == Tab(opened, 1, Blank, at)
             s == [list |-> <<t>>, active |-> opened]
  <2>1. t \in TabRecords /\ t.id = opened /\ t.under = at
    BY <1>1, TabFields
  <2> HIDE DEF t
  <2>2. DOMAIN s = {"list", "active"} /\ s.list = <<t>> /\ s.active = opened
    OBVIOUS
  <2>3. <<t>> \in Seq(TabRecords) /\ DOMAIN <<t>> = {1} /\ <<t>>[1] = t
    BY <2>1
  <2> HIDE DEF s
  <2>4. ConsistentTabs(s, at)
    BY <2>1, <2>2, <2>3 DEF ConsistentTabs, Ids
  <2>5. \A i \in DOMAIN s.list : s.list[i].id < opened + 1
    BY <1>1, <2>1, <2>2, <2>3
  <2>6. TabsAt(s, at, opened + 1)
    BY <2>2, <2>3, <2>4, <2>5 DEF TabsAt
  <2>7. LoadTabs(at) = s /\ NewTabs(at) = 1
    BY <1>3 DEF LoadTabs, NewTabs, s, t
  <2> QED BY <1>1, <2>6, <2>7
<1> QED BY <1>2, <1>3

\* A tab that is opened is numbered 0, or higher than all there are.
LEMMA OpenedTabsAt ==
  ASSUME NEW s, NEW at \in Connections, NEW n \in Nat, TabsAt(s, at, n),
         NEW number \in Nat, number = 0 \/ \A m \in Numbers(s) : m < number,
         NEW text \in {Blank, Typed}
  PROVE  TabsAt([list |-> Append(s.list, Tab(n, number, text, at)), active |-> n], at, n + 1)
<1> DEFINE t == Tab(n, number, text, at)
           l == Append(s.list, t)
           v == [list |-> l, active |-> n]
<1>1. /\ s.list \in Seq(TabRecords) /\ ConsistentTabs(s, at)
      /\ \A i \in DOMAIN s.list : s.list[i].id < n
  BY DEF TabsAt
<1>2. t \in TabRecords /\ t.id = n /\ t.number = number /\ t.under = at
  BY TabFields
<1> HIDE DEF t
<1>3. /\ l \in Seq(TabRecords) /\ DOMAIN l = 1..(Len(s.list) + 1) /\ Len(s.list) \in Nat
      /\ DOMAIN s.list = 1..Len(s.list)
      /\ \A i \in DOMAIN s.list : l[i] = s.list[i] /\ s.list[i] \in TabRecords
      /\ l[Len(s.list) + 1] = t
  BY <1>1, <1>2
<1> DEFINE k == Len(s.list) + 1
<1>4. /\ k \in DOMAIN l /\ l[k] = t
      /\ \A i \in DOMAIN l : i = k \/ (i \in DOMAIN s.list /\ l[i] = s.list[i])
      /\ \A i \in DOMAIN s.list : i # k /\ s.list[i] \in TabRecords
  <2>1. \A i \in 1..(Len(s.list) + 1) : i = k \/ i \in 1..Len(s.list)
    BY <1>3
  <2>2. \A i \in 1..Len(s.list) : i # k
    BY <1>3
  <2>3. k \in 1..(Len(s.list) + 1) /\ l[k] = t
    BY <1>3
  <2> HIDE DEF l, k
  <2>4. DOMAIN l = 1..(Len(s.list) + 1) /\ DOMAIN s.list = 1..Len(s.list)
    BY <1>3
  <2>5. \A i \in DOMAIN s.list : l[i] = s.list[i] /\ s.list[i] \in TabRecords
    BY <1>3
  <2> QED BY <2>1, <2>2, <2>3, <2>4, <2>5
<1> HIDE DEF l, k
<1>5. \A i \in DOMAIN s.list : s.list[i].id \in Nat /\ s.list[i].id < n /\ s.list[i].number \in Nat
  BY <1>1, <1>4 DEF TabRecords
<1>6. DOMAIN v = {"list", "active"} /\ v.list = l /\ v.active = n
  OBVIOUS
<1> HIDE DEF v
<1>7. \A i \in DOMAIN v.list : v.list[i].id < n + 1
  BY <1>2, <1>4, <1>5, <1>6
<1>8. v.active \in Ids(v)
  BY <1>2, <1>4, <1>6 DEF Ids
<1>9. \A i \in DOMAIN v.list : v.list[i].under = at
  BY <1>1, <1>2, <1>4, <1>6 DEF ConsistentTabs
<1>10. \A i \in DOMAIN s.list : s.list[i].id # n
  BY <1>5
<1>11. \A i \in DOMAIN s.list : number = 0 \/ s.list[i].number # number
  BY <1>5 DEF Numbers
<1>12. ASSUME NEW i \in DOMAIN v.list, NEW j \in DOMAIN v.list, i # j
       PROVE  /\ v.list[i].id # v.list[j].id
              /\ v.list[i].number = v.list[j].number => v.list[i].number = 0
  <2>1. CASE i \in DOMAIN s.list /\ j \in DOMAIN s.list
    BY <1>1, <1>4, <1>6, <1>12, <2>1 DEF ConsistentTabs
  <2>2. CASE i = k
    BY <1>2, <1>4, <1>6, <1>10, <1>11, <1>12, <2>2
  <2>3. CASE j = k
    BY <1>2, <1>4, <1>6, <1>10, <1>11, <1>12, <2>3
  <2> QED BY <1>4, <1>6, <2>1, <2>2, <2>3
<1>13. TabsAt(v, at, n + 1)
  BY <1>3, <1>6, <1>7, <1>8, <1>9, <1>12 DEF TabsAt, ConsistentTabs
<1> QED BY <1>13 DEF v, l, t

LEMMA ActivatedTabsAt ==
  ASSUME NEW s, NEW at, NEW n, TabsAt(s, at, n), NEW id \in Ids(s)
  PROVE  TabsAt([s EXCEPT !.active = id], at, n)
<1> DEFINE v == [s EXCEPT !.active = id]
<1>1. DOMAIN v = {"list", "active"} /\ v.list = s.list /\ v.active = id
  BY DEF TabsAt
<1> HIDE DEF v
<1>2. TabsAt(v, at, n)
  BY <1>1 DEF TabsAt, ConsistentTabs, Ids
<1> QED BY <1>2 DEF v

LEMMA EditedTabsAt ==
  ASSUME NEW s, NEW at, NEW n, TabsAt(s, at, n), NEW i \in DOMAIN s.list
  PROVE  TabsAt([s EXCEPT !.list[i].text = Typed], at, n)
<1> DEFINE t == [s.list[i] EXCEPT !.text = Typed]
           l == [s.list EXCEPT ![i] = t]
           v == [s EXCEPT !.list = l]
<1>1. s.list \in Seq(TabRecords) /\ DOMAIN s = {"list", "active"}
  BY DEF TabsAt
<1>2. s.list[i] \in TabRecords
  BY <1>1
<1>3. /\ t \in TabRecords /\ t.id = s.list[i].id /\ t.number = s.list[i].number
      /\ t.under = s.list[i].under
  BY <1>2 DEF TabRecords
<1>4. [s EXCEPT !.list[i].text = Typed] = v
  BY <1>1
<1> HIDE DEF t
<1>5. /\ l \in Seq(TabRecords) /\ DOMAIN l = DOMAIN s.list
      /\ \A j \in DOMAIN l : l[j] = IF j = i THEN t ELSE s.list[j]
  BY <1>1, <1>3
<1> HIDE DEF l
<1>6. DOMAIN v = {"list", "active"} /\ v.list = l /\ v.active = s.active
  BY <1>1
<1> HIDE DEF v
<1>7. \A j \in DOMAIN l : /\ l[j].id = s.list[j].id /\ l[j].number = s.list[j].number
                          /\ l[j].under = s.list[j].under
  BY <1>3, <1>5
<1>8. Ids(v) = Ids(s)
  BY <1>5, <1>6, <1>7 DEF Ids
<1>9. TabsAt(v, at, n)
  BY <1>5, <1>6, <1>7, <1>8 DEF TabsAt, ConsistentTabs
<1> QED BY <1>4, <1>9

\* What is left without one element: those before it, and those after it one place
\* earlier.
LEMMA RemovedAt ==
  ASSUME NEW S, NEW l \in Seq(S), NEW k \in DOMAIN l
  PROVE  /\ RemoveAt(l, k) \in Seq(S) /\ Len(RemoveAt(l, k)) = Len(l) - 1
         /\ \A i \in 1..(Len(l) - 1) : RemoveAt(l, k)[i] = IF i < k THEN l[i] ELSE l[i + 1]
<1> DEFINE a == SubSeq(l, 1, k - 1)
           b == SubSeq(l, k + 1, Len(l))
<1>1. Len(l) \in Nat /\ DOMAIN l = 1..Len(l) /\ k \in 1..Len(l)
  OBVIOUS
<1>2. a \in Seq(S) /\ Len(a) = k - 1 /\ \A i \in 1..(k - 1) : a[i] = l[i]
  <2>1. k - 1 \in 0..Len(l)
    BY <1>1
  <2> QED BY <1>1, <2>1
<1>3. b \in Seq(S) /\ Len(b) = Len(l) - k /\ \A i \in 1..(Len(l) - k) : b[i] = l[k + i]
  BY <1>1
<1> HIDE DEF a, b
<1>4. /\ a \o b \in Seq(S) /\ Len(a \o b) = Len(a) + Len(b)
      /\ \A i \in 1..(Len(a) + Len(b)) :
           (a \o b)[i] = IF i <= Len(a) THEN a[i] ELSE b[i - Len(a)]
  BY <1>2, <1>3, ConcatProperties
<1>5. Len(a) + Len(b) = Len(l) - 1
  BY <1>1, <1>2, <1>3
<1>6. ASSUME NEW i \in 1..(Len(l) - 1) PROVE (a \o b)[i] = IF i < k THEN l[i] ELSE l[i + 1]
  <2>1. CASE i < k
    <3>1. i \in 1..(k - 1) /\ i <= Len(a)
      BY <1>1, <1>2, <2>1
    <3> QED BY <1>2, <1>4, <1>5, <2>1, <3>1
  <2>2. CASE ~(i < k)
    <3>1. ~(i <= Len(a)) /\ i - Len(a) \in 1..(Len(l) - k) /\ k + (i - Len(a)) = i + 1
      BY <1>1, <1>2, <2>2
    <3>2. (a \o b)[i] = b[i - Len(a)]
      BY <1>4, <1>5, <3>1
    <3>3. b[i - Len(a)] = l[k + (i - Len(a))]
      BY <1>3, <3>1
    <3> QED BY <2>2, <3>1, <3>2, <3>3
  <2> QED BY <2>1, <2>2
<1>7. RemoveAt(l, k) = a \o b
  BY DEF RemoveAt, a, b
<1> QED BY <1>4, <1>5, <1>6, <1>7

LEMMA ClosedTabsAt ==
  ASSUME NEW s, NEW at, NEW n, TabsAt(s, at, n), Len(s.list) > 1, NEW k \in DOMAIN s.list,
         NEW rest, rest = RemoveAt(s.list, k),
         NEW near, near = IF k <= Len(rest) THEN k ELSE Len(rest)
  PROVE  TabsAt([list |-> rest,
                 active |-> IF s.active = s.list[k].id THEN rest[near].id ELSE s.active], at, n)
<1> DEFINE active == IF s.active = s.list[k].id THEN rest[near].id ELSE s.active
           v == [list |-> rest, active |-> active]
           Old(i) == IF i < k THEN i ELSE i + 1
<1>1. s.list \in Seq(TabRecords) /\ Len(s.list) \in Nat /\ k \in 1..Len(s.list)
  BY DEF TabsAt
<1>2. /\ rest \in Seq(TabRecords) /\ Len(rest) = Len(s.list) - 1
      /\ \A i \in 1..(Len(s.list) - 1) : rest[i] = IF i < k THEN s.list[i] ELSE s.list[i + 1]
  BY <1>1, RemovedAt
<1>3. DOMAIN rest = 1..(Len(s.list) - 1)
  BY <1>2
<1>4. ASSUME NEW i \in DOMAIN rest PROVE Old(i) \in DOMAIN s.list /\ rest[i] = s.list[Old(i)]
  BY <1>1, <1>2, <1>3
<1>5. ASSUME NEW i \in DOMAIN rest, NEW j \in DOMAIN rest, i # j PROVE Old(i) # Old(j)
  BY <1>1, <1>3, <1>5
<1>6. near \in DOMAIN rest
  BY <1>1, <1>2, <1>3
<1>7. DOMAIN v = {"list", "active"} /\ v.list = rest /\ v.active = active
  OBVIOUS
<1>8. active \in {rest[i].id : i \in DOMAIN rest}
  <2>1. CASE s.active = s.list[k].id
    BY <1>6, <2>1
  <2>2. CASE s.active # s.list[k].id
    <3>1. PICK j \in DOMAIN s.list : s.active = s.list[j].id
      BY DEF TabsAt, ConsistentTabs, Ids
    <3>2. j # k
      BY <2>2, <3>1
    <3> DEFINE i == IF j < k THEN j ELSE j - 1
    <3>3. i \in DOMAIN rest /\ Old(i) = j
      BY <1>1, <1>3, <3>2
    <3>4. rest[i] = s.list[j]
      BY <1>4, <3>3
    <3> QED BY <2>2, <3>1, <3>3, <3>4
  <2> QED BY <2>1, <2>2
<1> HIDE DEF active, Old, v
<1>9. ConsistentTabs(v, at)
  BY <1>4, <1>5, <1>7, <1>8 DEF TabsAt, ConsistentTabs, Ids
<1>10. \A i \in DOMAIN rest : rest[i].id < n
  BY <1>4 DEF TabsAt
<1>11. TabsAt(v, at, n)
  BY <1>2, <1>7, <1>9, <1>10 DEF TabsAt
<1> QED BY <1>11 DEF v, active

\* A render shows tabs, and stores them or not.
LEMMA RenderingKeeps ==
  ASSUME TabsInv(tabs, stored, opened), NEW w \in Windows, NEW page,
         opened' \in Nat, opened <= opened', PageAt(page, opened'), Rendering(w, page)
  PROVE  TabsInv(tabs', stored', opened')
<1>1. /\ opened \in Nat /\ DOMAIN tabs = Windows /\ DOMAIN stored = Connections
      /\ \A at \in Connections : stored[at] # NoTabs => TabsAt(stored[at], at, opened)
      /\ \A x \in Windows : tabs[x] # Nothing => PageAt(tabs[x], opened)
  BY DEF TabsInv
<1>2. page.at \in Connections /\ TabsAt(page.state, page.at, opened')
  BY DEF PageAt
<1>3. ASSUME NEW at \in Connections, stored'[at] # NoTabs PROVE TabsAt(stored'[at], at, opened')
  <2>1. stored'[at] = stored[at] \/ (at = page.at /\ stored'[at] = page.state)
    <3>1. CASE stored' = stored
      BY <3>1
    <3>2. CASE stored' = [stored EXCEPT ![page.at] = page.state]
      <4>1. DOMAIN stored = Connections
        BY <1>1
      <4> QED BY <3>2, <4>1
    <3> QED BY <3>1, <3>2 DEF Rendering
  <2> QED BY <1>1, <1>2, <1>3, <2>1, TabsWiden
<1>4. ASSUME NEW x \in Windows, tabs'[x] # Nothing PROVE PageAt(tabs'[x], opened')
  <2>1. tabs'[x] = IF x = w THEN page ELSE tabs[x]
    BY <1>1 DEF Rendering
  <2> QED BY <1>1, <1>4, <2>1, PageWidens
<1>5. DOMAIN tabs' = Windows /\ DOMAIN stored' = Connections
  BY <1>1 DEF Rendering
<1> QED BY <1>3, <1>4, <1>5 DEF TabsInv

\* Tabs change on the page that is open.
LEMMA ChangeKeeps ==
  ASSUME TabsInv(tabs, stored, opened), NEW w \in Windows, tabs[w] # Nothing, NEW s,
         opened' \in Nat, opened <= opened', TabsAt(s, tabs[w].at, opened'), Change(w, s)
  PROVE  TabsInv(tabs', stored', opened')
<1> DEFINE page == [tabs[w] EXCEPT !.state = s]
<1>1. opened \in Nat /\ PageAt(tabs[w], opened)
  BY DEF TabsInv
<1>2. DOMAIN page = {"at", "state", "schema"} /\ page.at = tabs[w].at
      /\ page.state = s /\ page.schema = tabs[w].schema
  BY <1>1 DEF PageAt
<1>3. Rendering(w, page)
  BY DEF Change
<1> HIDE DEF page
<1>4. PageAt(page, opened')
  BY <1>1, <1>2 DEF PageAt
<1> QED BY <1>3, <1>4, RenderingKeeps

\* The schema of a page's connection is loaded, in its own time.
LEMMA SchemaKeeps ==
  ASSUME TabsInv(tabs, stored, opened), NEW w \in Windows, tabs[w] # Nothing, NEW load,
         LoadAt(load, tabs[w].at), tabs' = [tabs EXCEPT ![w].schema = load],
         UNCHANGED <<stored, opened>>
  PROVE  TabsInv(tabs', stored', opened')
<1> DEFINE page == [tabs[w] EXCEPT !.schema = load]
<1>1. PageAt(tabs[w], opened) /\ DOMAIN tabs = Windows
  BY DEF TabsInv
<1>2. /\ DOMAIN page = {"at", "state", "schema"} /\ page.at = tabs[w].at
      /\ page.state = tabs[w].state /\ page.schema = load
  BY <1>1 DEF PageAt
<1>3. tabs' = [tabs EXCEPT ![w] = page]
  BY <1>1
<1> HIDE DEF page
<1>4. PageAt(page, opened)
  BY <1>1, <1>2 DEF PageAt
<1>5. ASSUME NEW x \in Windows, tabs'[x] # Nothing PROVE PageAt(tabs'[x], opened)
  <2>1. tabs'[x] = IF x = w THEN page ELSE tabs[x]
    BY <1>1, <1>3
  <2> QED BY <1>4, <1>5, <2>1 DEF TabsInv
<1>6. DOMAIN tabs' = Windows
  BY <1>1, <1>3
<1> QED BY <1>5, <1>6 DEF TabsInv

\* Whatever the windows of the user do, in any order, and however often the storage
\* refuses.
LEMMA TabsKeeps ==
  ASSUME TabsInv(tabs, stored, opened), TabsActs
  PROVE  TabsInv(tabs', stored', opened')
<1>0. opened \in Nat /\ DOMAIN tabs = Windows
  BY DEF TabsInv
<1>p. ASSUME NEW w \in Windows, tabs[w] # Nothing
      PROVE  /\ PageAt(tabs[w], opened) /\ tabs[w].at \in Connections
             /\ TabsAt(tabs[w].state, tabs[w].at, opened) /\ LoadAt(tabs[w].schema, tabs[w].at)
  BY <1>p DEF TabsInv, PageAt
<1>l. ASSUME NEW w \in Windows, NEW at \in Connections, NEW load, LoadAt(load, at),
             Rendering(w, [at |-> at, state |-> LoadTabs(at), schema |-> load]),
             opened' = opened + NewTabs(at)
      PROVE  TabsInv(tabs', stored', opened')
  <2> DEFINE page == [at |-> at, state |-> LoadTabs(at), schema |-> load]
  <2>1. /\ opened + NewTabs(at) \in Nat /\ opened <= opened + NewTabs(at)
        /\ TabsAt(LoadTabs(at), at, opened + NewTabs(at))
    BY LoadedTabsAt
  <2>2. /\ DOMAIN page = {"at", "state", "schema"} /\ page.at = at
        /\ page.state = LoadTabs(at) /\ page.schema = load
    OBVIOUS
  <2>3. Rendering(w, page)
    BY <1>l
  <2> HIDE DEF page
  <2>4. PageAt(page, opened')
    BY <1>l, <2>1, <2>2 DEF PageAt
  <2> QED BY <1>l, <2>1, <2>3, <2>4, RenderingKeeps
<1>o. ASSUME NEW w \in Windows, tabs[w] # Nothing, NEW number \in Nat, NEW text \in {Blank, Typed},
             number = 0 \/ \A m \in Numbers(tabs[w].state) : m < number,
             OpenTab(w, number, text, tabs[w].at)
      PROVE  TabsInv(tabs', stored', opened')
  <2> DEFINE s == tabs[w].state
             v == [list |-> Append(s.list, Tab(opened, number, text, tabs[w].at)),
                   active |-> opened]
  <2>1. Change(w, v) /\ opened' = opened + 1
    BY <1>o DEF OpenTab
  <2>2. TabsAt(v, tabs[w].at, opened + 1)
    BY <1>0, <1>o, <1>p, OpenedTabsAt
  <2> HIDE DEF v
  <2> QED BY <1>0, <1>o, <2>1, <2>2, ChangeKeeps
<1>1. ASSUME NEW w \in Windows, NEW at \in Connections, OpenConsole(w, at)
      PROVE  TabsInv(tabs', stored', opened')
  BY <1>1, <1>l, MountedAt DEF OpenConsole
<1>2. ASSUME NEW w \in Windows, NEW at \in Connections, Switch(w, at)
      PROVE  TabsInv(tabs', stored', opened')
  BY <1>2, <1>l, ReloadedAt DEF Switch
<1>3. ASSUME NEW w \in Windows, CloseConsole(w) PROVE TabsInv(tabs', stored', opened')
  <2>1. tabs' = [tabs EXCEPT ![w] = Nothing] /\ UNCHANGED <<stored, opened>>
    BY <1>3 DEF CloseConsole
  <2>2. \A x \in Windows : tabs'[x] # Nothing => tabs'[x] = tabs[x]
    BY <1>0, <2>1
  <2>3. DOMAIN tabs' = Windows
    BY <1>0, <2>1
  <2> QED BY <2>1, <2>2, <2>3 DEF TabsInv
<1>4. ASSUME NEW w \in Windows, SchemaAnswered(w) PROVE TabsInv(tabs', stored', opened')
  <2>1. PICK load \in {Succeeded(tabs[w].schema, [of |-> tabs[w].schema.key]),
                       Failed(tabs[w].schema)} :
          tabs' = [tabs EXCEPT ![w].schema = load]
    BY <1>4 DEF SchemaAnswered
  <2>2. tabs[w] # Nothing /\ UNCHANGED <<stored, opened>>
    BY <1>4 DEF SchemaAnswered
  <2>3. LoadAt(Succeeded(tabs[w].schema, [of |-> tabs[w].schema.key]), tabs[w].at)
    <3>1. [of |-> tabs[w].schema.key].of = tabs[w].schema.key
      OBVIOUS
    <3> QED BY <1>p, <2>2, <3>1, SucceededAt
  <2>4. LoadAt(Failed(tabs[w].schema), tabs[w].at)
    BY <1>p, <2>2, FailedAt
  <2> QED BY <2>1, <2>2, <2>3, <2>4, SchemaKeeps
<1>5. ASSUME NEW w \in Windows, SchemaAnswersLate(w) PROVE TabsInv(tabs', stored', opened')
  <2> DEFINE load == LateAnswer(tabs[w].schema, [of |-> tabs[w].schema.late])
  <2>1. tabs[w] # Nothing /\ UNCHANGED <<stored, opened>>
    BY <1>5 DEF SchemaAnswersLate
  <2>2. tabs' = [tabs EXCEPT ![w].schema = load]
    <3>1. DOMAIN tabs[w] = {"at", "state", "schema"}
      BY <1>p, <2>1 DEF PageAt
    <3> QED BY <1>0, <1>5, <3>1 DEF SchemaAnswersLate
  <2>3. LoadAt(load, tabs[w].at)
    BY <1>p, <2>1, LateAt
  <2> HIDE DEF load
  <2> QED BY <2>1, <2>2, <2>3, SchemaKeeps
<1>6. ASSUME NEW w \in Windows, NEW id, SetActive(w, id) PROVE TabsInv(tabs', stored', opened')
  <2> DEFINE v == [tabs[w].state EXCEPT !.active = id]
  <2>1. tabs[w] # Nothing /\ id \in Ids(tabs[w].state) /\ Change(w, v) /\ opened' = opened
    BY <1>6 DEF SetActive
  <2>2. TabsAt(v, tabs[w].at, opened)
    BY <1>p, <2>1, ActivatedTabsAt
  <2> HIDE DEF v
  <2> QED BY <1>0, <2>1, <2>2, ChangeKeeps
<1>7. ASSUME NEW w \in Windows, NEW id, RemoveTab(w, id) PROVE TabsInv(tabs', stored', opened')
  <2> DEFINE s == tabs[w].state
             Rest(at) == RemoveAt(s.list, at)
             Near(at) == IF at <= Len(Rest(at)) THEN at ELSE Len(Rest(at))
             V(at) == [list |-> Rest(at),
                       active |-> IF s.active = s.list[at].id THEN Rest(at)[Near(at)].id
                                  ELSE s.active]
  <2>1. tabs[w] # Nothing /\ Len(s.list) > 1 /\ opened' = opened
    BY <1>7 DEF RemoveTab
  <2>2. PICK at \in DOMAIN s.list : Change(w, V(at))
    BY <1>7 DEF RemoveTab
  <2>3. TabsAt(V(at), tabs[w].at, opened)
    BY <1>p, <2>1, ClosedTabsAt
  <2> HIDE DEF V
  <2> QED BY <1>0, <2>1, <2>2, <2>3, ChangeKeeps
<1>8. ASSUME NEW w \in Windows, AddTab(w) PROVE TabsInv(tabs', stored', opened')
  <2>1. PICK n \in Numbers(tabs[w].state) \cup {0} :
          /\ \A m \in Numbers(tabs[w].state) : m <= n
          /\ OpenTab(w, n + 1, Blank, tabs[w].at)
    BY <1>8 DEF AddTab
  <2>2. tabs[w] # Nothing
    BY <1>8 DEF AddTab
  <2>3. \A m \in Numbers(tabs[w].state) : m \in Nat
    <3>1. tabs[w].state.list \in Seq(TabRecords)
      BY <1>p, <2>2 DEF TabsAt
    <3>2. \A i \in DOMAIN tabs[w].state.list : tabs[w].state.list[i] \in TabRecords
      BY <3>1
    <3> QED BY <3>2 DEF Numbers, TabRecords
  <2>4. n \in Nat /\ n + 1 \in Nat /\ \A m \in Numbers(tabs[w].state) : m < n + 1
    BY <2>1, <2>3
  <2> QED BY <1>o, <2>1, <2>2, <2>4
<1>9. ASSUME NEW w \in Windows, OpenTable(w) PROVE TabsInv(tabs', stored', opened')
  <2>1. /\ tabs[w] # Nothing /\ HasData(tabs[w].schema)
        /\ OpenTab(w, 0, Typed, tabs[w].schema.data.of)
    BY <1>9 DEF OpenTable
  <2>2. tabs[w].schema.data.of = tabs[w].at
    BY <1>p, <2>1 DEF LoadAt, ShownFor
  <2> QED BY <1>o, <2>1, <2>2
<1>10. ASSUME NEW w \in Windows, UpdateSql(w) PROVE TabsInv(tabs', stored', opened')
  <2>1. PICK i \in DOMAIN tabs[w].state.list :
          Change(w, [tabs[w].state EXCEPT !.list[i].text = Typed])
    BY <1>10 DEF UpdateSql
  <2> DEFINE v == [tabs[w].state EXCEPT !.list[i].text = Typed]
  <2>2. tabs[w] # Nothing /\ opened' = opened
    BY <1>10 DEF UpdateSql
  <2>3. TabsAt(v, tabs[w].at, opened) /\ Change(w, v)
    BY <1>p, <2>1, <2>2, EditedTabsAt
  <2> HIDE DEF v
  <2> QED BY <1>0, <2>2, <2>3, ChangeKeeps
<1> QED BY <1>1, <1>2, <1>3, <1>4, <1>5, <1>6, <1>7, <1>8, <1>9, <1>10 DEF TabsActs

LEMMA FreshTabsAt ==
  TabsInv([w \in Windows |-> Nothing], [at \in Connections |-> NoTabs], 1)
BY DEF TabsInv

-----------------------------------------------------------------------------
(***************************************************************************)
(* Deletions.  What is selected or listed is of the folder on the screen;  *)
(* a confirmation for one object shows it; none is open while a deletion   *)
(* is under way.                                                           *)
(***************************************************************************)

BrowserFields == {"buckets", "bucket", "prefix", "listing", "selected", "checked", "dialog",
                  "shown", "deleting", "uploads"}

\* What DeletesWhatIsShown says of one request.
DeletionOf(r) ==
  /\ \A e \in r.entries : Level[e] = r.at[2]
  /\ r.panel = "object" => r.entries = r.shown

OfTheFolder(w) ==
  /\ BrowserFields \subseteq DOMAIN w
  /\ HasData(w.listing) => w.listing.data \in Listings(At(w))
  /\ w.selected # Nothing => Level[w.selected] = w.prefix
  /\ w.deleting # {} => w.dialog = "none"
  /\ \A r \in w.deleting : DeletionOf(r)

ShownAt(w) == w.dialog = "object" /\ Detail(w) # {} => w.shown = Detail(w)

DeletionsAt(w) == OfTheFolder(w) /\ ShownAt(w)

SameFolder(v, w) ==
  /\ DOMAIN v = DOMAIN w
  /\ v.bucket = w.bucket /\ v.prefix = w.prefix /\ v.listing = w.listing
  /\ v.selected = w.selected /\ v.checked = w.checked /\ v.dialog = w.dialog
  /\ v.deleting = w.deleting

LEMMA SameDetail ==
  ASSUME NEW v, NEW w, v.selected = w.selected, v.checked = w.checked, v.listing = w.listing
  PROVE  Detail(v) = Detail(w) /\ Selection(v) = Selection(w)
BY DEF Detail, Selection, ShowSelection, Lone, CheckedHere, Listed

LEMMA SameFolderAt ==
  ASSUME NEW v, NEW w, SameFolder(v, w)
  PROVE  /\ OfTheFolder(w) => OfTheFolder(v)
         /\ v.shown = w.shown /\ DeletionsAt(w) => DeletionsAt(v)
<1>1. Detail(v) = Detail(w)
  BY SameDetail DEF SameFolder
<1>2. OfTheFolder(w) => OfTheFolder(v)
  BY DEF OfTheFolder, SameFolder, At
<1> QED BY <1>1, <1>2 DEF DeletionsAt, ShownAt, SameFolder

\* A render shows what the confirmation is for.
LEMMA RenderedShows ==
  ASSUME NEW w, OfTheFolder(w)
  PROVE  DeletionsAt(Rendered(w))
<1> DEFINE shown == IF w.dialog = "none" THEN {}
                    ELSE IF OpenOn(w, w.dialog) # {} THEN OpenOn(w, w.dialog) ELSE w.shown
           v == Rendered(w)
<1>1. v = [w EXCEPT !.shown = shown]
  BY DEF Rendered
<1>2. w.dialog = "object" /\ Detail(w) # {} => shown = Detail(w)
  BY DEF OpenOn
<1> HIDE DEF shown, v
<1>3. SameFolder(v, w) /\ v.shown = shown
  BY <1>1 DEF OfTheFolder, BrowserFields, SameFolder
<1>4. OfTheFolder(v)
  BY <1>3, SameFolderAt
<1>5. Detail(v) = Detail(w) /\ v.dialog = w.dialog
  BY <1>3, SameDetail DEF SameFolder
<1>6. DeletionsAt(v)
  BY <1>2, <1>3, <1>4, <1>5 DEF DeletionsAt, ShownAt
<1> QED BY <1>6 DEF v

LEMMA NoDialogShows ==
  ASSUME NEW w, OfTheFolder(w), w.dialog = "none"
  PROVE  DeletionsAt(w)
BY DEF DeletionsAt, ShownAt

LEMMA ListedLevel ==
  ASSUME NEW w, OfTheFolder(w), NEW e \in Listed(w)
  PROVE  Level[e] = w.prefix
<1>1. HasData(w.listing) /\ e \in w.listing.data.entries
  BY DEF Listed
<1>2. w.listing.data \in [of : {At(w)}, entries : SUBSET {x \in Entries : Level[x] = At(w)[2]}]
  BY <1>1 DEF OfTheFolder, Listings
<1>3. At(w)[2] = w.prefix
  BY DEF At
<1> QED BY <1>1, <1>2, <1>3

\* The contents of a bucket as they are mounted.
LEMMA ContentsFields ==
  ASSUME NEW b, NEW w, {"buckets", "bucket"} \subseteq DOMAIN w
  PROVE  DeletionsAt(Mounting(Contents(b), w)) /\ DeletionsAt(Mounting(NoContents, w))
<1> DEFINE load == Mounted(<<b, Root>>)
           none == Mounted(<<Nothing, Root>>)
           c == Contents(b)
           m == Mounting(c, w)
           n == Mounting(NoContents, w)
<1>1. ~HasData(load) /\ ~HasData(none)
  BY DEF Mounted, HasData
<1>2. /\ DOMAIN NoContents = BrowserFields \ {"buckets", "bucket"}
      /\ NoContents.listing = none /\ NoContents.selected = Nothing
      /\ NoContents.dialog = "none" /\ NoContents.deleting = {}
  BY DEF NoContents, BrowserFields
<1>3. c = [NoContents EXCEPT !.listing = load]
  BY DEF Contents
<1> HIDE DEF load, none, c
<1>4. /\ DOMAIN c = BrowserFields \ {"buckets", "bucket"}
      /\ c.listing = load /\ c.selected = Nothing /\ c.dialog = "none" /\ c.deleting = {}
  BY <1>2, <1>3 DEF BrowserFields
<1>5. /\ BrowserFields \subseteq DOMAIN m
      /\ m.listing = load /\ m.selected = Nothing /\ m.dialog = "none" /\ m.deleting = {}
  BY <1>4 DEF Mounting, BrowserFields
<1>6. /\ BrowserFields \subseteq DOMAIN n
      /\ n.listing = none /\ n.selected = Nothing /\ n.dialog = "none" /\ n.deleting = {}
  BY <1>2 DEF Mounting, BrowserFields
<1> HIDE DEF m, n
<1>7. OfTheFolder(m) /\ OfTheFolder(n)
  BY <1>1, <1>5, <1>6 DEF OfTheFolder
<1>8. DeletionsAt(m) /\ DeletionsAt(n)
  BY <1>5, <1>6, <1>7, NoDialogShows
<1> QED BY <1>8 DEF m, n, c

LEMMA FreshDeletionsAt == DeletionsAt(FreshBrowser)
<1> DEFINE w == [buckets |-> Mounted(Nothing), bucket |-> Nothing]
<1>1. FreshBrowser = Mounting(NoContents, w)
  BY DEF FreshBrowser
<1>2. {"buckets", "bucket"} \subseteq DOMAIN w
  OBVIOUS
<1> HIDE DEF w
<1> QED BY <1>1, <1>2, ContentsFields

\* The listing of another folder, or of this one once more, shows nothing yet.
LEMMA ReloadOfFolder ==
  ASSUME NEW w, BrowserFields \subseteq DOMAIN w,
         w.selected # Nothing => Level[w.selected] = w.prefix,
         w.deleting # {} => w.dialog = "none",
         \A r \in w.deleting : DeletionOf(r)
  PROVE  OfTheFolder(Reload(w)) /\ Reload(w).dialog = w.dialog
<1> DEFINE load == Reloaded(w.listing, At(w))
<1>1. ~HasData(load)
  BY DEF Reloaded, HasData
<1>2. Reload(w) = [w EXCEPT !.listing = load]
  BY DEF Reload
<1> HIDE DEF load
<1>3. LET v == Reload(w) IN
      /\ BrowserFields \subseteq DOMAIN v /\ v.listing = load /\ v.prefix = w.prefix
      /\ v.selected = w.selected /\ v.dialog = w.dialog /\ v.deleting = w.deleting
  BY <1>2 DEF BrowserFields
<1> QED BY <1>1, <1>3 DEF OfTheFolder

\* The listing is answered, or its late answer dropped.
LEMMA ListingOfFolder ==
  ASSUME NEW w, OfTheFolder(w), NEW load,
         HasData(load) => load.data \in Listings(At(w))
  PROVE  OfTheFolder([w EXCEPT !.listing = load])
<1> DEFINE v == [w EXCEPT !.listing = load]
<1>1. /\ BrowserFields \subseteq DOMAIN v /\ v.listing = load /\ At(v) = At(w)
      /\ v.selected = w.selected /\ v.dialog = w.dialog /\ v.deleting = w.deleting
      /\ v.prefix = w.prefix
  BY DEF OfTheFolder, BrowserFields, At
<1> HIDE DEF v
<1>2. OfTheFolder(v)
  BY <1>1 DEF OfTheFolder
<1> QED BY <1>2 DEF v

\* Nothing is open, and another selection is made.
LEMMA SelectionOfFolder ==
  ASSUME NEW w, OfTheFolder(w), Free(w), NEW selected, NEW checked,
         selected # Nothing => Level[selected] = w.prefix
  PROVE  DeletionsAt([w EXCEPT !.selected = selected, !.checked = checked])
<1> DEFINE v == [w EXCEPT !.selected = selected, !.checked = checked]
<1>1. /\ BrowserFields \subseteq DOMAIN v /\ v.listing = w.listing /\ At(v) = At(w)
      /\ v.selected = selected /\ v.dialog = w.dialog /\ v.deleting = w.deleting
      /\ v.prefix = w.prefix
  BY DEF OfTheFolder, BrowserFields, At
<1> HIDE DEF v
<1>2. OfTheFolder(v) /\ v.dialog = "none"
  BY <1>1 DEF OfTheFolder, Free
<1>3. DeletionsAt(v)
  BY <1>2, NoDialogShows
<1> QED BY <1>3 DEF v

\* What is asked for is of the folder, and the one object is the one that is shown.
LEMMA AsksForTheShown ==
  ASSUME NEW w, DeletionsAt(w), w.dialog # "none", w.dialog # "object" \/ Detail(w) # {}
  PROVE  DeletionOf([at |-> At(w), panel |-> w.dialog, entries |-> Requested(w), shown |-> w.shown])
<1>1. ASSUME NEW e \in CheckedHere(w) PROVE Level[e] = w.prefix
  BY <1>1, ListedLevel DEF CheckedHere, DeletionsAt
<1>2. Lone(w) \subseteq CheckedHere(w)
  BY DEF Lone
<1>3. ASSUME NEW e \in Detail(w) PROVE Level[e] = w.prefix
  BY <1>1, <1>2, <1>3 DEF Detail, DeletionsAt, OfTheFolder
<1>4. ASSUME NEW e \in Requested(w) PROVE Level[e] = w.prefix
  BY <1>1, <1>3, <1>4 DEF Requested
<1>5. w.dialog = "object" => Requested(w) = w.shown
  BY DEF Requested, DeletionsAt, ShownAt
<1>6. At(w)[2] = w.prefix
  BY DEF At
<1> QED BY <1>4, <1>5, <1>6 DEF DeletionOf

LEMMA DeletionsKeep ==
  ASSUME ListingAt(browser), DeletionsAt(browser), BrowserActs
  PROVE  DeletionsAt(browser')
<1>d. /\ BrowserFields \subseteq DOMAIN browser
      /\ HasData(browser.listing) => browser.listing.data \in Listings(At(browser))
      /\ browser.selected # Nothing => Level[browser.selected] = browser.prefix
      /\ browser.deleting # {} => browser.dialog = "none"
      /\ \A r \in browser.deleting : DeletionOf(r)
      /\ OfTheFolder(browser)
  BY DEF DeletionsAt, OfTheFolder
<1>l. IsLoad(browser.listing) /\ browser.listing.key = At(browser)
  BY DEF ListingAt, LoadAt
<1>1. ASSUME NEW bs, BucketsListed(bs) PROVE DeletionsAt(browser')
  <2> DEFINE load == Succeeded(browser.buckets, [of |-> Nothing, names |-> bs])
             loaded == [browser EXCEPT !.buckets = load]
  <2>1. browser' = loaded \/ \E b : browser' = Mounting(Contents(b), [loaded EXCEPT !.bucket = b])
    BY <1>1 DEF BucketsListed
  <2> HIDE DEF load
  <2>2. SameFolder(loaded, browser) /\ loaded.shown = browser.shown
    BY <1>d DEF SameFolder, BrowserFields
  <2>3. \A b : {"buckets", "bucket"} \subseteq DOMAIN [loaded EXCEPT !.bucket = b]
    BY <1>d DEF BrowserFields
  <2> HIDE DEF loaded
  <2> QED BY <2>1, <2>2, <2>3, SameFolderAt, ContentsFields
<1>2. CASE BucketsFail
  <2> DEFINE load == Failed(browser.buckets)
  <2>1. browser' = [browser EXCEPT !.buckets = load]
    BY <1>2 DEF BucketsFail
  <2> HIDE DEF load
  <2>2. SameFolder(browser', browser) /\ browser'.shown = browser.shown
    BY <1>d, <2>1 DEF SameFolder, BrowserFields
  <2> QED BY <2>2, SameFolderAt
<1>3. ASSUME NEW b, SelectBucket(b) PROVE DeletionsAt(browser')
  <2>1. browser' = Mounting(Contents(b), [browser EXCEPT !.bucket = b])
    BY <1>3 DEF SelectBucket
  <2>2. {"buckets", "bucket"} \subseteq DOMAIN [browser EXCEPT !.bucket = b]
    BY <1>d DEF BrowserFields
  <2> QED BY <2>1, <2>2, ContentsFields
<1>4. ASSUME NEW p, Navigate(p) PROVE DeletionsAt(browser')
  <2> DEFINE w == ClearSelection([browser EXCEPT !.prefix = p])
  <2>1. browser' = Reload(w) /\ browser.dialog = "none"
    BY <1>4 DEF Navigate, Free
  <2>2. /\ BrowserFields \subseteq DOMAIN w /\ w.selected = Nothing
        /\ w.dialog = browser.dialog /\ w.deleting = browser.deleting
    BY <1>d DEF ClearSelection, BrowserFields
  <2> HIDE DEF w
  <2>3. OfTheFolder(Reload(w)) /\ Reload(w).dialog = "none"
    BY <1>d, <2>1, <2>2, ReloadOfFolder
  <2> QED BY <2>1, <2>3, NoDialogShows
<1>5. ASSUME NEW data, Answer(data) PROVE DeletionsAt(browser')
  <2> DEFINE load == Succeeded(browser.listing, data)
  <2>1. browser' = Rendered([browser EXCEPT !.listing = load]) /\ data \in Listings(At(browser))
    BY <1>5, <1>l DEF Answer
  <2>2. load.data = data
    BY <1>l DEF Succeeded, IsLoad
  <2> HIDE DEF load
  <2> QED BY <1>d, <2>1, <2>2, ListingOfFolder, RenderedShows
<1>6. CASE ListingFails
  <2> DEFINE load == Failed(browser.listing)
  <2>1. browser' = Rendered([browser EXCEPT !.listing = load])
    BY <1>6 DEF ListingFails
  <2>2. ~HasData(load)
    BY <1>l DEF Failed, IsLoad, HasData
  <2> HIDE DEF load
  <2> QED BY <1>d, <2>1, <2>2, ListingOfFolder, RenderedShows
<1>7. ASSUME NEW data, AnswerLate(data) PROVE DeletionsAt(browser')
  <2> DEFINE load == LateAnswer(browser.listing, data)
  <2>1. browser' = Rendered([browser EXCEPT !.listing = load])
    BY <1>7 DEF AnswerLate
  <2>2. load.data = browser.listing.data /\ (HasData(load) => HasData(browser.listing))
    BY <1>l DEF LateAnswer, IsLoad, HasData
  <2> HIDE DEF load
  <2> QED BY <1>d, <2>1, <2>2, ListingOfFolder, RenderedShows
<1>8. ASSUME NEW e, OpenObject(e) PROVE DeletionsAt(browser')
  <2> DEFINE none == {}
  <2>1. /\ browser' = [browser EXCEPT !.selected = e, !.checked = none]
        /\ Free(browser) /\ e \in Listed(browser)
    BY <1>8, <1>d DEF OpenObject, BrowserFields
  <2>2. Level[e] = browser.prefix
    BY <1>d, <2>1, ListedLevel
  <2> HIDE DEF none
  <2> QED BY <1>d, <2>1, <2>2, SelectionOfFolder
<1>9. ASSUME NEW e, Toggle(e) PROVE DeletionsAt(browser')
  <2> DEFINE checked == IF e \in browser.checked THEN browser.checked \ {e} ELSE browser.checked \cup {e}
  <2>1. browser' = [browser EXCEPT !.selected = Nothing, !.checked = checked] /\ Free(browser)
    BY <1>9 DEF Toggle
  <2> HIDE DEF checked
  <2> QED BY <1>d, <2>1, SelectionOfFolder
<1>10. CASE ToggleAll
  <2> DEFINE checked == IF Listed(browser) \subseteq browser.checked THEN {} ELSE Listed(browser)
  <2>1. browser' = [browser EXCEPT !.selected = Nothing, !.checked = checked] /\ Free(browser)
    BY <1>10 DEF ToggleAll
  <2> HIDE DEF checked
  <2> QED BY <1>d, <2>1, SelectionOfFolder
<1>11. CASE ClosePanel
  <2> DEFINE none == {}
  <2>1. browser' = [browser EXCEPT !.selected = Nothing, !.checked = none] /\ Free(browser)
    BY <1>11 DEF ClosePanel, ClearSelection
  <2> HIDE DEF none
  <2> QED BY <1>d, <2>1, SelectionOfFolder
\* The confirmation opens, or closes.
<1>w. ASSUME NEW dialog, dialog = "none" \/ browser.deleting = {},
             browser' = Rendered([browser EXCEPT !.dialog = dialog])
      PROVE  DeletionsAt(browser')
  <2> DEFINE w == [browser EXCEPT !.dialog = dialog]
  <2>1. /\ BrowserFields \subseteq DOMAIN w /\ w.listing = browser.listing /\ At(w) = At(browser)
        /\ w.selected = browser.selected /\ w.dialog = dialog /\ w.deleting = browser.deleting
        /\ w.prefix = browser.prefix
    BY <1>d DEF BrowserFields, At
  <2> HIDE DEF w
  <2>2. OfTheFolder(w)
    BY <1>d, <1>w, <2>1 DEF OfTheFolder
  <2> QED BY <1>w, <2>2, RenderedShows DEF w
<1>12. ASSUME NEW panel, AskDelete(panel) PROVE DeletionsAt(browser')
  BY <1>12, <1>w DEF AskDelete
<1>13. CASE CancelDelete
  BY <1>13, <1>w DEF CancelDelete
<1>14. CASE ConfirmDelete
  <2> DEFINE r == [at |-> At(browser), panel |-> browser.dialog, entries |-> Requested(browser),
                   shown |-> browser.shown]
             deleting == IF browser.dialog = "object" /\ Detail(browser) = {} THEN {} ELSE {r}
             w == [browser EXCEPT !.dialog = "none", !.deleting = deleting]
  <2>1. browser' = Rendered(w) /\ browser.dialog # "none"
    BY <1>14 DEF ConfirmDelete
  <2>2. browser.dialog # "object" \/ Detail(browser) # {} => DeletionOf(r)
    BY <2>1, AsksForTheShown
  <2>3. \A x \in deleting : DeletionOf(x)
    BY <2>2
  <2> HIDE DEF r, deleting
  <2>4. /\ BrowserFields \subseteq DOMAIN w /\ w.listing = browser.listing /\ At(w) = At(browser)
        /\ w.selected = browser.selected /\ w.dialog = "none" /\ w.deleting = deleting
        /\ w.prefix = browser.prefix
    BY <1>d DEF BrowserFields, At
  <2> HIDE DEF w
  <2>5. OfTheFolder(w)
    BY <1>d, <2>3, <2>4 DEF OfTheFolder
  <2> QED BY <2>1, <2>5, RenderedShows
<1>15. CASE DeleteSucceeds
  <2> DEFINE w == ClearSelection([browser EXCEPT !.deleting = {}])
  <2>1. browser' = Reload(w) /\ browser.dialog = "none"
    BY <1>15, <1>d DEF DeleteSucceeds
  <2>2. /\ BrowserFields \subseteq DOMAIN w /\ w.selected = Nothing
        /\ w.dialog = browser.dialog /\ w.deleting = {}
    BY <1>d DEF ClearSelection, BrowserFields
  <2> HIDE DEF w
  <2>3. OfTheFolder(Reload(w)) /\ Reload(w).dialog = "none"
    BY <1>d, <2>1, <2>2, ReloadOfFolder
  <2> QED BY <2>1, <2>3, NoDialogShows
<1>16. CASE DeleteFails
  <2>1. browser' = [browser EXCEPT !.deleting = {}] /\ browser.dialog = "none"
    BY <1>16, <1>d DEF DeleteFails
  <2>2. /\ BrowserFields \subseteq DOMAIN browser' /\ browser'.listing = browser.listing
        /\ At(browser') = At(browser) /\ browser'.selected = browser.selected
        /\ browser'.dialog = "none" /\ browser'.deleting = {} /\ browser'.prefix = browser.prefix
    BY <1>d, <2>1 DEF BrowserFields, At
  <2>3. OfTheFolder(browser')
    BY <1>d, <2>2 DEF OfTheFolder
  <2> QED BY <2>2, <2>3, NoDialogShows
<1> QED BY <1>1, <1>2, <1>3, <1>4, <1>5, <1>6, <1>7, <1>8, <1>9, <1>10, <1>11, <1>12, <1>13,
           <1>14, <1>15, <1>16 DEF BrowserActs

LEMMA UploadsKeepDeletions ==
  ASSUME DeletionsAt(browser), (\E n \in 1..MaxFiles : Upload(n)) \/ PoolRuns
  PROVE  DeletionsAt(browser')
<1>d. OfTheFolder(browser) /\ BrowserFields \subseteq DOMAIN browser
  BY DEF DeletionsAt, OfTheFolder
<1>1. ASSUME NEW n \in 1..MaxFiles, Upload(n) PROVE DeletionsAt(browser')
  <2>1. browser' = [browser EXCEPT !.uploads = TRUE]
    BY <1>1 DEF Upload
  <2>2. SameFolder(browser', browser) /\ browser'.shown = browser.shown
    BY <1>d, <2>1 DEF SameFolder, BrowserFields
  <2> QED BY <2>2, SameFolderAt
<1>2. CASE UploadAnswered
  <2>1. browser' = browser
    BY <1>2 DEF UploadAnswered
  <2> QED BY <2>1
<1>3. CASE UploadsEnd
  <2> DEFINE w == [browser EXCEPT !.uploads = FALSE]
  <2>1. browser' = browser \/ browser' = Rendered(Reload(w))
    BY <1>3 DEF UploadsEnd
  <2>2. SameFolder(w, browser)
    BY <1>d DEF SameFolder, BrowserFields
  <2>3. OfTheFolder(w)
    BY <1>d, <2>2, SameFolderAt
  <2> HIDE DEF w
  <2>4. OfTheFolder(Reload(w))
    BY <2>3, ReloadOfFolder DEF OfTheFolder
  <2> QED BY <2>1, <2>4, RenderedShows
<1> QED BY <1>1, <1>2, <1>3 DEF PoolRuns
-----------------------------------------------------------------------------
(***************************************************************************)
(* The dropdown of regions: the highlight is on the list, or the list is   *)
(* empty.                                                                  *)
(***************************************************************************)

SelectAt(s) ==
  /\ DOMAIN s = {"open", "text", "active"}
  /\ s.text \in Texts /\ s.active \in Int
  /\ s.open /\ Shown(s) # <<>> => s.active \in DOMAIN Shown(s)

HeaderFields == {"region", "health", "polling", "select"}
HighlightAt(w) == HeaderFields \subseteq DOMAIN w /\ SelectAt(w.select)

LEMMA TextMatches ==
  ASSUME NEW s, s.text \in Texts
  PROVE  /\ Len(Shown(s)) \in Nat /\ DOMAIN Shown(s) = 1..Len(Shown(s))
         /\ Shown(s) # <<>> => Len(Shown(s)) # 0
<1>1. Shown(s) \in Seq(Regions)
  BY HeaderAssumption DEF Shown
<1> QED BY <1>1

LEMMA FreshSelectAt == SelectAt(ClosedSelect) /\ SelectAt([ClosedSelect EXCEPT !.open = TRUE])
<1> DEFINE s == ClosedSelect
           shownSelect == [s EXCEPT !.open = TRUE]
<1>1. /\ DOMAIN s = {"open", "text", "active"} /\ s.text = NoText /\ s.active = 1 /\ s.open = FALSE
      /\ DOMAIN shownSelect = {"open", "text", "active"}
      /\ shownSelect.text = NoText /\ shownSelect.active = 1
  BY DEF ClosedSelect
<1> HIDE DEF s, shownSelect
<1>2. SelectAt(s)
  BY <1>1, HeaderAssumption DEF SelectAt
<1>3. SelectAt(shownSelect)
  BY <1>1, HeaderAssumption, TextMatches DEF SelectAt
<1> QED BY <1>2, <1>3 DEF s, shownSelect

LEMMA FreshHighlightAt == ASSUME NEW last PROVE HighlightAt(FreshHeader(last))
BY FreshSelectAt DEF HighlightAt, FreshHeader, HeaderFields

LEMMA RestartedHighlight ==
  ASSUME NEW w, NEW r, HighlightAt(w)
  PROVE  HighlightAt(Restarted(w, r))
<1> DEFINE load == [Mounted(r) EXCEPT !.late =
                      IF w.polling = "call" THEN w.health.key ELSE w.health.late]
<1>1. Restarted(w, r) = [w EXCEPT !.polling = "call", !.health = load]
  BY DEF Restarted
<1> HIDE DEF load
<1> QED BY <1>1 DEF HighlightAt, HeaderFields

LEMMA HighlightKeeps ==
  ASSUME HighlightAt(header), HeaderActs
  PROVE  HighlightAt(header')
<1>d. HeaderFields \subseteq DOMAIN header /\ SelectAt(header.select)
  BY DEF HighlightAt
<1> DEFINE s == header.select
<1>s. /\ DOMAIN s = {"open", "text", "active"} /\ s.text \in Texts /\ s.active \in Int
      /\ s.open /\ Shown(s) # <<>> => s.active \in DOMAIN Shown(s)
  BY <1>d DEF SelectAt
<1>t. Len(Shown(s)) \in Nat /\ DOMAIN Shown(s) = 1..Len(Shown(s)) /\ (Shown(s) # <<>> => Len(Shown(s)) # 0)
  BY <1>s, TextMatches
<1>1. ASSUME NEW t, SelectAt(t), header' = [header EXCEPT !.select = t]
      PROVE  HighlightAt(header')
  BY <1>1, <1>d DEF HighlightAt, HeaderFields
<1>c. SelectAt([s EXCEPT !.open = FALSE])
  <2> DEFINE t == [s EXCEPT !.open = FALSE]
  <2>1. DOMAIN t = DOMAIN s /\ t.text = s.text /\ t.active = s.active /\ t.open = FALSE
    BY <1>s
  <2> HIDE DEF t, s
  <2>2. SelectAt(t)
    BY <2>1, <1>s DEF SelectAt
  <2> QED BY <2>2 DEF t
<1>2. CASE HealthAnswered \/ HealthAnsweredLate \/ PollTimer
  BY <1>2, <1>d DEF HealthAnswered, HealthAnsweredLate, PollTimer, HighlightAt, HeaderFields
<1>3. CASE RetryHealth
  BY <1>3, RestartedHighlight DEF RetryHealth
<1>4. CASE OpenSelect
  BY <1>4, <1>1, FreshSelectAt DEF OpenSelect
<1>5. CASE CloseSelect
  BY <1>5, <1>1, <1>c DEF CloseSelect
<1>6. ASSUME NEW t \in Texts, Search(t) PROVE HighlightAt(header')
  <2> DEFINE u == [s EXCEPT !.text = t, !.active = 1]
  <2>1. DOMAIN u = DOMAIN s /\ u.text = t /\ u.active = 1
    BY <1>s
  <2>2. header' = [header EXCEPT !.select = u]
    BY <1>6 DEF Search
  <2> HIDE DEF u, s
  <2>3. SelectAt(u)
    BY <2>1, <1>s, TextMatches DEF SelectAt
  <2> QED BY <2>2, <2>3, <1>1
<1>7. ASSUME NEW i \in Int, Highlight(i) PROVE HighlightAt(header')
  <2> DEFINE u == [s EXCEPT !.active = i]
  <2>1. DOMAIN u = DOMAIN s /\ u.text = s.text /\ u.active = i /\ u.open = s.open
    BY <1>s
  <2>2. header' = [header EXCEPT !.select = u]
    BY <1>7 DEF Highlight
  <2>3. /\ s.open
        /\ \/ i = IF s.active + 1 <= Len(Shown(s)) THEN s.active + 1 ELSE Len(Shown(s))
           \/ i = IF s.active > 1 THEN s.active - 1 ELSE 1
    BY <1>7 DEF Highlight
  <2>4. Shown(u) = Shown(s)
    BY <2>1 DEF Shown
  <2> DEFINE n == Len(Shown(s))
             a == s.active
  <2>a. Shown(s) # <<>> => a \in 1..n /\ n # 0
    BY <2>3, <1>s, <1>t
  <2>b. n \in Nat /\ a \in Int
    BY <1>s, <1>t
  <2>c. i = (IF a + 1 <= n THEN a + 1 ELSE n) \/ i = (IF a > 1 THEN a - 1 ELSE 1)
    BY <2>3
  <2> HIDE DEF u, s, n, a
  <2>d. a \in 1..n /\ n # 0 => i \in 1..n
    BY <2>b, <2>c
  <2>5. Shown(s) # <<>> => i \in 1..Len(Shown(s))
    BY <2>a, <2>d DEF n
  <2>6. SelectAt(u)
    BY <2>1, <2>4, <2>5, <1>s, <1>t DEF SelectAt
  <2> QED BY <2>2, <2>6, <1>1
<1>8. CASE Choose
  <2> DEFINE r == Shown(header.select)[header.select.active]
             closed == [header EXCEPT !.select.open = FALSE]
             moved == [closed EXCEPT !.region = r]
  <2>1. header' = closed \/ header' = Restarted(moved, r)
    BY <1>8 DEF Choose
  <2>2. HighlightAt(closed)
    BY <1>c, <1>d DEF HighlightAt, HeaderFields
  <2> HIDE DEF r, closed
  <2>3. HighlightAt(moved)
    BY <2>2 DEF HighlightAt, HeaderFields
  <2> HIDE DEF moved
  <2> QED BY <2>1, <2>2, <2>3, RestartedHighlight
<1> QED BY <1>2, <1>3, <1>4, <1>5, <1>6, <1>7, <1>8 DEF HeaderActs
-----------------------------------------------------------------------------
(***************************************************************************)
(* The queues and identities.  Unless a call was carried out that is not   *)
(* answered yet, or a view was left that made one, the list, or what is on *)
(* its way to it, is the emulator's.                                       *)
(***************************************************************************)

CallFields == {"op", "name", "at", "mounted", "waiting", "done"}

ChangesAt(w, ow) ==
  /\ DOMAIN ow = Lists \X AllRegions
  /\ CloudFields \subseteq DOMAIN w
  /\ w.region \in AllRegions
  /\ \A c \in w.calls : DOMAIN c = CallFields /\ (w.unsure \/ c.mounted)
  /\ w.view \in Lists /\ (\A c \in w.calls : ~c.done) /\ ~w.unsure =>
       /\ HasData(w.list) => w.list.data.names = ow[<<w.view, w.region>>]
       /\ \A d \in w.read : d.names = ow[<<w.view, w.region>>]

SameChanges(v, w) ==
  /\ SameList(v, w)
  /\ v.calls = w.calls /\ v.unsure = w.unsure

LEMMA SameChangesAt ==
  ASSUME NEW v, NEW w, NEW ow, ChangesAt(w, ow), SameChanges(v, w)
  PROVE  ChangesAt(v, ow)
BY DEF ChangesAt, SameChanges, SameList

\* A list that was just asked for shows nothing yet.
LEMMA NothingShown ==
  ASSUME NEW w, NEW ow, DOMAIN ow = Lists \X AllRegions, CloudFields \subseteq DOMAIN w,
         w.region \in AllRegions, ~HasData(w.list), w.read = {},
         \A c \in w.calls : DOMAIN c = CallFields /\ (w.unsure \/ c.mounted)
  PROVE  ChangesAt(w, ow)
BY DEF ChangesAt

LEMMA FreshChangesAt ==
  ASSUME NEW r \in AllRegions, NEW ow, DOMAIN ow = Lists \X AllRegions
  PROVE  ChangesAt(FreshCloud(r), ow)
<1> DEFINE m == FreshCloud(r)
<1>1. ~HasData(Mounted(<<"launcher", r>>))
  BY DEF Mounted, HasData
<1>2. /\ CloudFields \subseteq DOMAIN m /\ m.list = Mounted(<<"launcher", r>>) /\ m.read = {}
      /\ m.region = r /\ m.calls = {}
  BY DEF FreshCloud, Mounting, FreshView, CloudFields
<1> HIDE DEF m
<1>3. ChangesAt(m, ow)
  BY <1>1, <1>2, NothingShown
<1> QED BY <1>3 DEF m

LEMMA ReloadChangesAt ==
  ASSUME NEW w, NEW ow, DOMAIN ow = Lists \X AllRegions, CloudFields \subseteq DOMAIN w,
         w.region \in AllRegions,
         \A c \in w.calls : DOMAIN c = CallFields /\ (w.unsure \/ c.mounted)
  PROVE  ChangesAt(ReloadList(w), ow)
<1> DEFINE load == Reloaded(w.list, <<w.view, w.region>>)
           calls == {[c EXCEPT !.waiting = @ /\ c.op = "create"] : c \in w.calls}
           unsure == w.unsure /\ w.calls # {}
           v == ReloadList(w)
<1>1. v = [w EXCEPT !.list = load, !.read = {}, !.dialog = Nothing, !.calls = calls, !.unsure = unsure]
  BY DEF ReloadList
<1>2. ~HasData(load)
  BY DEF Reloaded, HasData
<1>3. ASSUME NEW c \in calls PROVE DOMAIN c = CallFields /\ (unsure \/ c.mounted)
  <2>1. PICK d \in w.calls : c = [d EXCEPT !.waiting = @ /\ d.op = "create"]
    BY <1>3
  <2>2. DOMAIN c = CallFields /\ c.mounted = d.mounted
    BY <2>1 DEF CallFields
  <2> QED BY <2>2
<1> HIDE DEF load, calls, unsure, v
<1>4. /\ CloudFields \subseteq DOMAIN v /\ v.list = load /\ v.read = {} /\ v.region = w.region
      /\ v.calls = calls /\ v.unsure = unsure
  BY <1>1 DEF CloudFields
<1>5. ChangesAt(v, ow)
  BY <1>2, <1>3, <1>4, NothingShown
<1> QED BY <1>5 DEF v

LEMMA SentFields ==
  ASSUME NEW w, NEW op, NEW name
  PROVE  DOMAIN Sent(w, op, name) = CallFields /\ Sent(w, op, name).mounted
BY DEF Sent, CallFields

LEMMA ChangesKeep ==
  ASSUME ListAt(cloud), ChangesAt(cloud, owned), CloudActs
  PROVE  ChangesAt(cloud', owned')
<1>d. /\ DOMAIN owned = Lists \X AllRegions
      /\ CloudFields \subseteq DOMAIN cloud
      /\ cloud.region \in AllRegions
      /\ \A c \in cloud.calls : DOMAIN c = CallFields /\ (cloud.unsure \/ c.mounted)
      /\ cloud.view \in Lists /\ (\A c \in cloud.calls : ~c.done) /\ ~cloud.unsure =>
           /\ HasData(cloud.list) => cloud.list.data.names = owned[<<cloud.view, cloud.region>>]
           /\ \A r \in cloud.read : r.names = owned[<<cloud.view, cloud.region>>]
  BY DEF ChangesAt
<1>l. IsLoad(cloud.list) /\ cloud.list.key = <<cloud.view, cloud.region>>
  BY DEF ListAt, LoadAt
<1>1. ASSUME SameChanges(cloud', cloud), UNCHANGED owned PROVE ChangesAt(cloud', owned')
  BY <1>1, SameChangesAt
<1>2. ASSUME NEW v, GoTo(v) PROVE ChangesAt(cloud', owned')
  <2> DEFINE calls == {[c EXCEPT !.mounted = FALSE, !.waiting = FALSE] : c \in cloud.calls}
             unsure == cloud.calls # {}
             w == [cloud EXCEPT !.unsure = unsure, !.calls = calls]
             view == FreshView(v, cloud.region)
  <2>1. cloud' = Mounting(view, w) /\ owned' = owned
    BY <1>2 DEF GoTo
  <2>2. \A c \in calls : DOMAIN c = CallFields /\ unsure
    BY <1>d
  <2> HIDE DEF calls, unsure
  <2>3. /\ {"region", "calls", "unsure"} \subseteq DOMAIN w /\ w.region = cloud.region
        /\ w.calls = calls /\ w.unsure = unsure
    BY <1>d DEF CloudFields
  <2>4. /\ DOMAIN view = {"view", "list", "read", "dialog", "preview"}
        /\ view.list = Mounted(<<v, cloud.region>>) /\ view.read = {}
    BY DEF FreshView
  <2> HIDE DEF w, view
  <2>5. /\ CloudFields \subseteq DOMAIN cloud' /\ cloud'.list = Mounted(<<v, cloud.region>>)
        /\ cloud'.read = {} /\ cloud'.region = cloud.region
        /\ cloud'.calls = calls /\ cloud'.unsure = unsure
    BY <2>1, <2>3, <2>4 DEF Mounting, CloudFields
  <2>6. ~HasData(Mounted(<<v, cloud.region>>))
    BY DEF HasData, Mounted
  <2> QED BY <1>d, <2>1, <2>2, <2>5, <2>6, NothingShown
<1>3. ASSUME NEW r \in AllRegions, ChangeRegion(r) PROVE ChangesAt(cloud', owned')
  <2> DEFINE w == [cloud EXCEPT !.region = r]
  <2>1. cloud' = ReloadList(w) /\ owned' = owned
    BY <1>3 DEF ChangeRegion
  <2>2. /\ CloudFields \subseteq DOMAIN w /\ w.region = r /\ w.calls = cloud.calls
        /\ w.unsure = cloud.unsure
    BY <1>d DEF CloudFields
  <2> HIDE DEF w
  <2> QED BY <1>d, <2>1, <2>2, ReloadChangesAt
<1>4. CASE ReadList
  <2> DEFINE key == cloud.list.key
             names == IF key \in DOMAIN owned THEN owned[key] ELSE {}
             answer == [of |-> key, names |-> names]
  <2>1. cloud' = [cloud EXCEPT !.read = {answer}] /\ owned' = owned /\ ~HasData(cloud.list)
    BY <1>4 DEF ReadList, Pending, HasData
  <2>2. cloud.view \in Lists => answer.names = owned[<<cloud.view, cloud.region>>]
    BY <1>d, <1>l
  <2> HIDE DEF answer
  <2>3. /\ CloudFields \subseteq DOMAIN cloud' /\ cloud'.list = cloud.list
        /\ cloud'.read = {answer} /\ cloud'.view = cloud.view /\ cloud'.region = cloud.region
        /\ cloud'.calls = cloud.calls /\ cloud'.unsure = cloud.unsure
    BY <1>d, <2>1 DEF CloudFields
  <2> QED BY <1>d, <2>1, <2>2, <2>3 DEF ChangesAt
<1>5. CASE ListAnswered
  <2> PICK data \in cloud.read : cloud' = [cloud EXCEPT !.list = Succeeded(@, data), !.read = {}]
    BY <1>5 DEF ListAnswered
  <2> DEFINE load == Succeeded(cloud.list, data)
  <2>1. cloud' = [cloud EXCEPT !.list = load, !.read = {}] /\ owned' = owned
    BY <1>5 DEF ListAnswered
  <2>2. load.data = data
    BY <1>l DEF IsLoad, Succeeded
  <2> HIDE DEF load
  <2>3. /\ CloudFields \subseteq DOMAIN cloud' /\ cloud'.list = load
        /\ cloud'.read = {} /\ cloud'.view = cloud.view /\ cloud'.region = cloud.region
        /\ cloud'.calls = cloud.calls /\ cloud'.unsure = cloud.unsure
    BY <1>d, <2>1 DEF CloudFields
  <2> QED BY <1>d, <2>1, <2>2, <2>3 DEF ChangesAt
<1>6. CASE ListFails
  <2> PICK status \in {"error", "unreachable"} :
        cloud' = [cloud EXCEPT !.list.status = status, !.read = {}]
    BY <1>6 DEF ListFails
  <2> DEFINE load == [cloud.list EXCEPT !.status = status]
  <2>1. cloud' = [cloud EXCEPT !.list = load, !.read = {}] /\ owned' = owned
    BY <1>6 DEF ListFails
  <2>2. ~HasData(load)
    BY <1>l DEF IsLoad, HasData
  <2> HIDE DEF load
  <2>3. /\ CloudFields \subseteq DOMAIN cloud' /\ cloud'.list = load
        /\ cloud'.read = {} /\ cloud'.region = cloud.region
        /\ cloud'.calls = cloud.calls /\ cloud'.unsure = cloud.unsure
    BY <1>d, <2>1 DEF CloudFields
  <2> QED BY <1>d, <2>1, <2>2, <2>3, NothingShown
<1>7. CASE RetryMail
  BY <1>7, <1>d, ReloadChangesAt DEF RetryMail
\* A call is sent.
<1>s. ASSUME NEW c, DOMAIN c = CallFields, c.mounted, NEW dialog, UNCHANGED owned,
             cloud' = [cloud EXCEPT !.dialog = dialog, !.calls = @ \cup {c}]
      PROVE  ChangesAt(cloud', owned')
  <2> DEFINE calls == cloud.calls \cup {c}
  <2>1. /\ CloudFields \subseteq DOMAIN cloud' /\ cloud'.list = cloud.list
        /\ cloud'.read = cloud.read /\ cloud'.view = cloud.view /\ cloud'.region = cloud.region
        /\ cloud'.calls = calls /\ cloud'.unsure = cloud.unsure
    BY <1>d, <1>s DEF CloudFields
  <2>2. \A x \in calls : DOMAIN x = CallFields /\ (cloud.unsure \/ x.mounted)
    BY <1>d, <1>s
  <2>3. (\A x \in calls : ~x.done) => \A x \in cloud.calls : ~x.done
    OBVIOUS
  <2> HIDE DEF calls
  <2> QED BY <1>d, <1>s, <2>1, <2>2, <2>3 DEF ChangesAt
<1>8. ASSUME NEW n, Create(n) PROVE ChangesAt(cloud', owned')
  <2> DEFINE c == Sent(cloud, "create", n)
  <2>1. cloud' = [cloud EXCEPT !.calls = @ \cup {c}] /\ UNCHANGED owned
    BY <1>8 DEF Create
  <2>2. DOMAIN c = CallFields /\ c.mounted
    BY SentFields
  <2> HIDE DEF c
  <2>3. cloud' = [cloud EXCEPT !.dialog = cloud.dialog, !.calls = @ \cup {c}]
    BY <1>d, <2>1 DEF CloudFields
  <2> QED BY <1>s, <2>1, <2>2, <2>3
<1>9. ASSUME NEW op, NEW n, AskRow(op, n) PROVE ChangesAt(cloud', owned')
  BY <1>9, <1>1, <1>d DEF AskRow, SameChanges, SameList, CloudFields
<1>10. ASSUME NEW n, Preview(n) PROVE ChangesAt(cloud', owned')
  BY <1>10, <1>1, <1>d DEF Preview, SameChanges, SameList, CloudFields
<1>11. CASE PreviewAnswered
  BY <1>11, <1>1, <1>d DEF PreviewAnswered, SameChanges, SameList, CloudFields
<1>12. CASE CloseDialog
  BY <1>12, <1>1, <1>d DEF CloseDialog, SameChanges, SameList, CloudFields
<1>13. CASE ConfirmRow
  <2> DEFINE c == Sent(cloud, cloud.dialog[1], cloud.dialog[2])
  <2>1. cloud' = [cloud EXCEPT !.dialog = Nothing, !.calls = @ \cup {c}] /\ UNCHANGED owned
    BY <1>13 DEF ConfirmRow
  <2>2. DOMAIN c = CallFields /\ c.mounted
    BY SentFields
  <2> HIDE DEF c
  <2> QED BY <1>s, <2>1, <2>2
<1>14. ASSUME NEW c \in cloud.calls, CarryOut(c) PROVE ChangesAt(cloud', owned')
  <2> DEFINE new == [c EXCEPT !.done = TRUE]
             calls == (cloud.calls \ {c}) \cup {new}
  <2>1. cloud' = [cloud EXCEPT !.calls = calls] /\ DOMAIN owned' = DOMAIN owned
    BY <1>14 DEF CarryOut
  <2>2. DOMAIN new = CallFields /\ new.done /\ new.mounted = c.mounted
    BY <1>d DEF CallFields
  <2> HIDE DEF new
  <2>3. /\ CloudFields \subseteq DOMAIN cloud' /\ cloud'.region = cloud.region
        /\ cloud'.calls = calls /\ cloud'.unsure = cloud.unsure
    BY <1>d, <2>1 DEF CloudFields
  <2>4. \A x \in calls : DOMAIN x = CallFields /\ (cloud.unsure \/ x.mounted)
    BY <1>d, <2>2
  <2>5. \E x \in calls : x.done
    BY <2>2
  <2> HIDE DEF calls
  <2> QED BY <1>d, <2>1, <2>3, <2>4, <2>5 DEF ChangesAt
<1>15. ASSUME NEW c \in cloud.calls, CallSucceeds(c) PROVE ChangesAt(cloud', owned')
  <2> DEFINE w == [cloud EXCEPT !.calls = @ \ {c}]
  <2>1. cloud' = (IF c.mounted THEN ReloadList(w) ELSE w) /\ owned' = owned
    BY <1>15 DEF CallSucceeds
  <2>2. /\ CloudFields \subseteq DOMAIN w /\ w.region = cloud.region /\ w.unsure = cloud.unsure
        /\ w.calls \subseteq cloud.calls
    BY <1>d DEF CloudFields
  <2> HIDE DEF w
  <2>3. CASE c.mounted
    BY <1>d, <2>1, <2>2, <2>3, ReloadChangesAt
  <2>4. CASE ~c.mounted
    BY <1>d, <2>1, <2>2, <2>4 DEF ChangesAt
  <2> QED BY <2>3, <2>4
<1>16. ASSUME NEW c \in cloud.calls, CallFails(c) PROVE ChangesAt(cloud', owned')
  <2> DEFINE calls == cloud.calls \ {c}
             unsure == cloud.unsure \/ c.done
  <2>1. cloud' = [cloud EXCEPT !.calls = calls, !.unsure = unsure] /\ owned' = owned
    BY <1>16 DEF CallFails
  <2>2. (\A x \in calls : ~x.done) /\ ~unsure
          => (\A x \in cloud.calls : ~x.done) /\ ~cloud.unsure
    OBVIOUS
  <2>3. \A x \in calls : DOMAIN x = CallFields /\ (unsure \/ x.mounted)
    BY <1>d
  <2> HIDE DEF calls, unsure
  <2>4. /\ CloudFields \subseteq DOMAIN cloud' /\ cloud'.list = cloud.list
        /\ cloud'.read = cloud.read /\ cloud'.view = cloud.view /\ cloud'.region = cloud.region
        /\ cloud'.calls = calls /\ cloud'.unsure = unsure
    BY <1>d, <2>1 DEF CloudFields
  <2> QED BY <1>d, <2>1, <2>2, <2>3, <2>4 DEF ChangesAt
\* Someone else's change: either it is of what is not on the screen, or the screen shows
\* nothing and awaits nothing that was read, or it becomes unsure.
<1>17. ASSUME NEW at, NEW names, OthersOwn(at, names) PROVE ChangesAt(cloud', owned')
  <2> DEFINE unsure == cloud.unsure \/ OnTheScreen(cloud, at)
             here == <<cloud.view, cloud.region>>
  <2>1. cloud' = [cloud EXCEPT !.unsure = unsure] /\ owned' = [owned EXCEPT ![at] = names]
    BY <1>17 DEF OthersOwn
  <2>2. DOMAIN owned' = DOMAIN owned /\ (at # here => owned'[here] = owned[here])
    BY <1>d, <2>1
  <2>3. cloud.unsure => unsure
    OBVIOUS
  <2>4. ~unsure => at # here \/ (~HasData(cloud.list) /\ cloud.read = {})
    BY DEF OnTheScreen
  <2> HIDE DEF unsure
  <2>5. /\ CloudFields \subseteq DOMAIN cloud' /\ cloud'.list = cloud.list
        /\ cloud'.read = cloud.read /\ cloud'.view = cloud.view /\ cloud'.region = cloud.region
        /\ cloud'.calls = cloud.calls /\ cloud'.unsure = unsure
    BY <1>d, <2>1 DEF CloudFields
  <2>6. \A c \in cloud.calls : DOMAIN c = CallFields /\ (unsure \/ c.mounted)
    BY <1>d, <2>3
  <2>7. CASE unsure
    BY <1>d, <2>2, <2>5, <2>6, <2>7 DEF ChangesAt
  <2>8. CASE ~unsure /\ at # here
    BY <1>d, <2>2, <2>3, <2>5, <2>6, <2>8 DEF ChangesAt
  <2>9. CASE ~HasData(cloud.list) /\ cloud.read = {}
    BY <1>d, <2>2, <2>5, <2>6, <2>9 DEF ChangesAt
  <2> QED BY <2>4, <2>7, <2>8, <2>9
<1> QED BY <1>2, <1>3, <1>4, <1>5, <1>6, <1>7, <1>8, <1>9, <1>10, <1>11, <1>12, <1>13, <1>14,
           <1>15, <1>16, <1>17 DEF CloudActs
-----------------------------------------------------------------------------
(***************************************************************************)
(* The settings of a service.  Unless a save was carried out that is not   *)
(* answered yet, what the page has, and what it was sent, is what the      *)
(* server has.                                                             *)
(***************************************************************************)

SvcFields == {"dialog", "source", "list", "picked", "port", "portLoad", "draft", "log",
              "page", "read", "saves", "unsure"}

SettingsAt(w, sv) ==
  /\ DOMAIN w = SvcFields
  /\ IsLoad(w.page)
  /\ \A s \in w.saves : DOMAIN s = {"config", "mounted", "done"}
  /\ (\A s \in w.saves : ~s.done) /\ ~w.unsure =>
       /\ HasData(w.page) => w.page.data.config = sv
       /\ \A d \in w.read : d.config = sv

SameSettings(v, w) ==
  /\ DOMAIN v = DOMAIN w
  /\ v.page = w.page /\ v.read = w.read /\ v.saves = w.saves /\ v.unsure = w.unsure

LEMMA SameSettingsAt ==
  ASSUME NEW v, NEW w, NEW sv, SettingsAt(w, sv), SameSettings(v, w)
  PROVE  SettingsAt(v, sv)
BY DEF SettingsAt, SameSettings

LEMMA NoDialogsFields ==
  /\ DOMAIN NoDialogs = SvcFields \ {"page", "read", "saves", "unsure"}
  /\ NoDialogs.dialog = "none" /\ NoDialogs.log = Nothing /\ NoDialogs.picked = {}
  /\ NoDialogs.list = Mounted(Nothing)
BY DEF NoDialogs, SvcFields

LEMMA ClosedDialogsFields ==
  ASSUME NEW w
  PROVE  /\ DOMAIN ClosedDialogs(w) = SvcFields \ {"page", "read", "saves", "unsure"}
         /\ ClosedDialogs(w).dialog = "none" /\ ClosedDialogs(w).log = Nothing
         /\ ClosedDialogs(w).list = Reloaded(w.list, Nothing)
<1> DEFINE load == Reloaded(w.list, Nothing)
<1>1. ClosedDialogs(w) = [NoDialogs EXCEPT !.list = load]
  BY DEF ClosedDialogs
<1> HIDE DEF load
<1>2. "list" \in DOMAIN NoDialogs
  BY NoDialogsFields DEF SvcFields
<1> QED BY <1>1, <1>2, NoDialogsFields DEF load

\* What a record does not have is kept.
LEMMA UnderFields ==
  ASSUME NEW rec, NEW w, NEW f \in DOMAIN w
  PROVE  /\ DOMAIN Under(rec, w) = DOMAIN w
         /\ f \in DOMAIN rec => Under(rec, w)[f] = rec[f]
         /\ f \notin DOMAIN rec => Under(rec, w)[f] = w[f]
BY DEF Under

LEMMA UnderSettings ==
  ASSUME NEW rec, NEW w, DOMAIN w = SvcFields,
         DOMAIN rec = SvcFields \ {"page", "read", "saves", "unsure"}
  PROVE  SameSettings(Under(rec, w), w)
BY UnderFields DEF SameSettings, SvcFields

LEMMA FreshSvcFields ==
  /\ DOMAIN FreshSvc = SvcFields
  /\ FreshSvc.page = Mounted("page") /\ FreshSvc.read = {} /\ FreshSvc.saves = {}
  /\ FreshSvc.unsure = FALSE
  /\ FreshSvc.dialog = "none" /\ FreshSvc.log = Nothing /\ FreshSvc.list = Mounted(Nothing)
<1>1. DOMAIN FreshPage = {"page", "read"} /\ FreshPage.page = Mounted("page") /\ FreshPage.read = {}
  BY DEF FreshPage
<1>2. \A f \in {"page", "read", "saves", "unsure"} : f \notin DOMAIN NoDialogs
  BY NoDialogsFields
<1>3. \A f \in {"dialog", "log", "list"} : f \in DOMAIN NoDialogs
  BY NoDialogsFields DEF SvcFields
<1>4. DOMAIN FreshSvc = SvcFields
  BY <1>1, NoDialogsFields DEF FreshSvc, SvcFields
<1> QED BY <1>1, <1>2, <1>3, <1>4, NoDialogsFields DEF FreshSvc

LEMMA FreshSettingsAt == ASSUME NEW sv PROVE SettingsAt(FreshSvc, sv)
<1>1. IsLoad(Mounted("page")) /\ ~HasData(Mounted("page"))
  BY DEF IsLoad, Mounted, HasData
<1> QED BY <1>1, FreshSvcFields DEF SettingsAt

\* A reload has nothing to show, and asks anew.
LEMMA ReloadPageFields ==
  ASSUME NEW w, DOMAIN w = SvcFields
  PROVE  LET v == ReloadPage(w) IN
         /\ DOMAIN v = SvcFields
         /\ v.page = Reloaded(w.page, "page") /\ v.read = {}
         /\ v.saves = {[s EXCEPT !.mounted = FALSE] : s \in w.saves}
         /\ v.dialog = "none" /\ v.log = Nothing /\ v.list = Mounted(Nothing)
<1> DEFINE u == [w EXCEPT !.page = Reloaded(@, "page"), !.read = {},
                   !.saves = {[s EXCEPT !.mounted = FALSE] : s \in @},
                   !.unsure = @ /\ w.saves # {}]
           page == Reloaded(w.page, "page")
           saves == {[s EXCEPT !.mounted = FALSE] : s \in w.saves}
           unsure == w.unsure /\ w.saves # {}
<1>1. u = [w EXCEPT !.page = page, !.read = {}, !.saves = saves, !.unsure = unsure]
  OBVIOUS
<1> HIDE DEF page, saves, unsure, u
<1>2. DOMAIN u = SvcFields /\ u.page = page /\ u.read = {} /\ u.saves = saves
  BY <1>1 DEF SvcFields
<1>3. ReloadPage(w) = Under(NoDialogs, u)
  BY DEF ReloadPage, u
<1>4. SameSettings(Under(NoDialogs, u), u)
  BY <1>2, NoDialogsFields, UnderSettings
<1>5. \A f \in {"dialog", "log", "list"} : f \in DOMAIN u /\ f \in DOMAIN NoDialogs
  BY <1>2, NoDialogsFields DEF SvcFields
<1>6. \A f \in {"dialog", "log", "list"} : Under(NoDialogs, u)[f] = NoDialogs[f]
  BY <1>5, UnderFields
<1> QED BY <1>2, <1>3, <1>4, <1>6, NoDialogsFields DEF SameSettings, page, saves

LEMMA ReloadPageSettings ==
  ASSUME NEW w, DOMAIN w = SvcFields, NEW sv,
         \A s \in w.saves : DOMAIN s = {"config", "mounted", "done"}
  PROVE  SettingsAt(ReloadPage(w), sv)
<1>1. IsLoad(Reloaded(w.page, "page")) /\ ~HasData(Reloaded(w.page, "page"))
  BY DEF IsLoad, Reloaded, HasData
<1> DEFINE v == ReloadPage(w)
<1>2. /\ DOMAIN v = SvcFields /\ v.page = Reloaded(w.page, "page") /\ v.read = {}
      /\ v.saves = {[s EXCEPT !.mounted = FALSE] : s \in w.saves}
  BY ReloadPageFields
<1> HIDE DEF v
<1>3. \A s \in v.saves : DOMAIN s = {"config", "mounted", "done"}
  BY <1>2
<1>4. SettingsAt(v, sv)
  BY <1>1, <1>2, <1>3 DEF SettingsAt
<1> QED BY <1>4 DEF v

LEMMA SettingsKeeps ==
  ASSUME SettingsAt(svc, saved), SvcActs
  PROVE  SettingsAt(svc', saved')
<1>d. /\ DOMAIN svc = SvcFields /\ IsLoad(svc.page)
      /\ \A s \in svc.saves : DOMAIN s = {"config", "mounted", "done"}
      /\ (\A s \in svc.saves : ~s.done) /\ ~svc.unsure =>
           /\ HasData(svc.page) => svc.page.data.config = saved
           /\ \A r \in svc.read : r.config = saved
  BY DEF SettingsAt
<1>1. ASSUME SameSettings(svc', svc), UNCHANGED saved
      PROVE  SettingsAt(svc', saved')
  BY <1>1, SameSettingsAt
<1>2. CASE ReadPage
  <2>1. svc' = [svc EXCEPT !.read = {[of |-> "page", config |-> saved]}] /\ saved' = saved
        /\ ~HasData(svc.page)
    BY <1>2 DEF ReadPage, Pending, HasData
  <2> QED BY <1>d, <2>1 DEF SettingsAt, SvcFields
<1>3. CASE PageAnswered
  <2> PICK data \in svc.read : svc' = [svc EXCEPT !.page = Succeeded(@, data), !.read = {}]
    BY <1>3 DEF PageAnswered
  <2> DEFINE page == Succeeded(svc.page, data)
  <2>1. svc' = [svc EXCEPT !.page = page, !.read = {}] /\ saved' = saved
    BY <1>3 DEF PageAnswered
  <2>2. IsLoad(page) /\ page.data = data
    BY <1>d DEF IsLoad, Succeeded
  <2> HIDE DEF page
  <2>3. /\ DOMAIN svc' = SvcFields /\ svc'.page = page /\ svc'.read = {}
        /\ svc'.saves = svc.saves /\ svc'.unsure = svc.unsure
    BY <1>d, <2>1 DEF SvcFields
  <2> QED BY <1>d, <2>1, <2>2, <2>3 DEF SettingsAt
<1>4. CASE PageFails
  <2> DEFINE page == Failed(svc.page)
  <2>1. svc' = [svc EXCEPT !.page = page, !.read = {}] /\ saved' = saved
    BY <1>4 DEF PageFails
  <2>2. IsLoad(page) /\ ~HasData(page)
    BY <1>d DEF IsLoad, Failed, HasData
  <2> HIDE DEF page
  <2> QED BY <1>d, <2>1, <2>2 DEF SettingsAt, SvcFields
<1>5. CASE OpenSettings
  <2>1. svc' = [svc EXCEPT !.dialog = "settings", !.draft = svc.page.data.config]
    BY <1>5 DEF OpenSettings
  <2> QED BY <1>1, <1>5, <1>d, <2>1 DEF SameSettings, SvcFields, OpenSettings
<1>6. CASE Save
  <2> DEFINE new == [config |-> svc.draft, mounted |-> TRUE, done |-> FALSE]
             saves == svc.saves \cup {new}
  <2>1. svc' = [svc EXCEPT !.saves = saves] /\ saved' = saved
    BY <1>6 DEF Save
  <2>2. DOMAIN new = {"config", "mounted", "done"}
    OBVIOUS
  <2> HIDE DEF new
  <2>3. /\ DOMAIN svc' = SvcFields /\ svc'.page = svc.page /\ svc'.read = svc.read
        /\ svc'.saves = saves /\ svc'.unsure = svc.unsure
    BY <1>d, <2>1 DEF SvcFields
  <2>4. \A s \in saves : DOMAIN s = {"config", "mounted", "done"}
    BY <1>d, <2>2
  <2>5. (\A s \in saves : ~s.done) => \A s \in svc.saves : ~s.done
    OBVIOUS
  <2> HIDE DEF saves
  <2> QED BY <1>d, <2>1, <2>3, <2>4, <2>5 DEF SettingsAt
<1>7. CASE CloseSettings
  <2> DEFINE saves == {[s EXCEPT !.mounted = FALSE] : s \in svc.saves}
  <2>1. svc' = [svc EXCEPT !.dialog = "none", !.draft = Nothing, !.saves = saves] /\ saved' = saved
    BY <1>7 DEF CloseSettings
  <2>2. \A s \in svc.saves : /\ DOMAIN [s EXCEPT !.mounted = FALSE] = {"config", "mounted", "done"}
                             /\ [s EXCEPT !.mounted = FALSE].done = s.done
    BY <1>d
  <2>3. \A s \in saves : DOMAIN s = {"config", "mounted", "done"}
    BY <2>2
  <2>4. (\A s \in saves : ~s.done) => \A s \in svc.saves : ~s.done
    BY <2>2
  <2> HIDE DEF saves
  <2>5. /\ DOMAIN svc' = SvcFields /\ svc'.page = svc.page /\ svc'.read = svc.read
        /\ svc'.saves = saves /\ svc'.unsure = svc.unsure
    BY <1>d, <2>1 DEF SvcFields
  <2> QED BY <1>d, <2>1, <2>3, <2>4, <2>5 DEF SettingsAt
<1>8. ASSUME NEW c, EditSettings(c) PROVE SettingsAt(svc', saved')
  BY <1>8, <1>1, <1>d DEF EditSettings, SameSettings, SvcFields
<1>9. ASSUME NEW s \in svc.saves, SaveArrives(s) PROVE SettingsAt(svc', saved')
  <2> DEFINE new == [s EXCEPT !.done = TRUE]
             saves == (svc.saves \ {s}) \cup {new}
  <2>1. svc' = [svc EXCEPT !.saves = saves]
    BY <1>9 DEF SaveArrives
  <2>2. DOMAIN new = {"config", "mounted", "done"} /\ new.done
    BY <1>d
  <2> HIDE DEF new
  <2>3. /\ DOMAIN svc' = SvcFields /\ svc'.page = svc.page /\ svc'.saves = saves
    BY <1>d, <2>1 DEF SvcFields
  <2>4. \A t \in saves : DOMAIN t = {"config", "mounted", "done"}
    BY <1>d, <2>2
  <2>5. \E t \in saves : t.done
    BY <2>2
  <2> HIDE DEF saves
  <2> QED BY <1>d, <2>3, <2>4, <2>5 DEF SettingsAt
<1>10. ASSUME NEW s \in svc.saves, SaveSucceeds(s) PROVE SettingsAt(svc', saved')
  <2> DEFINE w == [svc EXCEPT !.saves = @ \ {s}]
  <2>1. DOMAIN w = SvcFields /\ w.saves \subseteq svc.saves
    BY <1>d DEF SvcFields
  <2>2. svc' = ReloadPage(w)
    BY <1>10 DEF SaveSucceeds
  <2> HIDE DEF w
  <2> QED BY <1>d, <2>1, <2>2, ReloadPageSettings
<1>11. ASSUME NEW s \in svc.saves, SaveFails(s) PROVE SettingsAt(svc', saved')
  <2> DEFINE saves == svc.saves \ {s}
             unsure == svc.unsure \/ s.done
  <2>1. svc' = [svc EXCEPT !.saves = saves, !.unsure = unsure] /\ saved' = saved
    BY <1>11 DEF SaveFails
  <2>2. (\A t \in saves : ~t.done) /\ ~unsure => (\A t \in svc.saves : ~t.done) /\ ~svc.unsure
    OBVIOUS
  <2>3. \A t \in saves : DOMAIN t = {"config", "mounted", "done"}
    BY <1>d
  <2> HIDE DEF saves, unsure
  <2>4. /\ DOMAIN svc' = SvcFields /\ svc'.page = svc.page /\ svc'.read = svc.read
        /\ svc'.saves = saves /\ svc'.unsure = unsure
    BY <1>d, <2>1 DEF SvcFields
  <2> QED BY <1>d, <2>1, <2>2, <2>3, <2>4 DEF SettingsAt
<1>12. ASSUME NEW k, OpenChoice(k) PROVE SettingsAt(svc', saved')
  BY <1>12, <1>1, <1>d DEF OpenChoice, SameSettings, SvcFields
<1>13. ASSUME NEW data, Offered(data) PROVE SettingsAt(svc', saved')
  <2>1. PICK pick : svc' = [svc EXCEPT !.list = Succeeded(@, data),
                                       !.picked = IF svc.dialog = "fork" THEN @ ELSE pick]
    BY <1>13 DEF Offered
  <2>2. UNCHANGED saved
    BY <1>13 DEF Offered
  <2> QED BY <1>1, <1>d, <2>1, <2>2 DEF SameSettings, SvcFields
<1>14. ASSUME NEW data, OffersLate(data) PROVE SettingsAt(svc', saved')
  BY <1>14, <1>1, <1>d DEF OffersLate, SameSettings, SvcFields
<1>15. CASE OffersFail
  BY <1>15, <1>1, <1>d DEF OffersFail, SameSettings, SvcFields
<1>16. ASSUME NEW p, ChangeSource(p) PROVE SettingsAt(svc', saved')
  BY <1>16, <1>1, <1>d DEF ChangeSource, SameSettings, SvcFields
<1>17. ASSUME NEW s, Pick(s) PROVE SettingsAt(svc', saved')
  BY <1>17, <1>1, <1>d DEF Pick, SameSettings, SvcFields
<1>18. ASSUME NEW b, ToggleBucket(b) PROVE SettingsAt(svc', saved')
  BY <1>18, <1>1, <1>d DEF ToggleBucket, SameSettings, SvcFields
<1>19. CASE PortAnswered
  BY <1>19, <1>1, <1>d DEF PortAnswered, SameSettings, SvcFields
<1>20. ASSUME NEW t, TypePort(t) PROVE SettingsAt(svc', saved')
  BY <1>20, <1>1, <1>d DEF TypePort, SameSettings, SvcFields
<1>21. CASE CancelChoice
  BY <1>21, <1>1, <1>d, ClosedDialogsFields, UnderSettings DEF CancelChoice
<1>22. CASE ConfirmChoice
  <2> DEFINE closed == ClosedDialogs(svc)
             log == [request |-> [kind |-> svc.dialog, source |-> svc.source, named |-> svc.picked,
                       offered |-> IF HasData(svc.list) THEN svc.list.data.offered ELSE {}],
                     status |-> "starting"]
             asked == [closed EXCEPT !.dialog = "log", !.log = log]
  <2>1. svc' = Under(asked, svc) /\ saved' = saved
    BY <1>22 DEF ConfirmChoice
  <2>2. DOMAIN closed = SvcFields \ {"page", "read", "saves", "unsure"}
    BY ClosedDialogsFields
  <2>3. DOMAIN asked = DOMAIN closed
    OBVIOUS
  <2> HIDE DEF asked
  <2> QED BY <1>1, <1>d, <2>1, <2>2, <2>3, UnderSettings
<1>23. CASE StartAnswered
  BY <1>23, <1>1, <1>d DEF StartAnswered, SameSettings, SvcFields
<1>24. CASE RunEnds
  BY <1>24, <1>1, <1>d DEF RunEnds, SameSettings, SvcFields
<1>25. CASE CloseLog
  BY <1>25, <1>1, <1>d DEF CloseLog, SameSettings, SvcFields
<1>26. ASSUME NEW c, OthersSave(c) PROVE SettingsAt(svc', saved')
  <2> DEFINE unsure == svc.unsure \/ PageShown(svc) \/ svc.read # {}
  <2>1. svc' = [svc EXCEPT !.unsure = unsure]
    BY <1>26 DEF OthersSave
  <2>2. ~unsure => ~HasData(svc.page) /\ svc.read = {}
    BY DEF PageShown
  <2> HIDE DEF unsure
  <2>3. /\ DOMAIN svc' = SvcFields /\ svc'.page = svc.page /\ svc'.read = svc.read
        /\ svc'.saves = svc.saves /\ svc'.unsure = unsure
    BY <1>d, <2>1 DEF SvcFields
  <2> QED BY <1>d, <2>2, <2>3 DEF SettingsAt
<1> QED BY <1>2, <1>3, <1>4, <1>5, <1>6, <1>7, <1>8, <1>9, <1>10, <1>11, <1>12, <1>13, <1>14,
           <1>15, <1>16, <1>17, <1>18, <1>19, <1>20, <1>21, <1>22, <1>23, <1>24, <1>25,
           <1>26
  DEF SvcActs
-----------------------------------------------------------------------------
(***************************************************************************)
(* What the dialogs of a service offer: the list is that of the dialog and *)
(* of its profile, and what is picked is on it.                            *)
(***************************************************************************)

\* What AsksForWhatWasOffered says of one request.
Asks(log) ==
  /\ DOMAIN log = {"request", "status"}
  /\ LET r == log.request IN
     /\ r.named \subseteq r.offered
     /\ r.kind = "apply" => r.named # {} /\ r.named \subseteq SnapshotsOf[r.source]
     /\ r.kind = "backup" /\ r.offered # {} => r.named # {}

OffersAt(w) ==
  /\ DOMAIN w = SvcFields
  /\ IsLoad(w.list)
  /\ w.dialog \in RunKinds =>
       /\ w.list.key = ListKey(w)
       /\ HasData(w.list) => w.list.data \in Offers(ListKey(w))
       /\ w.picked # {} => HasData(w.list) /\ w.picked \subseteq w.list.data.offered
  /\ w.dialog = "log" \/ w.log # Nothing => Asks(w.log)

SameOffers(v, w) ==
  /\ DOMAIN v = DOMAIN w
  /\ v.dialog = w.dialog /\ v.source = w.source /\ v.list = w.list /\ v.picked = w.picked
  /\ v.log = w.log

LEMMA SameOffersAt ==
  ASSUME NEW v, NEW w, OffersAt(w), SameOffers(v, w)
  PROVE  OffersAt(v)
BY DEF OffersAt, SameOffers, ListKey

\* With no dialog open there is nothing to offer.
LEMMA ClosedOffers ==
  ASSUME NEW w, DOMAIN w = SvcFields, IsLoad(w.list), w.dialog \notin RunKinds,
         w.dialog # "log", w.log = Nothing
  PROVE  OffersAt(w)
BY DEF OffersAt

LEMMA FreshOffersAt == OffersAt(FreshSvc)
<1>1. IsLoad(Mounted(Nothing))
  BY DEF IsLoad, Mounted
<1> QED BY <1>1, FreshSvcFields, ClosedOffers DEF RunKinds

LEMMA ReloadPageOffers ==
  ASSUME NEW w, DOMAIN w = SvcFields
  PROVE  OffersAt(ReloadPage(w))
<1>1. IsLoad(Mounted(Nothing))
  BY DEF IsLoad, Mounted
<1> DEFINE v == ReloadPage(w)
<1>2. DOMAIN v = SvcFields /\ v.dialog = "none" /\ v.log = Nothing /\ v.list = Mounted(Nothing)
  BY ReloadPageFields
<1> HIDE DEF v
<1>3. OffersAt(v)
  BY <1>1, <1>2, ClosedOffers DEF RunKinds
<1> QED BY <1>3 DEF v

LEMMA OfferFields ==
  ASSUME NEW key, NEW data \in Offers(key)
  PROVE  /\ data.chosen \subseteq data.offered
         /\ key[1] # "backup" => data.offered \subseteq SnapshotsOf[key[2]]
<1>1. CASE key[1] = "backup"
  <2>1. PICK bs \in SUBSET StoreBuckets : data \in [of : {key}, offered : {bs}, chosen : SUBSET bs]
    BY <1>1 DEF Offers
  <2> QED BY <1>1, <2>1
<1>2. CASE key[1] # "backup"
  <2>1. data \in [of : {key}, offered : SUBSET SnapshotsOf[key[2]], chosen : {{}}]
    BY <1>2 DEF Offers
  <2> QED BY <2>1
<1> QED BY <1>1, <1>2

\* A dialog that asks, or asks for another profile's list, has none of it yet.
LEMMA AsksAnew ==
  ASSUME NEW v, DOMAIN v = SvcFields, NEW load, v.list = Reloaded(load, ListKey(v)),
         v.picked = {}, v.dialog # "log", v.log # Nothing => Asks(v.log)
  PROVE  OffersAt(v)
<1> DEFINE list == Reloaded(load, ListKey(v))
<1>1. IsLoad(list) /\ ~HasData(list) /\ list.key = ListKey(v)
  BY DEF IsLoad, Reloaded, HasData
<1> HIDE DEF list
<1>2. v.list = list
  BY DEF list
<1> QED BY <1>1, <1>2 DEF OffersAt

LEMMA OffersKeeps ==
  ASSUME OffersAt(svc), SvcActs
  PROVE  OffersAt(svc')
<1>d. /\ DOMAIN svc = SvcFields /\ IsLoad(svc.list)
      /\ svc.dialog \in RunKinds =>
           /\ svc.list.key = ListKey(svc)
           /\ HasData(svc.list) => svc.list.data \in Offers(ListKey(svc))
           /\ svc.picked # {} => HasData(svc.list) /\ svc.picked \subseteq svc.list.data.offered
      /\ (svc.dialog = "log" \/ svc.log # Nothing) => Asks(svc.log)
  BY DEF OffersAt
<1>1. ASSUME SameOffers(svc', svc) PROVE OffersAt(svc')
  BY <1>1, SameOffersAt
<1>2. CASE ReadPage
  BY <1>2, <1>1, <1>d DEF ReadPage, SameOffers, SvcFields
<1>3. CASE PageAnswered
  <2> PICK data \in svc.read : svc' = [svc EXCEPT !.page = Succeeded(@, data), !.read = {}]
    BY <1>3 DEF PageAnswered
  <2> QED BY <1>1, <1>d DEF SameOffers, SvcFields
<1>4. CASE PageFails
  BY <1>4, <1>1, <1>d DEF PageFails, SameOffers, SvcFields
\* The dialog of the settings opens and closes.
<1>o. ASSUME DOMAIN svc' = SvcFields, svc'.list = svc.list, svc'.log = svc.log,
             svc'.dialog \in {"none", "settings"}
      PROVE  OffersAt(svc')
  BY <1>o, <1>d DEF OffersAt, RunKinds
<1>5. CASE OpenSettings
  <2>1. svc' = [svc EXCEPT !.dialog = "settings", !.draft = svc.page.data.config]
    BY <1>5 DEF OpenSettings
  <2> QED BY <1>o, <1>d, <2>1 DEF SvcFields
<1>6. CASE Save
  BY <1>6, <1>1, <1>d DEF Save, SameOffers, SvcFields
<1>7. CASE CloseSettings
  <2> DEFINE saves == {[s EXCEPT !.mounted = FALSE] : s \in svc.saves}
  <2>1. svc' = [svc EXCEPT !.dialog = "none", !.draft = Nothing, !.saves = saves]
    BY <1>7 DEF CloseSettings
  <2> HIDE DEF saves
  <2> QED BY <1>o, <1>d, <2>1 DEF SvcFields
<1>8. ASSUME NEW c, EditSettings(c) PROVE OffersAt(svc')
  BY <1>8, <1>1, <1>d DEF EditSettings, SameOffers, SvcFields
<1>9. ASSUME NEW s \in svc.saves, SaveArrives(s) PROVE OffersAt(svc')
  <2> DEFINE saves == (svc.saves \ {s}) \cup {[s EXCEPT !.done = TRUE]}
  <2>1. svc' = [svc EXCEPT !.saves = saves]
    BY <1>9 DEF SaveArrives
  <2> HIDE DEF saves
  <2> QED BY <1>1, <1>d, <2>1 DEF SameOffers, SvcFields
<1>10. ASSUME NEW s \in svc.saves, SaveSucceeds(s) PROVE OffersAt(svc')
  <2> DEFINE w == [svc EXCEPT !.saves = @ \ {s}]
  <2>1. DOMAIN w = SvcFields
    BY <1>d
  <2>2. svc' = ReloadPage(w)
    BY <1>10 DEF SaveSucceeds
  <2> HIDE DEF w
  <2> QED BY <2>1, <2>2, ReloadPageOffers
<1>11. ASSUME NEW s \in svc.saves, SaveFails(s) PROVE OffersAt(svc')
  BY <1>11, <1>1, <1>d DEF SaveFails, SameOffers, SvcFields
<1>12. ASSUME NEW k \in RunKinds, OpenChoice(k) PROVE OffersAt(svc')
  <2>1. svc' = [svc EXCEPT !.dialog = k, !.source = Viewed,
                  !.list = Reloaded(@, <<k, Viewed>>), !.picked = {}, !.port = Nothing,
                  !.portLoad = IF k = "fork" THEN "loading" ELSE "none"]
    BY <1>12 DEF OpenChoice
  <2> DEFINE list == Reloaded(svc.list, <<k, Viewed>>)
             load == IF k = "fork" THEN "loading" ELSE "none"
  <2>2. svc' = [svc EXCEPT !.dialog = k, !.source = Viewed, !.list = list, !.picked = {},
                           !.port = Nothing, !.portLoad = load]
    BY <2>1
  <2> HIDE DEF list, load
  <2>3. /\ DOMAIN svc' = SvcFields /\ svc'.list = list /\ svc'.picked = {} /\ svc'.dialog = k
        /\ svc'.log = svc.log /\ ListKey(svc') = <<k, Viewed>>
    BY <1>d, <2>2 DEF SvcFields, ListKey
  <2>4. svc'.list = Reloaded(svc.list, ListKey(svc'))
    BY <2>3 DEF list
  <2> QED BY <1>d, <2>3, <2>4, AsksAnew DEF RunKinds
<1>13. ASSUME NEW data, Offered(data) PROVE OffersAt(svc')
  <2>1. svc.dialog \in RunKinds /\ Pending(svc.list) /\ data \in Offers(ListKey(svc))
    BY <1>13, <1>d DEF Offered
  <2>2. PICK pick \in IF svc.dialog = "backup" THEN {data.chosen}
                      ELSE IF svc.dialog = "fork" \/ data.offered = {} THEN {{}}
                      ELSE {{s} : s \in data.offered} :
          svc' = [svc EXCEPT !.list = Succeeded(@, data),
                             !.picked = IF svc.dialog = "fork" THEN @ ELSE pick]
    BY <1>13 DEF Offered
  <2> DEFINE list == Succeeded(svc.list, data)
             picked == IF svc.dialog = "fork" THEN svc.picked ELSE pick
  <2>3. svc' = [svc EXCEPT !.list = list, !.picked = picked]
    BY <2>2
  <2>4. IsLoad(list) /\ list.key = svc.list.key /\ HasData(list) /\ list.data = data
    BY <1>d DEF IsLoad, Succeeded, HasData
  <2>5. pick \subseteq data.offered
    BY <2>1, <2>2, OfferFields
  <2>6. picked \subseteq data.offered
    <3>1. CASE svc.dialog = "fork"
      <4>1. ~HasData(svc.list)
        BY <2>1 DEF Pending, HasData
      <4> QED BY <1>d, <2>1, <3>1, <4>1
    <3> QED BY <2>5, <3>1
  <2> HIDE DEF list, picked
  <2>7. /\ DOMAIN svc' = SvcFields /\ svc'.list = list /\ svc'.picked = picked
        /\ svc'.dialog = svc.dialog /\ svc'.log = svc.log /\ ListKey(svc') = ListKey(svc)
    BY <1>d, <2>3 DEF SvcFields, ListKey
  <2> QED BY <1>d, <2>1, <2>4, <2>6, <2>7 DEF OffersAt
\* The list changes, and not what was answered.
<1>l. ASSUME NEW list, IsLoad(list), list.key = svc.list.key, list.data = svc.list.data,
             HasData(svc.list) <=> HasData(list), svc' = [svc EXCEPT !.list = list]
      PROVE  OffersAt(svc')
  <2>1. /\ DOMAIN svc' = SvcFields /\ svc'.list = list /\ svc'.picked = svc.picked
        /\ svc'.dialog = svc.dialog /\ svc'.log = svc.log /\ ListKey(svc') = ListKey(svc)
    BY <1>l, <1>d DEF SvcFields, ListKey
  <2> QED BY <1>d, <1>l, <2>1 DEF OffersAt
<1>14. ASSUME NEW data, OffersLate(data) PROVE OffersAt(svc')
  <2> DEFINE list == LateAnswer(svc.list, data)
  <2>1. svc' = [svc EXCEPT !.list = list]
    BY <1>14 DEF OffersLate
  <2>2. /\ IsLoad(list) /\ list.key = svc.list.key /\ list.data = svc.list.data
        /\ (HasData(svc.list) <=> HasData(list))
    BY <1>d DEF IsLoad, LateAnswer, HasData
  <2> HIDE DEF list
  <2> QED BY <1>l, <2>1, <2>2
<1>15. CASE OffersFail
  <2> DEFINE list == Failed(svc.list)
  <2>1. svc' = [svc EXCEPT !.list = list] /\ ~HasData(svc.list)
    BY <1>15 DEF OffersFail, Pending, HasData
  <2>2. IsLoad(list) /\ list.key = svc.list.key /\ list.data = svc.list.data /\ ~HasData(list)
    BY <1>d DEF IsLoad, Failed, HasData
  <2> HIDE DEF list
  <2> QED BY <1>l, <2>1, <2>2
<1>16. ASSUME NEW p, ChangeSource(p) PROVE OffersAt(svc')
  <2> DEFINE list == Reloaded(svc.list, <<"apply", p>>)
  <2>1. svc' = [svc EXCEPT !.source = p, !.list = list, !.picked = {}] /\ svc.dialog = "apply"
    BY <1>16 DEF ChangeSource
  <2> HIDE DEF list
  <2>2. /\ DOMAIN svc' = SvcFields /\ svc'.list = list /\ svc'.picked = {} /\ svc'.dialog = "apply"
        /\ svc'.log = svc.log /\ ListKey(svc') = <<"apply", p>>
    BY <1>d, <2>1 DEF SvcFields, ListKey
  <2>3. svc'.list = Reloaded(svc.list, ListKey(svc'))
    BY <2>2 DEF list
  <2> QED BY <1>d, <2>2, <2>3, AsksAnew
\* What is picked is on the list.
<1>p. ASSUME NEW picked, HasData(svc.list), picked \subseteq svc.list.data.offered,
             svc' = [svc EXCEPT !.picked = picked]
      PROVE  OffersAt(svc')
  <2>1. /\ DOMAIN svc' = SvcFields /\ svc'.list = svc.list /\ svc'.picked = picked
        /\ svc'.dialog = svc.dialog /\ svc'.log = svc.log /\ ListKey(svc') = ListKey(svc)
    BY <1>p, <1>d DEF SvcFields, ListKey
  <2> QED BY <1>d, <1>p, <2>1 DEF OffersAt
<1>17. ASSUME NEW s, Pick(s) PROVE OffersAt(svc')
  <2>1. HasData(svc.list) /\ {s} \subseteq svc.list.data.offered /\ svc' = [svc EXCEPT !.picked = {s}]
    BY <1>17 DEF Pick
  <2> QED BY <1>p, <2>1
<1>18. ASSUME NEW b, ToggleBucket(b) PROVE OffersAt(svc')
  <2> DEFINE picked == IF b \in svc.picked THEN svc.picked \ {b} ELSE svc.picked \cup {b}
  <2>1. /\ HasData(svc.list) /\ b \in svc.list.data.offered /\ svc' = [svc EXCEPT !.picked = picked]
        /\ svc.dialog = "backup"
    BY <1>18 DEF ToggleBucket
  <2>2. svc.picked \subseteq svc.list.data.offered
    BY <1>d, <2>1 DEF RunKinds
  <2>3. picked \subseteq svc.list.data.offered
    BY <2>1, <2>2
  <2> HIDE DEF picked
  <2> QED BY <1>p, <2>1, <2>3
<1>19. CASE PortAnswered
  BY <1>19, <1>1, <1>d DEF PortAnswered, SameOffers, SvcFields
<1>20. ASSUME NEW t, TypePort(t) PROVE OffersAt(svc')
  BY <1>20, <1>1, <1>d DEF TypePort, SameOffers, SvcFields
\* The page without its dialogs, or with that of the log.
<1>c. ASSUME NEW rec, DOMAIN rec = SvcFields \ {"page", "read", "saves", "unsure"},
             rec.list = Reloaded(svc.list, Nothing), svc' = Under(rec, svc),
             \/ rec.dialog = "none" /\ rec.log = Nothing
             \/ rec.dialog = "log" /\ Asks(rec.log)
      PROVE  OffersAt(svc')
  <2>1. IsLoad(Reloaded(svc.list, Nothing))
    BY DEF IsLoad, Reloaded
  <2>2. \A f \in {"dialog", "log", "list"} : f \in DOMAIN svc /\ f \in DOMAIN rec
    BY <1>c, <1>d DEF SvcFields
  <2>3. \A f \in {"dialog", "log", "list"} : svc'[f] = rec[f]
    BY <2>2, <1>c, UnderFields
  <2>4. DOMAIN svc' = SvcFields
    BY <1>c, <1>d DEF Under
  <2> QED BY <1>c, <2>1, <2>3, <2>4 DEF OffersAt, RunKinds
<1>21. CASE CancelChoice
  BY <1>21, <1>c, ClosedDialogsFields DEF CancelChoice
<1>22. CASE ConfirmChoice
  <2> DEFINE closed == ClosedDialogs(svc)
             request == [kind |-> svc.dialog, source |-> svc.source, named |-> svc.picked,
                         offered |-> IF HasData(svc.list) THEN svc.list.data.offered ELSE {}]
             log == [request |-> request, status |-> "starting"]
             asked == [closed EXCEPT !.dialog = "log", !.log = log]
  <2>1. svc' = Under(asked, svc) /\ CanConfirm(svc)
    BY <1>22 DEF ConfirmChoice
  <2>2. /\ DOMAIN closed = SvcFields \ {"page", "read", "saves", "unsure"}
        /\ closed.list = Reloaded(svc.list, Nothing)
    BY ClosedDialogsFields
  <2>3. svc.dialog \in RunKinds
    BY <2>1 DEF CanConfirm, RunKinds
  <2>4. /\ request.kind = svc.dialog /\ request.source = svc.source /\ request.named = svc.picked
        /\ request.offered = IF HasData(svc.list) THEN svc.list.data.offered ELSE {}
        /\ DOMAIN log = {"request", "status"} /\ log.request = request
    OBVIOUS
  <2> HIDE DEF request
  <2>5. request.named \subseteq request.offered
    BY <1>d, <2>3, <2>4
  <2>6. ASSUME request.kind = "apply"
        PROVE  request.named # {} /\ request.named \subseteq SnapshotsOf[request.source]
    <3>1. svc.picked # {}
      BY <2>1, <2>4, <2>6 DEF CanConfirm
    <3>2. svc.list.data \in Offers(ListKey(svc)) /\ svc.picked \subseteq svc.list.data.offered
      BY <1>d, <2>3, <3>1
    <3>3. ListKey(svc)[1] = "apply" /\ ListKey(svc)[2] = svc.source
      BY <2>4, <2>6 DEF ListKey
    <3>4. svc.list.data.offered \subseteq SnapshotsOf[svc.source]
      BY <3>2, <3>3, OfferFields
    <3> QED BY <2>4, <3>1, <3>2, <3>4
  <2>7. ASSUME request.kind = "backup", request.offered # {}
        PROVE  request.named # {}
    BY <2>1, <2>4, <2>7 DEF CanConfirm
  <2>8. Asks(log)
    BY <2>4, <2>5, <2>6, <2>7 DEF Asks
  <2> HIDE DEF log, closed
  <2>9. /\ DOMAIN asked = DOMAIN closed /\ asked.list = closed.list
        /\ asked.dialog = "log" /\ asked.log = log
    BY <2>2 DEF SvcFields
  <2> HIDE DEF asked
  <2> QED BY <1>c, <2>1, <2>2, <2>8, <2>9
\* The run of the log's dialog goes on.
<1>r. ASSUME NEW status, svc' = [svc EXCEPT !.log.status = status], svc.dialog = "log"
      PROVE  OffersAt(svc')
  <2> DEFINE log == [svc.log EXCEPT !.status = status]
  <2>1. Asks(svc.log)
    BY <1>d, <1>r
  <2>2. DOMAIN log = DOMAIN svc.log /\ log.request = svc.log.request
    BY <2>1 DEF Asks
  <2>3. svc' = [svc EXCEPT !.log = log]
    BY <1>r
  <2> HIDE DEF log
  <2>4. Asks(log)
    BY <2>1, <2>2 DEF Asks
  <2>5. DOMAIN svc' = SvcFields /\ svc'.list = svc.list /\ svc'.dialog = "log" /\ svc'.log = log
    BY <1>d, <1>r, <2>3 DEF SvcFields
  <2> QED BY <1>d, <2>4, <2>5 DEF OffersAt, RunKinds
<1>23. CASE StartAnswered
  BY <1>23, <1>r DEF StartAnswered
<1>24. CASE RunEnds
  BY <1>24, <1>r DEF RunEnds
<1>25. CASE CloseLog
  <2>1. svc' = [svc EXCEPT !.dialog = "none", !.log = Nothing]
    BY <1>25 DEF CloseLog
  <2>2. /\ DOMAIN svc' = SvcFields /\ svc'.list = svc.list /\ svc'.dialog = "none"
        /\ svc'.log = Nothing
    BY <1>d, <2>1 DEF SvcFields
  <2> QED BY <1>d, <2>2, ClosedOffers DEF RunKinds
<1>26. ASSUME NEW c, OthersSave(c) PROVE OffersAt(svc')
  <2> DEFINE unsure == svc.unsure \/ PageShown(svc) \/ svc.read # {}
  <2>1. svc' = [svc EXCEPT !.unsure = unsure]
    BY <1>26 DEF OthersSave
  <2> HIDE DEF unsure
  <2> QED BY <1>1, <1>d, <2>1 DEF SameOffers, SvcFields
<1> QED BY <1>2, <1>3, <1>4, <1>5, <1>6, <1>7, <1>8, <1>9, <1>10, <1>11, <1>12, <1>13, <1>14,
           <1>15, <1>16, <1>17, <1>18, <1>19, <1>20, <1>21, <1>22, <1>23, <1>24, <1>25,
           <1>26
  DEF SvcActs
-----------------------------------------------------------------------------
(***************************************************************************)
(* The page of sessions.  Unless a deletion was carried out that is not    *)
(* answered yet, its rows, or those on their way to it, are the server's.  *)
(***************************************************************************)

BackupsFields == {"page", "list", "read", "viewing", "asked", "removals", "unsure"}
RemovalFields == {"session", "page", "last", "mounted", "done"}

RowsAt(w, all) ==
  /\ DOMAIN w = BackupsFields
  /\ IsLoad(w.list)
  /\ \A r \in w.removals : DOMAIN r = RemovalFields
  /\ (\A r \in w.removals : ~r.done) /\ ~w.unsure =>
       /\ HasData(w.list) => w.list.data.rows = OnPage(all, w.page)
       /\ \A d \in w.read : d.rows = OnPage(all, w.page)

SameRows(v, w) ==
  /\ DOMAIN v = DOMAIN w
  /\ v.page = w.page /\ v.list = w.list /\ v.read = w.read
  /\ v.removals = w.removals /\ v.unsure = w.unsure

LEMMA SameRowsAt ==
  ASSUME NEW v, NEW w, NEW all, RowsAt(w, all), SameRows(v, w)
  PROVE  RowsAt(v, all)
BY DEF RowsAt, SameRows

LEMMA FreshRowsAt == ASSUME NEW all PROVE RowsAt(FreshBackups, all)
<1>1. IsLoad(Mounted(1)) /\ ~HasData(Mounted(1))
  BY DEF IsLoad, Mounted, HasData
<1>2. /\ DOMAIN FreshBackups = BackupsFields /\ FreshBackups.list = Mounted(1)
      /\ FreshBackups.read = {} /\ FreshBackups.removals = {}
  BY DEF FreshBackups, BackupsFields
<1> QED BY <1>1, <1>2 DEF RowsAt

\* A load has nothing to show, and asks anew.
LEMMA LoadPageAt ==
  ASSUME NEW w, DOMAIN w = BackupsFields, NEW page, NEW all,
         \A r \in w.removals : DOMAIN r = RemovalFields
  PROVE  RowsAt(LoadPage(w, page), all)
<1> DEFINE load == Reloaded(w.list, page)
           removals == {[r EXCEPT !.mounted = FALSE] : r \in w.removals}
           unsure == w.unsure /\ w.removals # {}
           v == LoadPage(w, page)
<1>1. v = [w EXCEPT !.page = page, !.list = load, !.read = {}, !.viewing = Nothing,
                    !.asked = Nothing, !.removals = removals, !.unsure = unsure]
  BY DEF LoadPage
<1>2. IsLoad(load) /\ ~HasData(load)
  BY DEF IsLoad, Reloaded, HasData
<1>3. \A r \in removals : DOMAIN r = RemovalFields
  OBVIOUS
<1> HIDE DEF load, removals, unsure, v
<1>4. DOMAIN v = BackupsFields /\ v.list = load /\ v.read = {} /\ v.removals = removals
  BY <1>1 DEF BackupsFields
<1>5. RowsAt(v, all)
  BY <1>2, <1>3, <1>4 DEF RowsAt
<1> QED BY <1>5 DEF v

LEMMA RowsKeep ==
  ASSUME RowsAt(backups, kept), BackupsActs
  PROVE  RowsAt(backups', kept')
<1>d. /\ DOMAIN backups = BackupsFields /\ IsLoad(backups.list)
      /\ \A r \in backups.removals : DOMAIN r = RemovalFields
      /\ (\A r \in backups.removals : ~r.done) /\ ~backups.unsure =>
           /\ HasData(backups.list) => backups.list.data.rows = OnPage(kept, backups.page)
           /\ \A d \in backups.read : d.rows = OnPage(kept, backups.page)
  BY DEF RowsAt
<1>1. ASSUME SameRows(backups', backups), kept' = kept PROVE RowsAt(backups', kept')
  BY <1>1, SameRowsAt
<1>2. CASE ReadSessions
  <2> DEFINE answer == [of |-> backups.page, rows |-> OnPage(kept, backups.page),
                        total |-> Cardinality(kept), running |-> underway]
  <2>1. backups' = [backups EXCEPT !.read = {answer}] /\ kept' = kept /\ ~HasData(backups.list)
    BY <1>2 DEF ReadSessions, Pending, HasData, server
  <2>2. answer.rows = OnPage(kept, backups.page)
    OBVIOUS
  <2> HIDE DEF answer
  <2>3. /\ DOMAIN backups' = BackupsFields /\ backups'.list = backups.list
        /\ backups'.read = {answer} /\ backups'.page = backups.page
        /\ backups'.removals = backups.removals /\ backups'.unsure = backups.unsure
    BY <1>d, <2>1 DEF BackupsFields
  <2> QED BY <1>d, <2>1, <2>2, <2>3 DEF RowsAt
<1>3. CASE SessionsAnswered
  <2> PICK data \in backups.read :
        backups' = [backups EXCEPT !.list = Succeeded(@, data), !.read = {}]
    BY <1>3 DEF SessionsAnswered
  <2> DEFINE load == Succeeded(backups.list, data)
  <2>1. backups' = [backups EXCEPT !.list = load, !.read = {}] /\ kept' = kept
    BY <1>3 DEF SessionsAnswered, server
  <2>2. IsLoad(load) /\ load.data = data
    BY <1>d DEF IsLoad, Succeeded
  <2> HIDE DEF load
  <2>3. /\ DOMAIN backups' = BackupsFields /\ backups'.list = load /\ backups'.read = {}
        /\ backups'.page = backups.page
        /\ backups'.removals = backups.removals /\ backups'.unsure = backups.unsure
    BY <1>d, <2>1 DEF BackupsFields
  <2> QED BY <1>d, <2>1, <2>2, <2>3 DEF RowsAt
<1>4. CASE SessionsFail
  <2> DEFINE load == Failed(backups.list)
  <2>1. backups' = [backups EXCEPT !.list = load, !.read = {}] /\ kept' = kept
    BY <1>4 DEF SessionsFail, server
  <2>2. IsLoad(load) /\ ~HasData(load)
    BY <1>d DEF IsLoad, Failed, HasData
  <2> HIDE DEF load
  <2> QED BY <1>d, <2>1, <2>2 DEF RowsAt, BackupsFields
<1>5. ASSUME NEW page, TurnTo(page) PROVE RowsAt(backups', kept')
  BY <1>5, <1>d, LoadPageAt DEF TurnTo
<1>6. ASSUME NEW s, View(s) PROVE RowsAt(backups', kept')
  BY <1>6, <1>1, <1>d DEF View, SameRows, BackupsFields, server
<1>7. CASE CloseView
  BY <1>7, <1>d, LoadPageAt DEF CloseView
<1>8. ASSUME NEW s, AskRemove(s) PROVE RowsAt(backups', kept')
  BY <1>8, <1>1, <1>d DEF AskRemove, SameRows, BackupsFields, server
<1>9. CASE CancelRemove
  BY <1>9, <1>1, <1>d DEF CancelRemove, SameRows, BackupsFields, server
<1>10. CASE ConfirmRemove
  <2> DEFINE last == Cardinality(Rows(backups)) = 1
             new == [session |-> backups.asked, page |-> backups.page, last |-> last,
                     mounted |-> TRUE, done |-> FALSE]
             removals == backups.removals \cup {new}
  <2>1. backups' = [backups EXCEPT !.asked = Nothing, !.removals = removals] /\ kept' = kept
    BY <1>10 DEF ConfirmRemove, server
  <2>2. DOMAIN new = RemovalFields
    BY DEF RemovalFields
  <2> HIDE DEF new
  <2>3. \A r \in removals : DOMAIN r = RemovalFields
    BY <1>d, <2>2
  <2>4. (\A r \in removals : ~r.done) => \A r \in backups.removals : ~r.done
    OBVIOUS
  <2> HIDE DEF removals
  <2>5. /\ DOMAIN backups' = BackupsFields /\ backups'.list = backups.list
        /\ backups'.read = backups.read /\ backups'.page = backups.page
        /\ backups'.removals = removals /\ backups'.unsure = backups.unsure
    BY <1>d, <2>1 DEF BackupsFields
  <2> QED BY <1>d, <2>1, <2>3, <2>4, <2>5 DEF RowsAt
<1>11. ASSUME NEW r \in backups.removals, RemovalArrives(r) PROVE RowsAt(backups', kept')
  <2> DEFINE new == [r EXCEPT !.done = TRUE]
             removals == (backups.removals \ {r}) \cup {new}
  <2>1. backups' = [backups EXCEPT !.removals = removals]
    BY <1>11 DEF RemovalArrives
  <2>2. DOMAIN new = RemovalFields /\ new.done
    BY <1>d DEF RemovalFields
  <2> HIDE DEF new
  <2>3. DOMAIN backups' = BackupsFields /\ backups'.list = backups.list /\ backups'.removals = removals
    BY <1>d, <2>1 DEF BackupsFields
  <2>4. \A x \in removals : DOMAIN x = RemovalFields
    BY <1>d, <2>2
  <2>5. \E x \in removals : x.done
    BY <2>2
  <2> HIDE DEF removals
  <2> QED BY <1>d, <2>3, <2>4, <2>5 DEF RowsAt
<1>12. ASSUME NEW r \in backups.removals, RemovalSucceeds(r) PROVE RowsAt(backups', kept')
  <2> DEFINE w == [backups EXCEPT !.removals = @ \ {r}]
             back == r.last /\ r.page > 1
             page == IF back THEN r.page - 1 ELSE w.page
  <2>1. backups' = [w EXCEPT !.unsure = TRUE] \/ backups' = LoadPage(w, page)
    BY <1>12 DEF RemovalSucceeds
  <2>2. /\ DOMAIN w = BackupsFields /\ w.list = backups.list
        /\ w.removals \subseteq backups.removals
    BY <1>d DEF BackupsFields
  <2> HIDE DEF w, page
  <2>3. CASE backups' = [w EXCEPT !.unsure = TRUE]
    BY <1>d, <2>2, <2>3 DEF RowsAt, BackupsFields
  <2>4. CASE backups' = LoadPage(w, page)
    BY <1>d, <2>2, <2>4, LoadPageAt
  <2> QED BY <2>1, <2>3, <2>4
<1>13. ASSUME NEW r \in backups.removals, RemovalFails(r) PROVE RowsAt(backups', kept')
  <2> DEFINE removals == backups.removals \ {r}
             unsure == backups.unsure \/ r.done
  <2>1. backups' = [backups EXCEPT !.removals = removals, !.unsure = unsure] /\ kept' = kept
    BY <1>13 DEF RemovalFails, server
  <2>2. (\A x \in removals : ~x.done) /\ ~unsure
          => (\A x \in backups.removals : ~x.done) /\ ~backups.unsure
    OBVIOUS
  <2>3. \A x \in removals : DOMAIN x = RemovalFields
    BY <1>d
  <2> HIDE DEF removals, unsure
  <2>4. /\ DOMAIN backups' = BackupsFields /\ backups'.list = backups.list
        /\ backups'.read = backups.read /\ backups'.page = backups.page
        /\ backups'.removals = removals /\ backups'.unsure = unsure
    BY <1>d, <2>1 DEF BackupsFields
  <2> QED BY <1>d, <2>1, <2>2, <2>3, <2>4 DEF RowsAt
<1>14. ASSUME NEW s, RunFinishes(s) PROVE RowsAt(backups', kept')
  BY <1>14, <1>1 DEF RunFinishes, SameRows
<1>15. ASSUME NEW s, OthersRemove(s) PROVE RowsAt(backups', kept')
  <2> DEFINE unsure == backups.unsure \/ HasData(backups.list) \/ backups.read # {}
  <2>1. backups' = [backups EXCEPT !.unsure = unsure]
    BY <1>15 DEF OthersRemove
  <2>2. ~unsure => ~HasData(backups.list) /\ backups.read = {}
    OBVIOUS
  <2> HIDE DEF unsure
  <2>3. /\ DOMAIN backups' = BackupsFields /\ backups'.list = backups.list
        /\ backups'.read = backups.read /\ backups'.removals = backups.removals
        /\ backups'.unsure = unsure
    BY <1>d, <2>1 DEF BackupsFields
  <2> QED BY <1>d, <2>2, <2>3 DEF RowsAt
<1> QED BY <1>2, <1>3, <1>4, <1>5, <1>6, <1>7, <1>8, <1>9, <1>10, <1>11, <1>12, <1>13, <1>14,
           <1>15
  DEF BackupsActs
-----------------------------------------------------------------------------
(***************************************************************************)
(* A tab of the SQL console.  The answer that is listened to saw every     *)
(* edit that was confirmed; and what is edited, staged or sent is of the   *)
(* result on the screen, whose request is answered.                        *)
(***************************************************************************)

ConsoleFields == {"mounted", "status", "result", "statement", "requests", "sent", "current",
                  "editing", "staged", "change", "edits", "acknowledged"}
RequestFields == {"id", "query", "state", "answer"}
StagedFields == {"kind", "row", "cell", "state"}

RequestsAt(c) ==
  /\ DOMAIN c = ConsoleFields
  /\ c.mounted \in BOOLEAN /\ c.sent \in Nat
  /\ \A r \in c.requests : DOMAIN r = RequestFields /\ r.id \in Nat /\ r.id < c.sent
  /\ \A q, r \in c.requests : q.id = r.id => q = r
  /\ c.status = "done" => \A r \in c.requests : r.id # c.current

SawEdits(c, answer) == answer.seen \in Nat /\ c.acknowledged <= answer.seen

SeenAt(c) ==
  /\ c.edits \in Nat /\ c.acknowledged \in Nat /\ c.acknowledged <= c.edits
  /\ c.staged # Nothing => DOMAIN c.staged = StagedFields /\ c.staged.state = "sent"
  /\ \A ch \in c.change : /\ DOMAIN ch = StagedFields
                          /\ (ch.state = "carried out" => c.acknowledged + 1 <= c.edits)
  /\ \A r \in c.requests : r.id = c.current /\ r.state = "carried out" => SawEdits(c, r.answer)
  /\ c.status = "done" => SawEdits(c, c.result)

HasCells(rows) == \A k \in DOMAIN rows : rows[k] \in Cells
CellOf(ch) == ch.kind = "update" => ch.cell \in Cells

EditingAt(c) ==
  /\ \A r \in c.requests : r.state = "carried out" => HasCells(r.answer.rows)
  /\ c.status = "done" => HasCells(c.result.rows)
  /\ c.mounted /\ c.editing # Nothing => Editable(c) /\ c.editing \in DOMAIN c.result.rows
  /\ c.staged # Nothing => DOMAIN c.staged = StagedFields /\ CellOf(c.staged)
  /\ \A ch \in c.change : DOMAIN ch = StagedFields /\ CellOf(ch)
  /\ c.mounted /\ c.staged # Nothing =>
       /\ Editable(c) /\ c.staged.row \in DOMAIN c.result.rows
       /\ c.staged.cell # c.result.rows[c.staged.row]

ConsoleAt(c, t) == RequestsAt(c) /\ SeenAt(c) /\ EditingAt(c) /\ HasCells(t)

LEMMA FreshConsoleAt ==
  ASSUME NEW t, HasCells(t)
  PROVE  ConsoleAt(FreshConsole, t)
<1> DEFINE c == FreshConsole
<1>1. /\ DOMAIN c = ConsoleFields /\ c.mounted = TRUE /\ c.status = "idle" /\ c.requests = {}
      /\ c.sent = 0 /\ c.editing = Nothing /\ c.staged = Nothing /\ c.change = {}
      /\ c.edits = 0 /\ c.acknowledged = 0
  BY DEF FreshConsole, ConsoleFields
<1> HIDE DEF c
<1>2. RequestsAt(c)
  <2>1. c.mounted \in BOOLEAN
    BY <1>1, Zenon
  <2>2. c.sent \in Nat
    BY <1>1
  <2>3. c.status # "done"
    BY <1>1
  <2>4. \A r : r \notin c.requests
    BY <1>1
  <2> QED BY <1>1, <2>1, <2>2, <2>3, <2>4, Zenon DEF RequestsAt
<1>3. SeenAt(c)
  BY <1>1 DEF SeenAt
<1>4. EditingAt(c)
  BY <1>1 DEF EditingAt
<1> QED BY <1>2, <1>3, <1>4 DEF ConsoleAt, c

LEMMA NewTableHasCells ==
  /\ \A t \in [TableRows -> Cells] : HasCells(t)
  /\ HasCells(NoTable)
<1>1. \E c \in Cells : TRUE
  BY ConsoleAssumption
<1>2. (CHOOSE c \in Cells : TRUE) \in Cells
  BY <1>1
<1> QED BY <1>2 DEF HasCells, NoTable

LEMMA ExecutedFields ==
  ASSUME NEW c, DOMAIN c = ConsoleFields, NEW s
  PROVE  LET e == Executed(c, s) IN
         /\ DOMAIN e = ConsoleFields /\ e.mounted = c.mounted /\ e.status = "running"
         /\ e.requests = c.requests \cup {Request(c.sent, s)}
         /\ e.current = c.sent /\ e.sent = c.sent + 1 /\ e.editing = Nothing
         /\ e.staged = c.staged /\ e.change = c.change
         /\ e.edits = c.edits /\ e.acknowledged = c.acknowledged
<1> DEFINE requests == c.requests \cup {Request(c.sent, s)}
           sentNow == c.sent + 1
           e == Executed(c, s)
<1>1. e = [c EXCEPT !.status = "running", !.result = Nothing, !.statement = s,
                    !.requests = requests, !.current = c.sent, !.sent = sentNow, !.editing = Nothing]
  BY DEF Executed
<1> HIDE DEF requests, sentNow, e
<1>2. /\ DOMAIN e = ConsoleFields /\ e.mounted = c.mounted /\ e.status = "running"
      /\ e.requests = requests
      /\ e.current = c.sent /\ e.sent = sentNow /\ e.editing = Nothing
      /\ e.staged = c.staged /\ e.change = c.change
      /\ e.edits = c.edits /\ e.acknowledged = c.acknowledged
  BY <1>1 DEF ConsoleFields
<1> QED BY <1>2 DEF requests, sentNow, e

LEMMA RequestMade ==
  ASSUME NEW id, NEW s
  PROVE  LET r == Request(id, s) IN DOMAIN r = RequestFields /\ r.id = id /\ r.state = "sent"
BY DEF Request, RequestFields

LEMMA NextId ==
  ASSUME NEW n \in Nat
  PROVE  n + 1 \in Nat /\ n < n + 1 /\ \A i \in Nat : i < n => i # n /\ i < n + 1
OBVIOUS

LEMMA OneMore ==
  ASSUME NEW a \in Nat, NEW b \in Nat, a <= b
  PROVE  a + 1 \in Nat /\ b + 1 \in Nat /\ a <= b + 1 /\ a + 1 <= b + 1
OBVIOUS

\* A run starts: its request is the only one with the current id, and is not answered.
LEMMA ExecutedAt ==
  ASSUME NEW c, RequestsAt(c), NEW s,
         c.edits \in Nat, c.acknowledged \in Nat, c.acknowledged <= c.edits,
         \A ch \in c.change : /\ DOMAIN ch = StagedFields /\ CellOf(ch)
                             /\ (ch.state = "carried out" => c.acknowledged + 1 <= c.edits),
         \A r \in c.requests : r.state = "carried out" => HasCells(r.answer.rows),
         c.staged = Nothing
  PROVE  LET e == Executed(c, s) IN RequestsAt(e) /\ SeenAt(e) /\ EditingAt(e)
<1> DEFINE e == Executed(c, s)
           new == Request(c.sent, s)
<1>1. /\ DOMAIN e = ConsoleFields /\ e.mounted = c.mounted /\ e.status = "running"
      /\ e.requests = c.requests \cup {new}
      /\ e.current = c.sent /\ e.sent = c.sent + 1 /\ e.editing = Nothing
      /\ e.staged = c.staged /\ e.change = c.change
      /\ e.edits = c.edits /\ e.acknowledged = c.acknowledged
  BY ExecutedFields DEF RequestsAt
<1>2. DOMAIN new = RequestFields /\ new.id = c.sent /\ new.state = "sent"
  BY RequestMade
<1> HIDE DEF e, new
<1>3. /\ c.sent \in Nat /\ c.mounted \in BOOLEAN
      /\ \A r \in c.requests : DOMAIN r = RequestFields /\ r.id \in Nat /\ r.id < c.sent
      /\ \A q, r \in c.requests : q.id = r.id => q = r
  BY DEF RequestsAt
<1>5. c.sent + 1 \in Nat /\ c.sent < c.sent + 1
      /\ \A i \in Nat : i < c.sent => i # c.sent /\ i < c.sent + 1
  BY <1>3, NextId
<1>4. \A r \in c.requests : r.id # c.sent /\ r.id < c.sent + 1
  BY <1>3, <1>5
<1>6. \A r \in e.requests : DOMAIN r = RequestFields /\ r.id \in Nat /\ r.id < e.sent
  BY <1>1, <1>2, <1>3, <1>4, <1>5
<1>7. \A q, r \in e.requests : q.id = r.id => q = r
  BY <1>1, <1>2, <1>3, <1>4
<1>8. RequestsAt(e)
  BY <1>1, <1>3, <1>5, <1>6, <1>7 DEF RequestsAt
<1>9. \A r \in e.requests : r.state = "carried out" => r \in c.requests /\ r.id # e.current
  BY <1>1, <1>2, <1>4
<1>s. e.status # "done"
  BY <1>1
<1>10. SeenAt(e)
  BY <1>1, <1>9, <1>s, Zenon DEF SeenAt
<1>12. EditingAt(e)
  BY <1>1, <1>9, <1>s, Zenon DEF EditingAt
<1> QED BY <1>8, <1>10, <1>12 DEF e

\* Nothing changes but what is edited and staged.
SameRuns(v, w) ==
  /\ DOMAIN v = DOMAIN w
  /\ v.mounted = w.mounted /\ v.status = w.status /\ v.result = w.result
  /\ v.statement = w.statement /\ v.requests = w.requests /\ v.current = w.current
  /\ v.edits = w.edits /\ v.acknowledged = w.acknowledged

LEMMA SameRunsAt ==
  ASSUME NEW v, NEW w, NEW t, ConsoleAt(w, t), SameRuns(v, w),
         v.sent = w.sent \/ (v.sent \in Nat /\ w.sent <= v.sent),
         \/ v.editing = w.editing \/ v.editing = Nothing
         \/ Editable(w) /\ v.editing \in DOMAIN w.result.rows,
         \/ v.staged = w.staged \/ v.staged = Nothing
         \/ /\ DOMAIN v.staged = StagedFields /\ v.staged.state = "sent" /\ CellOf(v.staged)
            /\ w.mounted => /\ Editable(w) /\ v.staged.row \in DOMAIN w.result.rows
                            /\ v.staged.cell # w.result.rows[v.staged.row],
         \A ch \in v.change : ch \in w.change \/ (w.staged # Nothing /\ ch = w.staged)
  PROVE  ConsoleAt(v, t)
<1>1. Editable(v) <=> Editable(w)
  BY DEF Editable, SameRuns
<1>2. \A r \in w.requests : r.id \in Nat /\ r.id < v.sent
  <2>1. \A r \in w.requests : r.id \in Nat /\ r.id < w.sent
    BY DEF ConsoleAt, RequestsAt
  <2>2. w.sent \in Nat
    BY DEF ConsoleAt, RequestsAt
  <2>3. CASE v.sent = w.sent
    BY <2>1, <2>3
  <2>4. CASE v.sent \in Nat /\ w.sent <= v.sent
    <3>1. \A i \in Nat : i < w.sent => i < v.sent
      BY <2>2, <2>4
    <3> QED BY <2>1, <3>1
  <2> QED BY <2>3, <2>4
<1>n. v.sent \in Nat
  BY DEF ConsoleAt, RequestsAt
<1>3. RequestsAt(v)
  BY <1>2, <1>n, Zenon DEF ConsoleAt, RequestsAt, SameRuns
<1>4. \A a : SawEdits(v, a) <=> SawEdits(w, a)
  BY DEF SawEdits, SameRuns
<1>5. ASSUME NEW ch \in v.change
      PROVE  /\ DOMAIN ch = StagedFields /\ CellOf(ch)
             /\ ch.state = "carried out" => v.acknowledged + 1 <= v.edits
  BY <1>5 DEF ConsoleAt, SeenAt, EditingAt, SameRuns
<1>6. v.staged # Nothing =>
        /\ DOMAIN v.staged = StagedFields /\ v.staged.state = "sent" /\ CellOf(v.staged)
  BY DEF ConsoleAt, SeenAt, EditingAt
<1>7. SeenAt(v)
  <2>1. v.edits \in Nat /\ v.acknowledged \in Nat /\ v.acknowledged <= v.edits
    BY DEF ConsoleAt, SeenAt, SameRuns
  <2>2. \A r \in v.requests : r.id = v.current /\ r.state = "carried out" => SawEdits(v, r.answer)
    BY <1>4 DEF ConsoleAt, SeenAt, SameRuns
  <2>3. v.status = "done" => SawEdits(v, v.result)
    BY <1>4 DEF ConsoleAt, SeenAt, SameRuns
  <2> QED BY <1>5, <1>6, <2>1, <2>2, <2>3 DEF SeenAt
<1>8. EditingAt(v)
  <2>1. v.mounted /\ v.editing # Nothing => Editable(v) /\ v.editing \in DOMAIN v.result.rows
    BY <1>1 DEF ConsoleAt, EditingAt, SameRuns
  <2>2. v.mounted /\ v.staged # Nothing =>
          /\ Editable(v) /\ v.staged.row \in DOMAIN v.result.rows
          /\ v.staged.cell # v.result.rows[v.staged.row]
    BY <1>1 DEF ConsoleAt, EditingAt, SameRuns
  <2> QED BY <1>5, <1>6, <2>1, <2>2 DEF ConsoleAt, EditingAt, SameRuns
<1> QED BY <1>3, <1>7, <1>8 DEF ConsoleAt

\* A request goes: answered and not listened to, or failed.
LEMMA FewerRequests ==
  ASSUME NEW c, NEW t, ConsoleAt(c, t), NEW requests, requests \subseteq c.requests
  PROVE  ConsoleAt([c EXCEPT !.requests = requests], t)
<1> DEFINE v == [c EXCEPT !.requests = requests]
<1>1. /\ DOMAIN v = DOMAIN c /\ v.requests = requests /\ v.sent = c.sent
      /\ v.mounted = c.mounted /\ v.status = c.status /\ v.result = c.result
      /\ v.statement = c.statement /\ v.current = c.current /\ v.editing = c.editing
      /\ v.staged = c.staged /\ v.change = c.change
      /\ v.edits = c.edits /\ v.acknowledged = c.acknowledged
  BY DEF ConsoleAt, RequestsAt, ConsoleFields
<1> HIDE DEF v
<1>2. RequestsAt(v)
  BY <1>1, Zenon DEF ConsoleAt, RequestsAt
<1>3. SeenAt(v)
  <2>1. \A a : SawEdits(v, a) <=> SawEdits(c, a)
    BY <1>1 DEF SawEdits
  <2> QED BY <1>1, <2>1, Zenon DEF ConsoleAt, SeenAt
<1>4. Editable(v) <=> Editable(c)
  BY <1>1 DEF Editable
<1>5. EditingAt(v)
  BY <1>1, <1>4, Zenon DEF ConsoleAt, EditingAt
<1>6. ConsoleAt(v, t)
  BY <1>2, <1>3, <1>5 DEF ConsoleAt
<1> QED BY <1>6 DEF v

\* The answer that is awaited comes, or its failure: then nothing was shown before.
LEMMA CurrentAnswered ==
  ASSUME NEW c, NEW t, ConsoleAt(c, t), NEW r \in c.requests, r.id = c.current, c.mounted,
         NEW v, DOMAIN v = ConsoleFields, v.requests = c.requests \ {r}, v.sent = c.sent,
         v.mounted = c.mounted, v.current = c.current, v.editing = c.editing,
         v.staged = c.staged, v.change = c.change, v.edits = c.edits,
         v.acknowledged = c.acknowledged,
         \/ v.status = "failed"
         \/ v.status = "done" /\ v.result = r.answer /\ r.state = "carried out"
  PROVE  ConsoleAt(v, t)
<1>1. \A q \in v.requests : q \in c.requests /\ q # r
  OBVIOUS
<1>2. \A q \in v.requests : q.id # v.current
  BY <1>1 DEF ConsoleAt, RequestsAt
<1>3. RequestsAt(v)
  BY <1>1, <1>2, Zenon DEF ConsoleAt, RequestsAt
<1>4. \A a : SawEdits(v, a) <=> SawEdits(c, a)
  BY DEF SawEdits
<1>5. r.state = "carried out" => SawEdits(c, r.answer)
  BY Zenon DEF ConsoleAt, SeenAt
<1>6. v.status = "done" => SawEdits(v, v.result) /\ HasCells(v.result.rows)
  <2>1. "failed" # "done"
    OBVIOUS
  <2> QED BY <1>4, <1>5, <2>1, Zenon DEF ConsoleAt, EditingAt
<1>7. SeenAt(v)
  BY <1>1, <1>4, <1>6, Zenon DEF ConsoleAt, SeenAt
<1>8. ~Editable(c)
  BY DEF Editable, ConsoleAt, RequestsAt
<1>9. c.editing = Nothing /\ c.staged = Nothing
  BY <1>8, Zenon DEF ConsoleAt, EditingAt
<1>10. EditingAt(v)
  BY <1>1, <1>6, <1>9, Zenon DEF ConsoleAt, EditingAt
<1> QED BY <1>3, <1>7, <1>10 DEF ConsoleAt

LEMMA ConsoleKeeps ==
  ASSUME ConsoleAt(console, table), ConsoleActs
  PROVE  ConsoleAt(console', table')
<1>r. RequestsAt(console)
  BY DEF ConsoleAt
<1>d. /\ DOMAIN console = ConsoleFields /\ console.mounted \in BOOLEAN /\ console.sent \in Nat
      /\ \A r \in console.requests : DOMAIN r = RequestFields /\ r.id \in Nat /\ r.id < console.sent
      /\ \A q, r \in console.requests : q.id = r.id => q = r
      /\ console.status = "done" => \A r \in console.requests : r.id # console.current
  BY <1>r DEF RequestsAt
<1>e. /\ console.edits \in Nat /\ console.acknowledged \in Nat
      /\ console.acknowledged <= console.edits
      /\ console.staged # Nothing
           => DOMAIN console.staged = StagedFields /\ console.staged.state = "sent"
      /\ \A r \in console.requests : r.id = console.current /\ r.state = "carried out"
           => SawEdits(console, r.answer)
      /\ console.status = "done" => SawEdits(console, console.result)
  BY DEF ConsoleAt, SeenAt
<1>h. \A ch \in console.change :
        /\ DOMAIN ch = StagedFields /\ CellOf(ch)
        /\ (ch.state = "carried out" => console.acknowledged + 1 <= console.edits)
  BY DEF ConsoleAt, SeenAt, EditingAt
<1>f. /\ \A r \in console.requests : r.state = "carried out" => HasCells(r.answer.rows)
      /\ console.status = "done" => HasCells(console.result.rows)
      /\ console.mounted /\ console.editing # Nothing
           => Editable(console) /\ console.editing \in DOMAIN console.result.rows
      /\ console.staged # Nothing => DOMAIN console.staged = StagedFields /\ CellOf(console.staged)
      /\ console.mounted /\ console.staged # Nothing =>
           /\ Editable(console) /\ console.staged.row \in DOMAIN console.result.rows
           /\ console.staged.cell # console.result.rows[console.staged.row]
      /\ HasCells(table)
  BY DEF ConsoleAt, EditingAt
<1>s. console.sent + 1 \in Nat /\ console.sent <= console.sent + 1
  BY <1>d
<1>w. Writes \subseteq Cells /\ Nothing \notin Cells
  BY ConsoleAssumption
<1>1. ASSUME NEW s, RunSql(s) PROVE ConsoleAt(console', table')
  <2>1. console' = Executed(console, s) /\ table' = table /\ console.staged = Nothing
    BY <1>1 DEF RunSql, FreeTab
  <2> QED BY <1>r, <1>e, <1>h, <1>f, <2>1, ExecutedAt DEF ConsoleAt
<1>2. ASSUME NEW r \in console.requests, CarriedOut(r) PROVE ConsoleAt(console', table')
  <2> DEFINE answer == [rows |-> table', seen |-> console.edits]
             new == [r EXCEPT !.state = "carried out", !.answer = answer]
             requests == (console.requests \ {r}) \cup {new}
  <2>1. console' = [console EXCEPT !.requests = requests]
    BY <1>2 DEF CarriedOut, Moved
  <2>2. HasCells(table')
    <3>1. table' = table \/ (r.query \in Cells /\ table' = [k \in DOMAIN table |-> r.query])
      BY <1>2, <1>w DEF CarriedOut
    <3> QED BY <1>f, <3>1 DEF HasCells
  <2>3. answer.rows = table' /\ answer.seen = console.edits
    OBVIOUS
  <2> HIDE DEF answer
  <2>4. DOMAIN new = RequestFields /\ new.id = r.id /\ new.answer = answer
    BY <1>d DEF RequestFields
  <2>5. \A q \in requests : q \in console.requests \/ q = new
    OBVIOUS
  <2>6. \A p, q \in requests : p.id = q.id => p = q
    BY <1>d, <2>4
  <2> HIDE DEF new, requests
  <2>7. /\ DOMAIN console' = ConsoleFields /\ console'.requests = requests
        /\ console'.mounted = console.mounted /\ console'.sent = console.sent
        /\ console'.status = console.status /\ console'.current = console.current
        /\ console'.editing = console.editing /\ console'.staged = console.staged
        /\ console'.change = console.change /\ console'.edits = console.edits
        /\ console'.acknowledged = console.acknowledged /\ console'.result = console.result
        /\ console'.statement = console.statement
    BY <1>d, <2>1 DEF ConsoleFields
  <2>8. RequestsAt(console')
    <3>1. \A q \in requests : DOMAIN q = RequestFields /\ q.id \in Nat /\ q.id < console.sent
      BY <1>d, <2>4, <2>5, Zenon
    <3>2. console.status = "done" => \A q \in requests : q.id # console.current
      BY <1>d, <2>4, <2>5, Zenon
    <3> QED BY <1>d, <2>6, <2>7, <3>1, <3>2, Zenon DEF RequestsAt
  <2>9. \A a : SawEdits(console', a) <=> SawEdits(console, a)
    BY <2>7 DEF SawEdits
  <2>10. SawEdits(console, answer)
    BY <1>e, <2>3 DEF SawEdits
  <2>11. \A q \in requests : q.id = console.current /\ q.state = "carried out"
           => SawEdits(console, q.answer)
    BY <1>e, <2>4, <2>5, <2>10, Zenon
  <2>12. SeenAt(console')
    BY <1>e, <1>h, <2>7, <2>9, <2>11, Zenon DEF SeenAt
  <2>13. \A q \in requests : q.state = "carried out" => HasCells(q.answer.rows)
    BY <1>f, <2>2, <2>3, <2>4, <2>5, Zenon
  <2>14. Editable(console') <=> Editable(console)
    BY <2>7 DEF Editable
  <2>15. EditingAt(console')
    BY <1>f, <1>h, <2>7, <2>13, <2>14, Zenon DEF EditingAt
  <2> QED BY <2>2, <2>8, <2>12, <2>15 DEF ConsoleAt
<1>3. ASSUME NEW r \in console.requests, RunAnswered(r) \/ RunFails(r)
      PROVE  ConsoleAt(console', table')
  <2> DEFINE requests == console.requests \ {r}
  <2>1. table' = table
    BY <1>3 DEF RunAnswered, RunFails
  <2>2. CASE r.id = console.current /\ console.mounted
    <3>1. \/ /\ console' = [console EXCEPT !.requests = requests, !.status = "done", !.result = r.answer]
             /\ r.state = "carried out"
          \/ console' = [console EXCEPT !.requests = requests, !.status = "failed"]
      BY <1>3, <2>2 DEF RunAnswered, RunFails, Moved
    <3> HIDE DEF requests
    <3>2. /\ DOMAIN console' = ConsoleFields /\ console'.requests = requests
          /\ console'.mounted = console.mounted /\ console'.sent = console.sent
          /\ console'.current = console.current /\ console'.editing = console.editing
          /\ console'.staged = console.staged /\ console'.change = console.change
          /\ console'.edits = console.edits /\ console'.acknowledged = console.acknowledged
          /\ \/ console'.status = "failed"
             \/ console'.status = "done" /\ console'.result = r.answer /\ r.state = "carried out"
      BY <1>d, <3>1 DEF ConsoleFields
    <3> QED BY <2>1, <2>2, <3>2, CurrentAnswered DEF requests
  <2>3. CASE ~(r.id = console.current /\ console.mounted)
    <3>1. console' = [console EXCEPT !.requests = requests]
      BY <1>3, <2>3 DEF RunAnswered, RunFails, Moved
    <3> QED BY <2>1, <3>1, FewerRequests
  <2> QED BY <2>2, <2>3
<1>4. ASSUME NEW k, EditCell(k) PROVE ConsoleAt(console', table')
  <2>1. /\ console' = [console EXCEPT !.editing = k] /\ table' = table
        /\ Editable(console) /\ k \in DOMAIN console.result.rows
    BY <1>4 DEF EditCell
  <2>2. /\ SameRuns(console', console) /\ console'.sent = console.sent /\ console'.editing = k
        /\ console'.staged = console.staged /\ console'.change = console.change
    BY <1>d, <2>1 DEF SameRuns, ConsoleFields
  <2> QED BY <1>d, <2>1, <2>2, SameRunsAt
<1>5. ASSUME NEW k, StageDelete(k) PROVE ConsoleAt(console', table')
  <2> DEFINE change == StagedChange("delete", k, Nothing)
  <2>1. /\ console' = [console EXCEPT !.staged = change] /\ table' = table
        /\ Editable(console) /\ k \in DOMAIN console.result.rows
    BY <1>5 DEF StageDelete
  <2>2. /\ DOMAIN change = StagedFields /\ change.state = "sent" /\ CellOf(change)
        /\ change.row = k /\ change.cell = Nothing
    BY DEF StagedChange, StagedFields, CellOf
  <2> HIDE DEF change
  <2>3. /\ SameRuns(console', console) /\ console'.sent = console.sent
        /\ console'.editing = console.editing
        /\ console'.staged = change /\ console'.change = console.change
    BY <1>d, <2>1 DEF SameRuns, ConsoleFields
  <2>4. console.result.rows[k] \in Cells
    BY <1>f, <2>1 DEF Editable, HasCells
  <2>5. change.cell # console.result.rows[change.row]
    BY <2>2, <2>4, <1>w
  <2> QED BY <1>d, <2>1, <2>2, <2>3, <2>5, SameRunsAt
<1>6. CASE CancelEdit
  <2>1. console' = [console EXCEPT !.editing = Nothing] /\ table' = table
    BY <1>6 DEF CancelEdit
  <2>2. /\ SameRuns(console', console) /\ console'.sent = console.sent
        /\ console'.editing = Nothing
        /\ console'.staged = console.staged /\ console'.change = console.change
    BY <1>d, <2>1 DEF SameRuns, ConsoleFields
  <2> QED BY <1>d, <2>1, <2>2, SameRunsAt
<1>7. ASSUME NEW cell \in Cells, CommitEdit(cell) PROVE ConsoleAt(console', table')
  <2> DEFINE row == console.editing
             change == StagedChange("update", row, cell)
             staged == IF console.result.rows[row] = cell THEN Nothing ELSE change
  <2>1. /\ console' = [console EXCEPT !.editing = Nothing, !.staged = staged] /\ table' = table
        /\ console.mounted /\ row # Nothing
    BY <1>7 DEF CommitEdit, FreeTab
  <2>2. Editable(console) /\ row \in DOMAIN console.result.rows
    BY <1>f, <2>1
  <2>3. /\ DOMAIN change = StagedFields /\ change.state = "sent" /\ CellOf(change)
        /\ change.row = row /\ change.cell = cell
    BY DEF StagedChange, StagedFields, CellOf
  <2> HIDE DEF change, row
  <2>4. \/ staged = Nothing
        \/ staged = change /\ change.cell # console.result.rows[change.row]
    BY <2>3
  <2> HIDE DEF staged
  <2>5. /\ SameRuns(console', console) /\ console'.sent = console.sent
        /\ console'.editing = Nothing
        /\ console'.staged = staged /\ console'.change = console.change
    BY <1>d, <2>1 DEF SameRuns, ConsoleFields
  <2> QED BY <1>d, <2>1, <2>2, <2>3, <2>4, <2>5, SameRunsAt
<1>8. CASE CancelChange
  <2>1. console' = [console EXCEPT !.staged = Nothing] /\ table' = table
    BY <1>8 DEF CancelChange
  <2>2. /\ SameRuns(console', console) /\ console'.sent = console.sent
        /\ console'.editing = console.editing
        /\ console'.staged = Nothing /\ console'.change = console.change
    BY <1>d, <2>1 DEF SameRuns, ConsoleFields
  <2> QED BY <1>d, <2>1, <2>2, SameRunsAt
<1>9. CASE ApplyChange
  <2> DEFINE sentNow == console.sent + 1
             change == {console.staged}
  <2>1. console' = [console EXCEPT !.change = change, !.sent = sentNow] /\ table' = table
        /\ console.staged # Nothing
    BY <1>9 DEF ApplyChange
  <2>2. sentNow \in Nat /\ console.sent <= sentNow /\ \A ch \in change : ch = console.staged
    BY <1>s
  <2> HIDE DEF sentNow, change
  <2>3. /\ SameRuns(console', console) /\ console'.sent = sentNow
        /\ console'.editing = console.editing
        /\ console'.staged = console.staged /\ console'.change = change
    BY <1>d, <2>1 DEF SameRuns, ConsoleFields
  <2> QED BY <2>1, <2>2, <2>3, SameRunsAt
<1>10. ASSUME NEW ch \in console.change, ChangeArrives(ch) PROVE ConsoleAt(console', table')
  <2> DEFINE new == [ch EXCEPT !.state = "carried out"]
             edits == console.edits + 1
             change == {new}
  <2>1. console' = [console EXCEPT !.change = change, !.edits = edits]
    BY <1>10 DEF ChangeArrives
  <2>2. HasCells(table')
    <3>1. \/ table' = table
          \/ ch.kind = "update" /\ table' = [table EXCEPT ![ch.row] = ch.cell]
          \/ table' = [k \in DOMAIN table \ {ch.row} |-> table[k]]
      BY <1>10 DEF ChangeArrives
    <3>2. ch.kind = "update" => ch.cell \in Cells
      BY <1>h DEF CellOf
    <3> QED BY <1>f, <3>1, <3>2 DEF HasCells
  <2>3. DOMAIN new = StagedFields /\ CellOf(new)
    BY <1>h DEF StagedFields, CellOf
  <2>4. edits \in Nat /\ console.acknowledged <= edits /\ console.acknowledged + 1 <= edits
    BY <1>e, OneMore
  <2>5. \A x \in change : DOMAIN x = StagedFields /\ CellOf(x)
    BY <2>3
  <2> HIDE DEF new, edits, change
  <2>6. /\ DOMAIN console' = ConsoleFields /\ console'.requests = console.requests
        /\ console'.mounted = console.mounted /\ console'.sent = console.sent
        /\ console'.status = console.status /\ console'.current = console.current
        /\ console'.editing = console.editing /\ console'.staged = console.staged
        /\ console'.change = change /\ console'.edits = edits
        /\ console'.acknowledged = console.acknowledged /\ console'.result = console.result
        /\ console'.statement = console.statement
    BY <1>d, <2>1 DEF ConsoleFields
  <2>7. RequestsAt(console')
    BY <1>d, <2>6, Zenon DEF RequestsAt
  <2>8. \A a : SawEdits(console', a) <=> SawEdits(console, a)
    BY <2>6 DEF SawEdits
  <2>9. SeenAt(console')
    BY <1>e, <2>4, <2>5, <2>6, <2>8, Zenon DEF SeenAt
  <2>10. Editable(console') <=> Editable(console)
    BY <2>6 DEF Editable
  <2>11. EditingAt(console')
    BY <1>f, <2>5, <2>6, <2>10, Zenon DEF EditingAt
  <2> QED BY <2>2, <2>7, <2>9, <2>11 DEF ConsoleAt
<1>11. ASSUME NEW ch \in console.change, ChangeSucceeds(ch) PROVE ConsoleAt(console', table')
  <2> DEFINE acknowledged == console.acknowledged + 1
             w == [console EXCEPT !.change = {}, !.staged = Nothing, !.acknowledged = acknowledged]
  <2>1. console' = Executed(w, console.statement) /\ table' = table
    BY <1>11 DEF ChangeSucceeds
  <2>2. acknowledged \in Nat /\ acknowledged <= console.edits
    <3>1. ch.state = "carried out"
      BY <1>11 DEF ChangeSucceeds
    <3> QED BY <3>1, <1>e, <1>h, OneMore
  <2> HIDE DEF acknowledged
  <2>3. /\ DOMAIN w = ConsoleFields /\ w.requests = console.requests
        /\ w.mounted = console.mounted /\ w.sent = console.sent
        /\ w.status = console.status /\ w.current = console.current
        /\ w.staged = Nothing /\ w.change = {} /\ w.edits = console.edits
        /\ w.acknowledged = acknowledged
    BY <1>d DEF ConsoleFields
  <2> HIDE DEF w
  <2>4. RequestsAt(w)
    BY <1>d, <2>3, Zenon DEF RequestsAt
  <2>5. \A x : x \notin w.change
    BY <2>3
  <2> QED BY <1>e, <1>f, <2>1, <2>2, <2>3, <2>4, <2>5, ExecutedAt DEF ConsoleAt
<1>12. ASSUME NEW ch, ChangeFails(ch) PROVE ConsoleAt(console', table')
  <2>1. console' = [console EXCEPT !.change = {}] /\ table' = table
    BY <1>12 DEF ChangeFails
  <2>2. /\ SameRuns(console', console) /\ console'.sent = console.sent
        /\ console'.editing = console.editing
        /\ console'.staged = console.staged /\ console'.change = {}
    BY <1>d, <2>1 DEF SameRuns, ConsoleFields
  <2> QED BY <1>d, <2>1, <2>2, SameRunsAt
<1>13. CASE CloseTab
  <2>1. /\ console' = [console EXCEPT !.mounted = FALSE, !.current = console.sent,
                         !.status = "idle", !.result = Nothing, !.editing = Nothing]
        /\ table' = table
    BY <1>13 DEF CloseTab
  <2>2. /\ DOMAIN console' = ConsoleFields /\ console'.requests = console.requests
        /\ console'.mounted = FALSE /\ console'.sent = console.sent
        /\ console'.status = "idle" /\ console'.current = console.sent
        /\ console'.editing = Nothing /\ console'.staged = console.staged
        /\ console'.change = console.change /\ console'.edits = console.edits
        /\ console'.acknowledged = console.acknowledged
    BY <1>d, <2>1 DEF ConsoleFields
  <2>3. \A r \in console.requests : r.id # console.sent
    BY <1>d, NextId
  <2>4. console'.status # "done" /\ console'.mounted \in BOOLEAN
    BY <2>2
  <2>5. RequestsAt(console')
    BY <1>d, <2>2, <2>4, Zenon DEF RequestsAt
  <2>6. SeenAt(console')
    BY <1>e, <1>h, <2>2, <2>3, <2>4, Zenon DEF SeenAt
  <2>7. EditingAt(console')
    BY <1>f, <1>h, <2>2, <2>4, Zenon DEF EditingAt
  <2> QED BY <1>f, <2>1, <2>5, <2>6, <2>7 DEF ConsoleAt
<1> QED BY <1>1, <1>2, <1>3, <1>4, <1>5, <1>6, <1>7, <1>8, <1>9, <1>10, <1>11, <1>12, <1>13
  DEF ConsoleActs
-----------------------------------------------------------------------------
(***************************************************************************)
(* The templates.  Unless a change was carried out that is not answered    *)
(* yet, the list, or what is on its way to it, is what the server has; and *)
(* an open editor that has what it awaited has its own template's text.    *)
(***************************************************************************)

TemplateFields == {"list", "read", "asked", "open", "edited", "fields", "loading", "late",
                   "failed", "changes", "unsure"}
ChangeFields == {"op", "name", "text", "of", "loaded", "done"}

TextsAt(w, tx) ==
  /\ DOMAIN w = TemplateFields
  /\ IsLoad(w.list)
  /\ \A c \in w.changes : DOMAIN c = ChangeFields
  /\ (\A c \in w.changes : ~c.done) /\ ~w.unsure =>
       /\ HasData(w.list) => w.list.data.texts = tx
       /\ \A d \in w.read : d.texts = tx

OwnText(c) == c.op = "update" /\ c.loaded => c.of \in {c.name, "typed"}

EditorAt(w) ==
  /\ DOMAIN w = TemplateFields
  /\ DOMAIN w.fields = {"name", "text", "of"}
  /\ w.open \in BOOLEAN
  /\ w.loading \in IF w.open THEN {Nothing, w.edited} ELSE {Nothing}
  /\ w.open /\ w.edited # Nothing /\ w.loading = Nothing /\ ~w.failed
       => w.fields.of \in {w.edited, "typed"}
  /\ \A c \in w.changes : DOMAIN c = ChangeFields /\ OwnText(c)

SameTexts(v, w) ==
  /\ DOMAIN v = DOMAIN w
  /\ v.list = w.list /\ v.read = w.read /\ v.changes = w.changes /\ v.unsure = w.unsure

SameEditor(v, w) ==
  /\ DOMAIN v = DOMAIN w
  /\ v.open = w.open /\ v.edited = w.edited /\ v.fields = w.fields /\ v.loading = w.loading
  /\ v.failed = w.failed

LEMMA SameTextsAt ==
  ASSUME NEW v, NEW w, NEW tx, TextsAt(w, tx), SameTexts(v, w)
  PROVE  TextsAt(v, tx)
BY DEF TextsAt, SameTexts

LEMMA SameEditorAt ==
  ASSUME NEW v, NEW w, EditorAt(w), SameEditor(v, w),
         \A c \in v.changes : DOMAIN c = ChangeFields /\ OwnText(c)
  PROVE  EditorAt(v)
BY DEF EditorAt, SameEditor

LEMMA FreshTextsAt == ASSUME NEW tx PROVE TextsAt(FreshTemplates, tx) /\ EditorAt(FreshTemplates)
<1>1. IsLoad(Mounted("templates")) /\ ~HasData(Mounted("templates"))
  BY DEF IsLoad, Mounted, HasData
<1>2. /\ DOMAIN FreshTemplates = TemplateFields /\ FreshTemplates.list = Mounted("templates")
      /\ FreshTemplates.read = {} /\ FreshTemplates.changes = {} /\ FreshTemplates.open = FALSE
      /\ FreshTemplates.loading = Nothing /\ FreshTemplates.fields = Blanked
  BY DEF FreshTemplates, TemplateFields
<1>3. DOMAIN Blanked = {"name", "text", "of"}
  BY DEF Blanked
<1> QED BY <1>1, <1>2, <1>3 DEF TextsAt, EditorAt

\* A load has nothing to show, and leaves the editor alone.
LEMMA LoadTemplatesFields ==
  ASSUME NEW w, DOMAIN w = TemplateFields
  PROVE  LET v == LoadTemplates(w) IN
         /\ DOMAIN v = TemplateFields /\ SameEditor(v, w) /\ v.changes = w.changes
         /\ v.list = Mounted("templates") /\ v.read = {}
<1> DEFINE load == Mounted("templates")
           unsure == w.unsure /\ w.changes # {}
<1>1. LoadTemplates(w) = [w EXCEPT !.list = load, !.read = {}, !.asked = Nothing, !.unsure = unsure]
  BY DEF LoadTemplates
<1> HIDE DEF load, unsure
<1>2. LoadTemplates(w).list = load
  BY <1>1 DEF TemplateFields
<1> QED BY <1>1, <1>2 DEF SameEditor, TemplateFields, load

LEMMA ShutFields ==
  ASSUME NEW w, DOMAIN w = TemplateFields
  PROVE  LET v == Shut(w) IN
         /\ SameTexts(v, w) /\ DOMAIN v = TemplateFields /\ v.open = FALSE /\ v.loading = Nothing
         /\ v.fields = w.fields
<1> DEFINE late == IF w.loading # Nothing THEN w.loading ELSE w.late
<1>1. Shut(w) = [w EXCEPT !.open = FALSE, !.loading = Nothing, !.late = late]
  BY DEF Shut
<1> HIDE DEF late
<1> QED BY <1>1 DEF SameTexts, TemplateFields

LEMMA ShutAt ==
  ASSUME NEW w, EditorAt(w)
  PROVE  EditorAt(Shut(w))
<1>1. /\ DOMAIN Shut(w) = TemplateFields /\ Shut(w).open = FALSE /\ Shut(w).loading = Nothing
      /\ Shut(w).fields = w.fields /\ Shut(w).changes = w.changes
  BY ShutFields DEF EditorAt, SameTexts
<1> QED BY <1>1 DEF EditorAt

LEMMA SendingAt ==
  ASSUME NEW w, DOMAIN w = TemplateFields, NEW op, NEW name, NEW fields
  PROVE  \E c : /\ Sending(w, op, name, fields) = [w EXCEPT !.changes = @ \cup {c}]
                /\ DOMAIN c = ChangeFields /\ ~c.done
                /\ c.op = op /\ c.name = name /\ c.of = fields.of
                /\ c.loaded = (op = "update" /\ w.loading = Nothing /\ ~w.failed)
<1> DEFINE loaded == op = "update" /\ w.loading = Nothing /\ ~w.failed
           c == [op |-> op, name |-> name, text |-> fields.text, of |-> fields.of,
                 loaded |-> loaded, done |-> FALSE]
<1>1. Sending(w, op, name, fields) = [w EXCEPT !.changes = @ \cup {c}]
  BY DEF Sending
<1>2. /\ DOMAIN c = ChangeFields /\ ~c.done /\ c.op = op /\ c.name = name /\ c.of = fields.of
      /\ c.loaded = loaded
  BY DEF ChangeFields
<1> HIDE DEF c
<1> QED BY <1>1, <1>2

LEMMA TextsKeeps ==
  ASSUME TextsAt(templates, texts), TemplatesActs
  PROVE  TextsAt(templates', texts')
<1>d. /\ DOMAIN templates = TemplateFields /\ IsLoad(templates.list)
      /\ \A c \in templates.changes : DOMAIN c = ChangeFields
      /\ (\A c \in templates.changes : ~c.done) /\ ~templates.unsure =>
           /\ HasData(templates.list) => templates.list.data.texts = texts
           /\ \A r \in templates.read : r.texts = texts
  BY DEF TextsAt
<1>1. ASSUME SameTexts(templates', templates), UNCHANGED texts
      PROVE  TextsAt(templates', texts')
  BY <1>1, SameTextsAt
<1>2. CASE ReadTemplates
  <2>1. /\ templates' = [templates EXCEPT !.read = {[of |-> "templates", texts |-> texts]}]
        /\ texts' = texts /\ ~HasData(templates.list)
    BY <1>2 DEF ReadTemplates, Pending, HasData
  <2> QED BY <1>d, <2>1 DEF TextsAt, TemplateFields
<1>3. CASE TemplatesAnswered
  <2> PICK data \in templates.read :
        templates' = [templates EXCEPT !.list = Succeeded(@, data), !.read = {}]
    BY <1>3 DEF TemplatesAnswered
  <2> DEFINE load == Succeeded(templates.list, data)
  <2>1. templates' = [templates EXCEPT !.list = load, !.read = {}] /\ texts' = texts
    BY <1>3 DEF TemplatesAnswered
  <2>2. IsLoad(load) /\ load.data = data
    BY <1>d DEF IsLoad, Succeeded
  <2> HIDE DEF load
  <2>3. /\ DOMAIN templates' = TemplateFields /\ templates'.list = load /\ templates'.read = {}
        /\ templates'.changes = templates.changes /\ templates'.unsure = templates.unsure
    BY <1>d, <2>1 DEF TemplateFields
  <2> QED BY <1>d, <2>1, <2>2, <2>3 DEF TextsAt
<1>4. CASE TemplatesFail
  <2> DEFINE load == Failed(templates.list)
  <2>1. templates' = [templates EXCEPT !.list = load, !.read = {}] /\ texts' = texts
    BY <1>4 DEF TemplatesFail
  <2>2. IsLoad(load) /\ ~HasData(load)
    BY <1>d DEF IsLoad, Failed, HasData
  <2> HIDE DEF load
  <2> QED BY <1>d, <2>1, <2>2 DEF TextsAt, TemplateFields
<1>5. CASE NewTemplate
  BY <1>5, <1>1, <1>d DEF NewTemplate, SameTexts, TemplateFields
<1>6. ASSUME NEW n, EditTemplate(n) PROVE TextsAt(templates', texts')
  BY <1>6, <1>1, <1>d DEF EditTemplate, SameTexts, TemplateFields
<1>7. CASE TextLoaded
  BY <1>7, <1>1, <1>d DEF TextLoaded, SameTexts, TemplateFields
<1>8. CASE TextFails
  BY <1>8, <1>1, <1>d DEF TextFails, SameTexts, TemplateFields
<1>9. CASE TextLate
  BY <1>9, <1>1, <1>d DEF TextLate, SameTexts, TemplateFields
<1>10. ASSUME NEW n, TypeTemplateName(n) PROVE TextsAt(templates', texts')
  BY <1>10, <1>1, <1>d DEF TypeTemplateName, SameTexts, TemplateFields
<1>11. ASSUME NEW text, TypeText(text) PROVE TextsAt(templates', texts')
  BY <1>11, <1>1, <1>d DEF TypeText, SameTexts, TemplateFields
<1>12. CASE CloseEditor
  BY <1>12, <1>1, <1>d, ShutFields DEF CloseEditor
\* A change is sent.
<1>s. ASSUME NEW w, SameTexts(w, templates), NEW op, NEW name, NEW fields,
             templates' = Sending(w, op, name, fields), UNCHANGED texts
      PROVE  TextsAt(templates', texts')
  <2>0. TextsAt(w, texts) /\ DOMAIN w = TemplateFields
    BY <1>s, <1>d, SameTextsAt DEF SameTexts
  <2>1. PICK c : templates' = [w EXCEPT !.changes = @ \cup {c}] /\ DOMAIN c = ChangeFields /\ ~c.done
    BY <1>s, <2>0, SendingAt
  <2> DEFINE changes == w.changes \cup {c}
  <2>2. /\ DOMAIN templates' = TemplateFields /\ templates'.list = w.list
        /\ templates'.read = w.read /\ templates'.unsure = w.unsure
        /\ templates'.changes = changes
    BY <2>0, <2>1 DEF TemplateFields
  <2>3. (\A x \in changes : ~x.done) => \A x \in w.changes : ~x.done
    OBVIOUS
  <2>4. \A x \in changes : DOMAIN x = ChangeFields
    BY <2>0, <2>1 DEF TextsAt
  <2> HIDE DEF changes
  <2> QED BY <1>s, <2>0, <2>2, <2>3, <2>4 DEF TextsAt
<1>13. CASE SaveTemplate
  <2>1. SameTexts(templates, templates)
    BY DEF SameTexts
  <2> QED BY <1>13, <1>s, <2>1 DEF SaveTemplate
<1>14. ASSUME NEW n, AskTemplate(n) PROVE TextsAt(templates', texts')
  BY <1>14, <1>1, <1>d DEF AskTemplate, SameTexts, TemplateFields
<1>15. CASE CancelTemplate
  BY <1>15, <1>1, <1>d DEF CancelTemplate, SameTexts, TemplateFields
<1>16. CASE DeleteTemplate
  <2> DEFINE w == [templates EXCEPT !.asked = Nothing]
  <2>1. SameTexts(w, templates)
    BY <1>d DEF SameTexts, TemplateFields
  <2>2. templates' = Sending(w, "delete", templates.asked, Blanked) /\ UNCHANGED texts
    BY <1>16 DEF DeleteTemplate
  <2> HIDE DEF w
  <2> QED BY <1>s, <2>1, <2>2
<1>17. ASSUME NEW c \in templates.changes, ChangeDone(c) PROVE TextsAt(templates', texts')
  <2> DEFINE new == [c EXCEPT !.done = TRUE]
             changes == (templates.changes \ {c}) \cup {new}
  <2>1. templates' = [templates EXCEPT !.changes = changes]
    BY <1>17 DEF ChangeDone
  <2>2. DOMAIN new = ChangeFields /\ new.done
    BY <1>d DEF ChangeFields
  <2> HIDE DEF new
  <2>3. /\ DOMAIN templates' = TemplateFields /\ templates'.list = templates.list
        /\ templates'.changes = changes
    BY <1>d, <2>1 DEF TemplateFields
  <2>4. \A x \in changes : DOMAIN x = ChangeFields
    BY <1>d, <2>2
  <2>5. \E x \in changes : x.done
    BY <2>2
  <2> HIDE DEF changes
  <2> QED BY <1>d, <2>3, <2>4, <2>5 DEF TextsAt
<1>18. ASSUME NEW c \in templates.changes, ChangeAnswered(c) PROVE TextsAt(templates', texts')
  <2> DEFINE w == [templates EXCEPT !.changes = @ \ {c}]
             u == IF c.op = "delete" THEN w ELSE Shut(w)
  <2>1. DOMAIN w = TemplateFields /\ w.changes \subseteq templates.changes
    BY <1>d DEF TemplateFields
  <2>2. templates' = LoadTemplates(u)
    BY <1>18 DEF ChangeAnswered
  <2> HIDE DEF w
  <2>3. DOMAIN u = TemplateFields /\ u.changes = w.changes
    BY <2>1, ShutFields DEF SameTexts
  <2> HIDE DEF u
  <2>4. IsLoad(Mounted("templates")) /\ ~HasData(Mounted("templates"))
    BY DEF IsLoad, Mounted, HasData
  <2>5. /\ DOMAIN templates' = TemplateFields /\ templates'.changes = w.changes
        /\ templates'.list = Mounted("templates") /\ templates'.read = {}
    BY <2>2, <2>3, LoadTemplatesFields
  <2> QED BY <1>d, <2>1, <2>4, <2>5 DEF TextsAt
<1>19. ASSUME NEW c \in templates.changes, ChangeRefused(c) PROVE TextsAt(templates', texts')
  <2> DEFINE changes == templates.changes \ {c}
             unsure == templates.unsure \/ c.done
  <2>1. templates' = [templates EXCEPT !.changes = changes, !.unsure = unsure] /\ texts' = texts
    BY <1>19 DEF ChangeRefused
  <2>2. (\A x \in changes : ~x.done) /\ ~unsure
          => (\A x \in templates.changes : ~x.done) /\ ~templates.unsure
    OBVIOUS
  <2>3. \A x \in changes : DOMAIN x = ChangeFields
    BY <1>d
  <2> HIDE DEF changes, unsure
  <2>4. /\ DOMAIN templates' = TemplateFields /\ templates'.list = templates.list
        /\ templates'.read = templates.read
        /\ templates'.changes = changes /\ templates'.unsure = unsure
    BY <1>d, <2>1 DEF TemplateFields
  <2> QED BY <1>d, <2>1, <2>2, <2>3, <2>4 DEF TextsAt
<1>20. ASSUME NEW n, NEW text, OthersChange(n, text) PROVE TextsAt(templates', texts')
  <2> DEFINE unsure == templates.unsure \/ HasData(templates.list) \/ templates.read # {}
  <2>1. templates' = [templates EXCEPT !.unsure = unsure]
    BY <1>20 DEF OthersChange
  <2>2. ~unsure => ~HasData(templates.list) /\ templates.read = {}
    OBVIOUS
  <2> HIDE DEF unsure
  <2>3. /\ DOMAIN templates' = TemplateFields /\ templates'.list = templates.list
        /\ templates'.read = templates.read /\ templates'.changes = templates.changes
        /\ templates'.unsure = unsure
    BY <1>d, <2>1 DEF TemplateFields
  <2> QED BY <1>d, <2>2, <2>3 DEF TextsAt
<1> QED BY <1>2, <1>3, <1>4, <1>5, <1>6, <1>7, <1>8, <1>9, <1>10, <1>11, <1>12, <1>13, <1>14,
           <1>15, <1>16, <1>17, <1>18, <1>19, <1>20 DEF TemplatesActs

LEMMA EditorKeeps ==
  ASSUME EditorAt(templates), TemplatesActs
  PROVE  EditorAt(templates')
<1>d. /\ DOMAIN templates = TemplateFields /\ DOMAIN templates.fields = {"name", "text", "of"}
      /\ templates.open \in BOOLEAN
      /\ templates.loading \in IF templates.open THEN {Nothing, templates.edited} ELSE {Nothing}
      /\ (templates.open /\ templates.edited # Nothing /\ templates.loading = Nothing
            /\ ~templates.failed) => templates.fields.of \in {templates.edited, "typed"}
      /\ \A c \in templates.changes : DOMAIN c = ChangeFields /\ OwnText(c)
  BY DEF EditorAt
<1>1. ASSUME SameEditor(templates', templates), templates'.changes = templates.changes
      PROVE  EditorAt(templates')
  BY <1>1, <1>d, SameEditorAt
<1>2. CASE ReadTemplates
  BY <1>2, <1>1, <1>d DEF ReadTemplates, SameEditor, TemplateFields
<1>3. CASE TemplatesAnswered
  <2> PICK data \in templates.read :
        templates' = [templates EXCEPT !.list = Succeeded(@, data), !.read = {}]
    BY <1>3 DEF TemplatesAnswered
  <2> QED BY <1>1, <1>d DEF SameEditor, TemplateFields
<1>4. CASE TemplatesFail
  BY <1>4, <1>1, <1>d DEF TemplatesFail, SameEditor, TemplateFields
<1>5. CASE NewTemplate
  <2>1. DOMAIN Blanked = {"name", "text", "of"}
    BY DEF Blanked
  <2>2. /\ templates' = [templates EXCEPT !.open = TRUE, !.edited = Nothing, !.fields = Blanked]
        /\ ~templates.open
    BY <1>5 DEF NewTemplate, FreeScreen
  <2> QED BY <1>d, <2>1, <2>2 DEF EditorAt, TemplateFields
<1>6. ASSUME NEW n, EditTemplate(n) PROVE EditorAt(templates')
  <2>1. templates' = [templates EXCEPT !.open = TRUE, !.edited = n, !.loading = n, !.failed = FALSE]
    BY <1>6 DEF EditTemplate
  <2>2. /\ DOMAIN templates' = TemplateFields /\ templates'.fields = templates.fields
        /\ templates'.open = TRUE /\ templates'.edited = n /\ templates'.loading = n
        /\ templates'.changes = templates.changes
    BY <1>d, <2>1 DEF TemplateFields
  <2> QED BY <1>d, <2>2 DEF EditorAt
<1>7. CASE TextLoaded
  <2> DEFINE n == templates.loading
             fields == [name |-> n, text |-> texts[n], of |-> n]
  <2>1. templates' = [templates EXCEPT !.loading = Nothing, !.fields = fields] /\ n # Nothing
    BY <1>7 DEF TextLoaded
  <2>2. DOMAIN fields = {"name", "text", "of"} /\ fields.of = n
    OBVIOUS
  <2>3. templates.open /\ n = templates.edited
    BY <1>d, <2>1
  <2> HIDE DEF fields, n
  <2>4. /\ DOMAIN templates' = TemplateFields /\ templates'.fields = fields
        /\ templates'.open = templates.open /\ templates'.edited = templates.edited
        /\ templates'.loading = Nothing /\ templates'.changes = templates.changes
    BY <1>d, <2>1 DEF TemplateFields
  <2> QED BY <1>d, <2>2, <2>3, <2>4 DEF EditorAt
<1>8. CASE TextFails
  BY <1>8, <1>d DEF TextFails, EditorAt, TemplateFields
<1>9. CASE TextLate
  BY <1>9, <1>1, <1>d DEF TextLate, SameEditor, TemplateFields
<1>10. ASSUME NEW n, TypeTemplateName(n) PROVE EditorAt(templates')
  <2> DEFINE fields == [templates.fields EXCEPT !.name = n]
  <2>1. templates' = [templates EXCEPT !.fields = fields] /\ templates.edited = Nothing
    BY <1>10 DEF TypeTemplateName
  <2>2. DOMAIN fields = {"name", "text", "of"}
    BY <1>d
  <2> HIDE DEF fields
  <2> QED BY <1>d, <2>1, <2>2 DEF EditorAt, TemplateFields
<1>11. ASSUME NEW text, TypeText(text) PROVE EditorAt(templates')
  <2> DEFINE fields == [templates.fields EXCEPT !.text = text, !.of = "typed"]
  <2>1. templates' = [templates EXCEPT !.fields = fields]
    BY <1>11 DEF TypeText
  <2>2. DOMAIN fields = {"name", "text", "of"} /\ fields.of = "typed"
    BY <1>d
  <2> HIDE DEF fields
  <2> QED BY <1>d, <2>1, <2>2 DEF EditorAt, TemplateFields
<1>12. CASE CloseEditor
  BY <1>12, ShutAt DEF CloseEditor
\* A change is sent.
<1>s. ASSUME NEW w, SameEditor(w, templates), w.changes = templates.changes,
             NEW op, NEW name, NEW fields, templates' = Sending(w, op, name, fields),
             op = "update" /\ w.loading = Nothing /\ ~w.failed => fields.of \in {name, "typed"}
      PROVE  EditorAt(templates')
  <2>0. DOMAIN w = TemplateFields
    BY <1>s, <1>d DEF SameEditor
  <2>1. PICK c : /\ templates' = [w EXCEPT !.changes = @ \cup {c}] /\ DOMAIN c = ChangeFields
                 /\ c.op = op /\ c.name = name /\ c.of = fields.of
                 /\ c.loaded = (op = "update" /\ w.loading = Nothing /\ ~w.failed)
    BY <1>s, <2>0, SendingAt
  <2>2. OwnText(c)
    BY <1>s, <2>1 DEF OwnText
  <2> DEFINE changes == w.changes \cup {c}
  <2>3. SameEditor(templates', w) /\ templates'.changes = changes
    BY <2>0, <2>1 DEF SameEditor, TemplateFields
  <2>4. \A x \in changes : DOMAIN x = ChangeFields /\ OwnText(x)
    BY <1>s, <1>d, <2>1, <2>2
  <2>5. SameEditor(templates', templates)
    BY <1>s, <2>3 DEF SameEditor
  <2> HIDE DEF changes
  <2> QED BY <2>3, <2>4, <2>5, SameEditorAt
<1>13. CASE SaveTemplate
  <2>1. SameEditor(templates, templates) /\ templates.open
    BY <1>13 DEF SameEditor, SaveTemplate
  <2>2. \/ templates' = Sending(templates, "create", templates.fields.name, templates.fields)
        \/ /\ templates.edited # Nothing
           /\ templates' = Sending(templates, "update", templates.edited, templates.fields)
    BY <1>13 DEF SaveTemplate
  <2> QED BY <1>d, <1>s, <2>1, <2>2
<1>14. ASSUME NEW n, AskTemplate(n) PROVE EditorAt(templates')
  BY <1>14, <1>1, <1>d DEF AskTemplate, SameEditor, TemplateFields
<1>15. CASE CancelTemplate
  BY <1>15, <1>1, <1>d DEF CancelTemplate, SameEditor, TemplateFields
<1>16. CASE DeleteTemplate
  <2> DEFINE w == [templates EXCEPT !.asked = Nothing]
  <2>1. SameEditor(w, templates) /\ w.changes = templates.changes
    BY <1>d DEF SameEditor, TemplateFields
  <2>2. templates' = Sending(w, "delete", templates.asked, Blanked)
    BY <1>16 DEF DeleteTemplate
  <2> HIDE DEF w
  <2> QED BY <1>s, <2>1, <2>2
<1>17. ASSUME NEW c \in templates.changes, ChangeDone(c) PROVE EditorAt(templates')
  <2> DEFINE new == [c EXCEPT !.done = TRUE]
             changes == (templates.changes \ {c}) \cup {new}
  <2>1. templates' = [templates EXCEPT !.changes = changes]
    BY <1>17 DEF ChangeDone
  <2>2. /\ DOMAIN new = ChangeFields /\ new.op = c.op /\ new.loaded = c.loaded /\ new.of = c.of
        /\ new.name = c.name
    BY <1>d DEF ChangeFields
  <2> HIDE DEF new
  <2>3. OwnText(new)
    BY <1>d, <2>2 DEF OwnText
  <2>4. SameEditor(templates', templates) /\ templates'.changes = changes
    BY <1>d, <2>1 DEF SameEditor, TemplateFields
  <2>5. \A x \in changes : DOMAIN x = ChangeFields /\ OwnText(x)
    BY <1>d, <2>2, <2>3
  <2> HIDE DEF changes
  <2> QED BY <2>4, <2>5, SameEditorAt
<1>18. ASSUME NEW c \in templates.changes, ChangeAnswered(c) PROVE EditorAt(templates')
  <2> DEFINE w == [templates EXCEPT !.changes = @ \ {c}]
             u == IF c.op = "delete" THEN w ELSE Shut(w)
  <2>1. SameEditor(w, templates) /\ w.changes \subseteq templates.changes
    BY <1>d DEF SameEditor, TemplateFields
  <2>2. templates' = LoadTemplates(u)
    BY <1>18 DEF ChangeAnswered
  <2> HIDE DEF w
  <2>3. EditorAt(w)
    BY <1>d, <2>1, SameEditorAt
  <2>4. EditorAt(u)
    BY <2>3, ShutAt
  <2> HIDE DEF u
  <2>5. SameEditor(templates', u) /\ templates'.changes = u.changes
    BY <2>2, <2>4, LoadTemplatesFields DEF EditorAt
  <2> QED BY <2>4, <2>5, SameEditorAt DEF EditorAt
<1>19. ASSUME NEW c \in templates.changes, ChangeRefused(c) PROVE EditorAt(templates')
  <2>1. SameEditor(templates', templates) /\ templates'.changes = templates.changes \ {c}
    BY <1>19, <1>d DEF ChangeRefused, SameEditor, TemplateFields
  <2> QED BY <1>d, <2>1, SameEditorAt
<1>20. ASSUME NEW n, NEW text, OthersChange(n, text) PROVE EditorAt(templates')
  <2> DEFINE unsure == templates.unsure \/ HasData(templates.list) \/ templates.read # {}
  <2>1. templates' = [templates EXCEPT !.unsure = unsure]
    BY <1>20 DEF OthersChange
  <2> HIDE DEF unsure
  <2> QED BY <1>1, <1>d, <2>1 DEF SameEditor, TemplateFields
<1> QED BY <1>2, <1>3, <1>4, <1>5, <1>6, <1>7, <1>8, <1>9, <1>10, <1>11, <1>12, <1>13, <1>14,
           <1>15, <1>16, <1>17, <1>18, <1>19, <1>20 DEF TemplatesActs
-----------------------------------------------------------------------------
(***************************************************************************)
(* The profiles.  A place where no change waits for its answer, and that   *)
(* is not unsure of changes made elsewhere, has the profiles the server    *)
(* has, in what it shows and in what is read for it; so has the item its   *)
(* services.                                                               *)
(***************************************************************************)

NavFields == {"lists", "item", "asked", "edits", "unsure"}
EditFields == {"op", "name", "place", "mounted", "done"}

NavShape(w) ==
  /\ DOMAIN w = NavFields
  /\ DOMAIN w.lists = Places
  /\ \A p \in Places : DOMAIN w.lists[p] = {"load", "read"} /\ IsLoad(w.lists[p].load)
  /\ DOMAIN w.item = {"expanded", "load", "read"} /\ IsLoad(w.item.load)
  /\ \A e \in w.edits : DOMAIN e = EditFields /\ e.place \in Places
  /\ w.asked # Nothing => w.asked.place \in Places

ChangedAt(w, p) == \E e \in w.edits : e.done /\ e.op \in ProfileOps /\ e.place = p
ItemChanged(w) == \E e \in w.edits : e.done /\ (e.op \in ServiceOps \/ e.place = "sidebar")

ListShows(list, all) ==
  /\ HasData(list.load) => list.load.data.names = all.names /\ list.load.data.active = all.active
  /\ \A r \in list.read : r.names = all.names /\ r.active = all.active
ItemShows(item, ids) ==
  /\ item.expanded /\ HasData(item.load) => item.load.data.ids = ids
  /\ \A r \in item.read : item.expanded => r.ids = ids

PlacesAt(w, all) ==
  \A p \in Places : p \notin w.unsure /\ ~ChangedAt(w, p) => ListShows(w.lists[p], all)
ItemAt(w, ids) ==
  "item" \notin w.unsure /\ "sidebar" \notin w.unsure /\ ~ItemChanged(w) => ItemShows(w.item, ids)

NavAt(w, all, ids) == NavShape(w) /\ PlacesAt(w, all) /\ ItemAt(w, ids)

LEMMA FreshListShows ==
  ASSUME NEW all
  PROVE  /\ DOMAIN FreshList = {"load", "read"} /\ IsLoad(FreshList.load)
         /\ ListShows(FreshList, all)
BY DEF FreshList, Mounted, IsLoad, ListShows, HasData

LEMMA FreshItemShows ==
  ASSUME NEW ids, NEW expanded
  PROVE  LET i == [expanded |-> expanded, load |-> Mounted(expanded), read |-> {}] IN
         /\ DOMAIN i = {"expanded", "load", "read"} /\ IsLoad(i.load)
         /\ ItemShows(i, ids)
BY DEF Mounted, IsLoad, ItemShows, HasData

LEMMA FreshNavAt ==
  ASSUME NEW all, NEW ids
  PROVE  NavAt(FreshNav, all, ids)
<1> DEFINE w == FreshNav
<1>1. /\ DOMAIN w = NavFields /\ DOMAIN w.lists = Places /\ \A p \in Places : w.lists[p] = FreshList
      /\ w.item = FreshItem /\ w.edits = {} /\ w.asked = Nothing
  BY DEF FreshNav, NavFields
<1> HIDE DEF w
<1>2. /\ DOMAIN FreshItem = {"expanded", "load", "read"} /\ IsLoad(FreshItem.load)
      /\ ItemShows(FreshItem, ids)
  BY FreshItemShows DEF FreshItem
<1>3. NavShape(w)
  BY <1>1, <1>2, FreshListShows DEF NavShape
<1>4. PlacesAt(w, all) /\ ItemAt(w, ids)
  BY <1>1, <1>2, FreshListShows DEF PlacesAt, ItemAt
<1> QED BY <1>3, <1>4 DEF NavAt, w

\* Edits that differ from those of w in being mounted or not.
SameEdits(edits, w) ==
  /\ \A e \in edits : DOMAIN e = EditFields /\ e.place \in Places
  /\ \A e \in edits : \E d \in w.edits : d.op = e.op /\ d.place = e.place /\ d.done = e.done
  /\ \A d \in w.edits : \E e \in edits : d.op = e.op /\ d.place = e.place /\ d.done = e.done

LEMMA DetachedSame ==
  ASSUME NEW w, NavShape(w), NEW p
  PROVE  SameEdits(Detached(w, p), w)
<1> DEFINE left(e) == [e EXCEPT !.mounted = @ /\ (e.place # p \/ (p = "sidebar" /\ e.op = "create"))]
<1>1. ASSUME NEW e \in w.edits
      PROVE  DOMAIN left(e) = EditFields /\ left(e).op = e.op /\ left(e).place = e.place
             /\ left(e).done = e.done /\ e.place \in Places
  BY DEF NavShape, EditFields
<1>2. Detached(w, p) = {left(e) : e \in w.edits}
  BY DEF Detached
<1> HIDE DEF left
<1> QED BY <1>1, <1>2 DEF SameEdits

LEMMA SameEditsChange ==
  ASSUME NEW v, NEW w, SameEdits(v.edits, w)
  PROVE  (\A p : ChangedAt(v, p) <=> ChangedAt(w, p)) /\ (ItemChanged(v) <=> ItemChanged(w))
BY DEF SameEdits, ChangedAt, ItemChanged

LEMMA LoadListFields ==
  ASSUME NEW w, NavShape(w), NEW p \in Places
  PROVE  LET v == LoadList(w, p) IN
         /\ NavShape(v) /\ SameEdits(v.edits, w)
         /\ v.lists[p] = FreshList
         /\ \A q \in Places : q # p => v.lists[q] = w.lists[q]
         /\ v.item = IF p = "sidebar" THEN FreshItem ELSE w.item
         /\ \A x : x # p => (x \in v.unsure <=> x \in w.unsure)
<1> DEFINE lists == [w.lists EXCEPT ![p] = FreshList]
           item == IF p = "sidebar" THEN FreshItem ELSE w.item
           asked == IF w.asked # Nothing /\ w.asked.place = p THEN Nothing ELSE w.asked
           edits == Detached(w, p)
           unsure == Sure(w, p)
           v == LoadList(w, p)
<1>1. v = [w EXCEPT !.lists = lists, !.item = item, !.asked = asked, !.edits = edits,
                    !.unsure = unsure]
  BY DEF LoadList
<1>2. DOMAIN lists = Places /\ lists[p] = FreshList /\ \A q \in Places : q # p => lists[q] = w.lists[q]
  BY DEF NavShape
<1>3. SameEdits(edits, w)
  BY DetachedSame
<1>4. \A x : x # p => (x \in unsure <=> x \in w.unsure)
  BY DEF Sure
<1>5. DOMAIN item = {"expanded", "load", "read"} /\ IsLoad(item.load)
  BY FreshItemShows DEF FreshItem, NavShape
<1>6. /\ item = IF p = "sidebar" THEN FreshItem ELSE w.item
      /\ (asked = w.asked \/ asked = Nothing)
  OBVIOUS
<1> HIDE DEF lists, item, asked, edits, unsure, v
<1>7. /\ DOMAIN v = NavFields /\ v.lists = lists /\ v.item = item /\ v.edits = edits
      /\ v.unsure = unsure /\ v.asked = asked
  BY <1>1 DEF NavShape, NavFields
<1>8. \A q \in Places : DOMAIN lists[q] = {"load", "read"} /\ IsLoad(lists[q].load)
  BY <1>2, FreshListShows DEF NavShape
<1>9. NavShape(v)
  BY <1>2, <1>3, <1>5, <1>6, <1>7, <1>8, Zenon DEF NavShape, SameEdits
<1> QED BY <1>2, <1>3, <1>4, <1>6, <1>7, <1>9, Zenon DEF v

\* A load of one list needs only the other one to be right, and the item if it stays.
LEMMA LoadListKeeps ==
  ASSUME NEW w, NavShape(w), NEW all, NEW ids, NEW p \in Places,
         \A q \in Places \ {p} : q \notin w.unsure /\ ~ChangedAt(w, q) => ListShows(w.lists[q], all),
         p # "sidebar" => ItemAt(w, ids)
  PROVE  NavAt(LoadList(w, p), all, ids)
<1> DEFINE v == LoadList(w, p)
<1>1. /\ NavShape(v) /\ SameEdits(v.edits, w)
      /\ v.lists[p] = FreshList
      /\ \A q \in Places : q # p => v.lists[q] = w.lists[q]
      /\ v.item = IF p = "sidebar" THEN FreshItem ELSE w.item
      /\ \A x : x # p => (x \in v.unsure <=> x \in w.unsure)
  BY LoadListFields
<1> HIDE DEF v
<1>2. (\A q : ChangedAt(v, q) <=> ChangedAt(w, q)) /\ (ItemChanged(v) <=> ItemChanged(w))
  BY <1>1, SameEditsChange
<1>3. PlacesAt(v, all)
  BY <1>1, <1>2, FreshListShows DEF PlacesAt
<1>4. ItemAt(v, ids)
  <2>1. CASE p = "sidebar"
    BY <1>1, <2>1, FreshItemShows DEF ItemAt, FreshItem
  <2>2. CASE p # "sidebar"
    <3>1. p # "item"
      BY DEF Places
    <3> QED BY <1>1, <1>2, <2>2, <3>1, Zenon DEF ItemAt
  <2> QED BY <2>1, <2>2
<1> QED BY <1>1, <1>3, <1>4 DEF NavAt, v

LEMMA BothLoaded ==
  ASSUME NEW w, NavShape(w), NEW all, NEW ids
  PROVE  NavAt(LoadList(LoadList(w, "page"), "sidebar"), all, ids)
<1> DEFINE v == LoadList(w, "page")
<1>1. NavShape(v) /\ v.lists["page"] = FreshList
  BY LoadListFields DEF Places
<1> HIDE DEF v
<1>2. \A q \in Places \ {"sidebar"} : ListShows(v.lists[q], all)
  BY <1>1, FreshListShows DEF Places
<1>3. "sidebar" \in Places
  BY DEF Places
<1>4. NavAt(LoadList(v, "sidebar"), all, ids)
  BY <1>1, <1>2, <1>3, LoadListKeeps
<1> QED BY <1>4 DEF v

\* What the two lists and the item show, and what is asked, changes: not the edits.
LEMMA SameEditsAt ==
  ASSUME NEW w, NEW v, NavShape(w), NEW all, NEW ids, NavShape(v), SameEdits(v.edits, w),
         \A p \in Places : /\ p \in w.unsure => p \in v.unsure
                           /\ (ListShows(w.lists[p], all) => ListShows(v.lists[p], all)),
         PlacesAt(w, all),
         ItemShows(v.item, ids)
         \/ (ItemAt(w, ids) /\ v.item = w.item /\ ("item" \in w.unsure => "item" \in v.unsure))
  PROVE  NavAt(v, all, ids)
<1>1. (\A p : ChangedAt(v, p) <=> ChangedAt(w, p)) /\ (ItemChanged(v) <=> ItemChanged(w))
  BY SameEditsChange
<1>2. PlacesAt(v, all)
  BY <1>1 DEF PlacesAt
<1>3. ItemAt(v, ids)
  <2>1. "sidebar" \in Places
    BY DEF Places
  <2> QED BY <1>1, <2>1, Zenon DEF ItemAt
<1> QED BY <1>2, <1>3 DEF NavAt

LEMMA EditsThemselves ==
  ASSUME NEW w, NavShape(w)
  PROVE  SameEdits(w.edits, w)
BY DEF SameEdits, NavShape

\* One more edit, not carried out: nothing is changed by it yet.
LEMMA SentAt ==
  ASSUME NEW w, NEW all, NEW ids, NavAt(w, all, ids), NEW op, NEW name,
         NEW place \in Places
  PROVE  NavAt(Send(w, op, name, place), all, ids)
<1> DEFINE new == [op |-> op, name |-> name, place |-> place, mounted |-> TRUE, done |-> FALSE]
           edits == w.edits \cup {new}
           asked == IF op \in {"add", "edit"} THEN w.asked ELSE Nothing
           v == Send(w, op, name, place)
<1>1. v = [w EXCEPT !.asked = asked, !.edits = edits]
  BY DEF Send
<1>2. DOMAIN new = EditFields /\ new.done = FALSE /\ new.place = place
  BY DEF EditFields
<1> HIDE DEF new
<1>3. \A e \in edits : DOMAIN e = EditFields /\ e.place \in Places /\ (e.done => e \in w.edits)
  BY <1>2 DEF NavAt, NavShape
<1>x. w.edits \subseteq edits /\ (asked = w.asked \/ asked = Nothing)
  OBVIOUS
<1> HIDE DEF edits, asked, v
<1>4. /\ DOMAIN v = NavFields /\ v.lists = w.lists /\ v.item = w.item /\ v.edits = edits
      /\ v.unsure = w.unsure /\ v.asked = asked
  BY <1>1 DEF NavAt, NavShape, NavFields
<1>5. NavShape(v)
  BY <1>3, <1>x, <1>4, Zenon DEF NavAt, NavShape
<1>6. (\A p : ChangedAt(v, p) <=> ChangedAt(w, p)) /\ (ItemChanged(v) <=> ItemChanged(w))
  BY <1>3, <1>x, <1>4, Zenon DEF ChangedAt, ItemChanged
<1>7. PlacesAt(v, all) /\ ItemAt(v, ids)
  BY <1>4, <1>6, Zenon DEF NavAt, PlacesAt, ItemAt
<1> QED BY <1>5, <1>7 DEF NavAt, v

\* An edit goes: what it had changed is shown, or its place is unsure.
LEMMA WithoutEdit ==
  ASSUME NEW w, NavShape(w), NEW e, NEW unsure
  PROVE  LET v == [w EXCEPT !.edits = w.edits \ {e}, !.unsure = unsure] IN
         /\ NavShape(v) /\ v.lists = w.lists /\ v.item = w.item /\ v.unsure = unsure
         /\ \A p : ChangedAt(w, p) => ChangedAt(v, p) \/ (e.done /\ e.op \in ProfileOps /\ e.place = p)
         /\ ItemChanged(w)
              => ItemChanged(v) \/ (e.done /\ (e.op \in ServiceOps \/ e.place = "sidebar"))
<1> DEFINE edits == w.edits \ {e}
           v == [w EXCEPT !.edits = edits, !.unsure = unsure]
<1>1. \A d \in w.edits : d \in edits \/ d = e
  OBVIOUS
<1>x. edits \subseteq w.edits
  OBVIOUS
<1> HIDE DEF edits
<1>2. /\ DOMAIN v = NavFields /\ v.lists = w.lists /\ v.item = w.item /\ v.edits = edits
      /\ v.unsure = unsure /\ v.asked = w.asked
  BY DEF NavShape, NavFields
<1> HIDE DEF v
<1>3. NavShape(v)
  BY <1>x, <1>2, Zenon DEF NavShape
<1>4. /\ \A p : ChangedAt(w, p)
                  => ChangedAt(v, p) \/ (e.done /\ e.op \in ProfileOps /\ e.place = p)
      /\ ItemChanged(w)
           => ItemChanged(v) \/ (e.done /\ (e.op \in ServiceOps \/ e.place = "sidebar"))
  BY <1>1, <1>2, Zenon DEF ChangedAt, ItemChanged
<1> QED BY <1>2, <1>3, <1>4, Zenon DEF v, edits

LEMMA NavKeeps ==
  ASSUME NavAt(nav, profiles, services), NavActs
  PROVE  NavAt(nav', profiles', services')
<1> DEFINE Good == NavAt(nav', profiles', services')
<1>s. NavShape(nav) /\ PlacesAt(nav, profiles) /\ ItemAt(nav, services)
  BY DEF NavAt
<1>d. /\ DOMAIN nav = NavFields /\ DOMAIN nav.lists = Places
      /\ \A p \in Places : DOMAIN nav.lists[p] = {"load", "read"} /\ IsLoad(nav.lists[p].load)
      /\ DOMAIN nav.item = {"expanded", "load", "read"} /\ IsLoad(nav.item.load)
      /\ \A e \in nav.edits : DOMAIN e = EditFields /\ e.place \in Places
      /\ nav.asked # Nothing => nav.asked.place \in Places
  BY <1>s DEF NavShape
<1>e. SameEdits(nav.edits, nav)
  BY <1>s, EditsThemselves
\* One list is read, answered or failed.
<1>a. ASSUME NEW p \in Places, NEW list, nav' = [nav EXCEPT !.lists[p] = list],
             DOMAIN list = {"load", "read"}, IsLoad(list.load),
             ListShows(nav.lists[p], profiles) => ListShows(list, profiles),
             profiles' = profiles, services' = services
      PROVE  Good
  <2> DEFINE lists == [nav.lists EXCEPT ![p] = list]
  <2>1. nav' = [nav EXCEPT !.lists = lists]
    BY <1>a
  <2>2. DOMAIN lists = Places /\ lists[p] = list /\ \A q \in Places : q # p => lists[q] = nav.lists[q]
    BY <1>d
  <2> HIDE DEF lists
  <2>3. /\ DOMAIN nav' = NavFields /\ nav'.lists = lists /\ nav'.item = nav.item
        /\ nav'.edits = nav.edits /\ nav'.unsure = nav.unsure /\ nav'.asked = nav.asked
    BY <1>d, <2>1 DEF NavFields
  <2>4. \A q \in Places : /\ DOMAIN lists[q] = {"load", "read"} /\ IsLoad(lists[q].load)
                          /\ (ListShows(nav.lists[q], profiles) => ListShows(lists[q], profiles))
    <3>1. TAKE q \in Places
    <3>2. CASE q = p
      BY <1>a, <2>2, <3>2
    <3>3. CASE q # p
      BY <1>d, <2>2, <3>3, Zenon
    <3> QED BY <3>2, <3>3
  <2>5. NavShape(nav')
    BY <1>d, <2>2, <2>3, <2>4, Zenon DEF NavShape
  <2>6. NavAt(nav', profiles, services)
    BY <1>s, <1>e, <2>3, <2>4, <2>5, SameEditsAt
  <2> QED BY <1>a, <2>6
\* The item is mounted anew, toggled, read, answered or failed.
<1>b. ASSUME NEW item, NEW edits, NEW unsure,
             nav' = [nav EXCEPT !.item = item, !.edits = edits, !.unsure = unsure],
             DOMAIN item = {"expanded", "load", "read"}, IsLoad(item.load),
             SameEdits(edits, nav), \A p \in Places : p \in nav.unsure => p \in unsure,
             ItemShows(item, services)
             \/ (unsure = nav.unsure /\ item.expanded = nav.item.expanded
                 /\ (ItemShows(nav.item, services) => ItemShows(item, services))),
             profiles' = profiles, services' = services
      PROVE  Good
  <2>1. /\ DOMAIN nav' = NavFields /\ nav'.lists = nav.lists /\ nav'.item = item
        /\ nav'.edits = edits /\ nav'.unsure = unsure /\ nav'.asked = nav.asked
    BY <1>b, <1>d DEF NavFields
  <2>2. NavShape(nav')
    BY <1>b, <1>d, <2>1, Zenon DEF NavShape, SameEdits
  <2>3. (\A p : ChangedAt(nav', p) <=> ChangedAt(nav, p)) /\ (ItemChanged(nav') <=> ItemChanged(nav))
    <3>1. SameEdits(nav'.edits, nav)
      BY <1>b, <2>1
    <3> QED BY <3>1, SameEditsChange
  <2>4. PlacesAt(nav', profiles)
    BY <1>b, <1>s, <2>1, <2>3 DEF PlacesAt
  <2>5. ItemAt(nav', services)
    BY <1>b, <1>s, <2>1, <2>3, Zenon DEF ItemAt
  <2> QED BY <1>b, <2>2, <2>4, <2>5 DEF NavAt
<1>1. ASSUME NEW p \in Places, ReadProfiles(p) PROVE Good
  <2> DEFINE r == [of |-> "profiles", names |-> profiles.names, active |-> profiles.active]
             list == [nav.lists[p] EXCEPT !.read = {r}]
  <2>1. nav' = [nav EXCEPT !.lists[p] = list] /\ profiles' = profiles /\ services' = services
    BY <1>1 DEF ReadProfiles
  <2>2. r.names = profiles.names /\ r.active = profiles.active
    OBVIOUS
  <2> HIDE DEF r
  <2>3. DOMAIN list = {"load", "read"} /\ list.load = nav.lists[p].load /\ list.read = {r}
    BY <1>d
  <2> HIDE DEF list
  <2>4. ListShows(nav.lists[p], profiles) => ListShows(list, profiles)
    BY <2>2, <2>3 DEF ListShows
  <2>5. IsLoad(list.load)
    BY <1>d, <2>3
  <2> QED BY <1>a, <2>1, <2>3, <2>4, <2>5
<1>2. ASSUME NEW p \in Places, ProfilesAnswered(p) PROVE Good
  <2>1. PICK data \in nav.lists[p].read :
          nav' = [nav EXCEPT !.lists[p] = [load |-> Succeeded(@.load, data), read |-> {}]]
    BY <1>2 DEF ProfilesAnswered
  <2> DEFINE load == Succeeded(nav.lists[p].load, data)
             list == [load |-> load, read |-> {}]
  <2>2. nav' = [nav EXCEPT !.lists[p] = list] /\ profiles' = profiles /\ services' = services
    BY <1>2, <2>1 DEF ProfilesAnswered
  <2>3. IsLoad(load) /\ load.data = data
    BY <1>d DEF Succeeded, IsLoad
  <2> HIDE DEF load
  <2>4. DOMAIN list = {"load", "read"} /\ list.load = load /\ list.read = {}
    OBVIOUS
  <2> HIDE DEF list
  <2>5. ListShows(nav.lists[p], profiles) => ListShows(list, profiles)
    BY <2>3, <2>4 DEF ListShows
  <2> QED BY <1>a, <2>2, <2>3, <2>4, <2>5
<1>3. ASSUME NEW p \in Places, ProfilesFail(p) PROVE Good
  <2> DEFINE load == Failed(nav.lists[p].load)
             list == [load |-> load, read |-> {}]
  <2>2. nav' = [nav EXCEPT !.lists[p] = list] /\ profiles' = profiles /\ services' = services
    BY <1>3 DEF ProfilesFail
  <2>3. IsLoad(load) /\ ~HasData(load)
    BY <1>d DEF Failed, IsLoad, HasData
  <2> HIDE DEF load
  <2>4. DOMAIN list = {"load", "read"} /\ list.load = load /\ list.read = {}
    OBVIOUS
  <2> HIDE DEF list
  <2>5. ListShows(list, profiles)
    BY <2>3, <2>4 DEF ListShows
  <2> QED BY <1>a, <2>2, <2>3, <2>4, <2>5
<1>4. CASE Regroup
  <2> DEFINE edits == Detached(nav, "sidebar")
  <2>1. nav' = [nav EXCEPT !.item = FreshItem, !.edits = edits] /\ profiles' = profiles
        /\ services' = services
    BY <1>4 DEF Regroup
  <2>2. SameEdits(edits, nav)
    BY <1>s, DetachedSame
  <2> HIDE DEF edits
  <2>3. nav' = [nav EXCEPT !.item = FreshItem, !.edits = edits, !.unsure = nav.unsure]
    BY <1>d, <2>1 DEF NavFields
  <2>4. /\ DOMAIN FreshItem = {"expanded", "load", "read"} /\ IsLoad(FreshItem.load)
        /\ ItemShows(FreshItem, services)
    BY FreshItemShows DEF FreshItem
  <2> QED BY <1>b, <2>1, <2>2, <2>3, <2>4
<1>5. CASE ToggleItem
  <2> DEFINE expanded == ~nav.item.expanded
             item == [expanded |-> expanded, load |-> Mounted(expanded), read |-> {}]
             unsure == Sure(nav, "item")
  <2>1. nav' = [nav EXCEPT !.item = item, !.unsure = unsure] /\ profiles' = profiles
        /\ services' = services
    BY <1>5 DEF ToggleItem
  <2>2. /\ DOMAIN item = {"expanded", "load", "read"} /\ IsLoad(item.load)
        /\ ItemShows(item, services)
    BY FreshItemShows
  <2>3. \A p \in Places : p \in nav.unsure => p \in unsure
    BY DEF Sure, Places
  <2> HIDE DEF item, unsure
  <2>4. nav' = [nav EXCEPT !.item = item, !.edits = nav.edits, !.unsure = unsure]
    BY <1>d, <2>1 DEF NavFields
  <2> QED BY <1>b, <1>e, <2>1, <2>2, <2>3, <2>4
<1>6. CASE ReadServices
  <2> DEFINE r == [of |-> nav.item.expanded, ids |-> IF nav.item.expanded THEN services ELSE {}]
             item == [nav.item EXCEPT !.read = {r}]
  <2>1. nav' = [nav EXCEPT !.item = item] /\ profiles' = profiles /\ services' = services
    BY <1>6 DEF ReadServices
  <2>2. nav.item.expanded => r.ids = services
    OBVIOUS
  <2> HIDE DEF r
  <2>3. /\ DOMAIN item = {"expanded", "load", "read"} /\ item.load = nav.item.load
        /\ item.expanded = nav.item.expanded /\ item.read = {r}
    BY <1>d
  <2> HIDE DEF item
  <2>4. ItemShows(nav.item, services) => ItemShows(item, services)
    BY <2>2, <2>3 DEF ItemShows
  <2>5. nav' = [nav EXCEPT !.item = item, !.edits = nav.edits, !.unsure = nav.unsure]
    BY <1>d, <2>1 DEF NavFields
  <2>6. IsLoad(item.load)
    BY <1>d, <2>3
  <2> QED BY <1>b, <1>e, <2>1, <2>3, <2>4, <2>5, <2>6
<1>7. CASE ServicesAnswered
  <2>1. PICK data \in nav.item.read :
          nav' = [nav EXCEPT !.item.load = Succeeded(@, data), !.item.read = {}]
    BY <1>7 DEF ServicesAnswered
  <2> DEFINE load == Succeeded(nav.item.load, data)
             item == [nav.item EXCEPT !.load = load, !.read = {}]
  <2>2. nav' = [nav EXCEPT !.item = item] /\ profiles' = profiles /\ services' = services
    BY <1>d, <1>7, <2>1 DEF ServicesAnswered, NavFields
  <2>3. IsLoad(load) /\ load.data = data
    BY <1>d DEF Succeeded, IsLoad
  <2> HIDE DEF load
  <2>4. /\ DOMAIN item = {"expanded", "load", "read"} /\ item.load = load
        /\ item.expanded = nav.item.expanded /\ item.read = {}
    BY <1>d
  <2> HIDE DEF item
  <2>5. ItemShows(nav.item, services) => ItemShows(item, services)
    BY <2>3, <2>4 DEF ItemShows
  <2>6. nav' = [nav EXCEPT !.item = item, !.edits = nav.edits, !.unsure = nav.unsure]
    BY <1>d, <2>2 DEF NavFields
  <2> QED BY <1>b, <1>e, <2>2, <2>3, <2>4, <2>5, <2>6
<1>8. CASE ServicesFail
  <2> DEFINE load == Failed(nav.item.load)
             item == [nav.item EXCEPT !.load = load, !.read = {}]
  <2>2. nav' = [nav EXCEPT !.item = item] /\ profiles' = profiles /\ services' = services
    BY <1>d, <1>8 DEF ServicesFail, NavFields
  <2>3. IsLoad(load) /\ ~HasData(load)
    BY <1>d DEF Failed, IsLoad, HasData
  <2> HIDE DEF load
  <2>4. /\ DOMAIN item = {"expanded", "load", "read"} /\ item.load = load
        /\ item.expanded = nav.item.expanded /\ item.read = {}
    BY <1>d
  <2> HIDE DEF item
  <2>5. ItemShows(item, services)
    BY <2>3, <2>4 DEF ItemShows
  <2>6. nav' = [nav EXCEPT !.item = item, !.edits = nav.edits, !.unsure = nav.unsure]
    BY <1>d, <2>2 DEF NavFields
  <2> QED BY <1>b, <1>e, <2>2, <2>3, <2>4, <2>5, <2>6
\* What is asked.
<1>c. ASSUME NEW asked, asked # Nothing => asked.place \in Places,
             nav' = [nav EXCEPT !.asked = asked], profiles' = profiles,
             services' = services
      PROVE  Good
  <2>1. /\ DOMAIN nav' = NavFields /\ nav'.lists = nav.lists /\ nav'.item = nav.item
        /\ nav'.edits = nav.edits /\ nav'.unsure = nav.unsure /\ nav'.asked = asked
    BY <1>c, <1>d DEF NavFields
  <2>2. NavShape(nav')
    BY <1>c, <1>d, <2>1, Zenon DEF NavShape
  <2>3. NavAt(nav', profiles, services)
    BY <1>s, <1>e, <2>1, <2>2, SameEditsAt
  <2> QED BY <1>c, <2>3
<1>9. ASSUME NEW op, NEW n, NEW p \in Places, Ask(op, n, p) PROVE Good
  BY <1>9, <1>c DEF Ask
<1>10. CASE Dismiss
  BY <1>10, <1>c DEF Dismiss
<1>11. ASSUME NEW op, NEW n, NEW p \in Places, Act(op, n, p) PROVE Good
  BY <1>11, SentAt DEF Act
<1>12. CASE Agree
  BY <1>12, <1>d, SentAt DEF Agree
<1>13. CASE Announced
  BY <1>13, <1>s, BothLoaded DEF Announced
<1>14. ASSUME NEW names, NEW active, NEW ids, ChangedElsewhere(names, active, ids) PROVE Good
  <2> DEFINE unsure == nav.unsure \cup Outdated(nav)
  <2>1. nav' = [nav EXCEPT !.unsure = unsure]
    BY <1>14 DEF ChangedElsewhere
  <2>2. /\ \A p \in Places : p \notin unsure => ~HasData(nav.lists[p].load) /\ nav.lists[p].read = {}
        /\ "item" \notin unsure => ~HasData(nav.item.load) /\ nav.item.read = {}
    BY DEF Outdated, Shows
  <2> HIDE DEF unsure
  <2>3. /\ DOMAIN nav' = NavFields /\ nav'.lists = nav.lists /\ nav'.item = nav.item
        /\ nav'.edits = nav.edits /\ nav'.unsure = unsure /\ nav'.asked = nav.asked
    BY <1>d, <2>1 DEF NavFields
  <2>4. NavShape(nav')
    BY <1>d, <2>3, Zenon DEF NavShape
  <2>5. PlacesAt(nav', profiles')
    BY <2>2, <2>3 DEF PlacesAt, ListShows
  <2>6. ItemAt(nav', services')
    BY <2>2, <2>3 DEF ItemAt, ItemShows
  <2> QED BY <2>4, <2>5, <2>6 DEF NavAt
<1>15. ASSUME NEW e \in nav.edits, EditDone(e) PROVE Good
  <2> DEFINE new == [e EXCEPT !.done = TRUE]
             edits == (nav.edits \ {e}) \cup {new}
             unsure == IF e.op \in ProfileOps THEN nav.unsure \cup (Places \ {e.place}) ELSE nav.unsure
  <2>1. nav' = [nav EXCEPT !.edits = edits, !.unsure = unsure] /\ ~e.done
    BY <1>15 DEF EditDone
  <2>2. /\ DOMAIN new = EditFields /\ new.op = e.op /\ new.place = e.place /\ new.done
    BY <1>d DEF EditFields
  <2> HIDE DEF new
  <2>3. /\ new \in edits
        /\ \A d \in edits : DOMAIN d = EditFields /\ d.place \in Places
        /\ \A d \in nav.edits : d.done => d \in edits
    BY <1>d, <2>1, <2>2
  <2>4. /\ nav.unsure \subseteq unsure
        /\ e.op \in ProfileOps => \A p \in Places : p # e.place => p \in unsure
    OBVIOUS
  <2> HIDE DEF edits, unsure
  <2>5. /\ DOMAIN nav' = NavFields /\ nav'.lists = nav.lists /\ nav'.item = nav.item
        /\ nav'.edits = edits /\ nav'.unsure = unsure /\ nav'.asked = nav.asked
    BY <1>d, <2>1 DEF NavFields
  <2>6. NavShape(nav')
    BY <1>d, <2>3, <2>5, Zenon DEF NavShape
  <2>7. /\ \A p : ChangedAt(nav, p) => ChangedAt(nav', p)
        /\ (ItemChanged(nav) => ItemChanged(nav'))
    BY <2>3, <2>5, Zenon DEF ChangedAt, ItemChanged
  <2>8. CASE e.op \in ProfileOps
    <3>1. \A p \in Places : p \in unsure \/ ChangedAt(nav', p)
      BY <2>2, <2>3, <2>4, <2>5, <2>8 DEF ChangedAt
    <3>2. "sidebar" \in unsure \/ ItemChanged(nav')
      <4>1. "sidebar" \in Places
        BY DEF Places
      <4> QED BY <2>2, <2>3, <2>4, <2>5, <2>8, <4>1 DEF ItemChanged
    <3> QED BY <2>5, <2>6, <3>1, <3>2, Zenon DEF NavAt, PlacesAt, ItemAt
  <2>9. CASE e.op \notin ProfileOps
    <3>1. e.op \in ServiceOps /\ profiles' = profiles
      BY <1>15, <2>9 DEF EditDone, ProfileOps
    <3>2. ItemChanged(nav')
      BY <2>2, <2>3, <2>5, <3>1 DEF ItemChanged
    <3>3. PlacesAt(nav', profiles)
      BY <1>s, <2>4, <2>5, <2>7, Zenon DEF PlacesAt
    <3> QED BY <2>6, <3>1, <3>2, <3>3 DEF NavAt, ItemAt
  <2> QED BY <2>8, <2>9
<1>16. ASSUME NEW e \in nav.edits, EditAnswered(e) PROVE Good
  <2> DEFINE w == [nav EXCEPT !.edits = nav.edits \ {e}, !.unsure = nav.unsure]
             v == [nav EXCEPT !.edits = nav.edits \ {e}]
  <2>1. /\ nav' = IF e.op \in ProfileOps THEN LoadList(v, e.place)
                  ELSE LoadList(LoadList(v, "page"), "sidebar")
        /\ profiles' = profiles /\ services' = services
    BY <1>16 DEF EditAnswered
  <2>2. v = w
    BY <1>d DEF NavFields
  <2>3. /\ NavShape(w) /\ w.lists = nav.lists /\ w.item = nav.item /\ w.unsure = nav.unsure
        /\ \A p : ChangedAt(nav, p)
                    => ChangedAt(w, p) \/ (e.done /\ e.op \in ProfileOps /\ e.place = p)
        /\ ItemChanged(nav)
             => ItemChanged(w) \/ (e.done /\ (e.op \in ServiceOps \/ e.place = "sidebar"))
    BY <1>s, WithoutEdit
  <2> HIDE DEF w, v
  <2>4. CASE e.op \notin ProfileOps
    BY <2>1, <2>2, <2>3, <2>4, BothLoaded
  <2>5. CASE e.op \in ProfileOps /\ e.place \in Places
    <3>1. \A q \in Places \ {e.place} :
            q \notin w.unsure /\ ~ChangedAt(w, q) => ListShows(w.lists[q], profiles)
      BY <1>s, <2>3 DEF PlacesAt
    <3>2. e.op \notin ServiceOps
      BY <2>5 DEF ProfileOps, ServiceOps
    <3>3. e.place # "sidebar" => ItemAt(w, services)
      BY <1>s, <2>3, <3>2, Zenon DEF ItemAt
    <3> QED BY <2>1, <2>2, <2>3, <2>5, <3>1, <3>3, LoadListKeeps
  <2>6. e.place \in Places
    BY <1>d
  <2> QED BY <2>4, <2>5, <2>6
<1>17. ASSUME NEW e \in nav.edits, EditFails(e) PROVE Good
  <2> DEFINE unsure == IF e.done THEN nav.unsure \cup {e.place, "item"} ELSE nav.unsure
             w == [nav EXCEPT !.edits = nav.edits \ {e}, !.unsure = unsure]
  <2>1. nav' = w /\ profiles' = profiles /\ services' = services
    BY <1>17 DEF EditFails
  <2>2. nav.unsure \subseteq unsure /\ (e.done => "item" \in unsure /\ e.place \in unsure)
    OBVIOUS
  <2> HIDE DEF unsure
  <2>3. /\ NavShape(w) /\ w.lists = nav.lists /\ w.item = nav.item /\ w.unsure = unsure
        /\ \A p : ChangedAt(nav, p)
                    => ChangedAt(w, p) \/ (e.done /\ e.op \in ProfileOps /\ e.place = p)
        /\ ItemChanged(nav)
             => ItemChanged(w) \/ (e.done /\ (e.op \in ServiceOps \/ e.place = "sidebar"))
    BY <1>s, WithoutEdit
  <2> HIDE DEF w
  <2>4. PlacesAt(w, profiles)
    BY <1>s, <2>2, <2>3 DEF PlacesAt
  <2>5. ItemAt(w, services)
    BY <1>s, <2>2, <2>3, Zenon DEF ItemAt
  <2> QED BY <2>1, <2>3, <2>4, <2>5 DEF NavAt
<1> QED BY <1>1, <1>2, <1>3, <1>4, <1>5, <1>6, <1>7, <1>8, <1>9, <1>10, <1>11, <1>12, <1>13, <1>14,
          <1>15, <1>16, <1>17 DEF NavActs

-----------------------------------------------------------------------------
(***************************************************************************)
(* The screens.  A part is mounted, unmounted, left alone, or does one of  *)
(* its own steps.                                                          *)
(***************************************************************************)

\* The steps of a part.
Does(part) ==
  CASE part = "minio"   -> MinioWorks \/ UploadsGoOn
    [] part = "redis"   -> RedisActs
    [] part = "header"  -> HeaderActs
    [] part = "cloud"   -> CloudActs
    [] part = "dialogs" -> SvcActs
    [] part = "backups" -> BackupsActs
    [] part = "tabs"    -> TabsActs
    [] part = "console" -> ConsoleActs
    [] part = "editor"  -> EditorActs
    [] part = "jenkins" -> JenkinsActs
    [] part = "templates" -> TemplatesActs
    [] part = "profiles"  -> NavActs

LEMMA UiSteps ==
  ASSUME [UiNext]_allVars, NEW part \in Parts
  PROVE  Kept(part) \/ Fresh(part) \/ Gone(part) \/ Does(part)
<1>k. ASSUME NEW p, OthersKept(p), p # part PROVE Kept(part)
  BY <1>k DEF OthersKept
<1>w. ASSUME NEW p, OtherWorks(p), p # part PROVE Kept(part)
  BY <1>k, <1>w DEF OtherWorks, Works
<1>1. CASE UNCHANGED allVars
  BY <1>1 DEF Parts, allVars, Kept, headerVars, cloudVars, svcVars, backupsVars, tabsVars,
              consoleVars, jenkinsVars, templatesVars, navVars
<1>2. ASSUME NEW p \in Parts, Mount(p) PROVE Kept(part) \/ Fresh(part)
  BY <1>2, <1>k DEF Mount
<1>3. ASSUME NEW p \in Parts, Unmount(p) PROVE Kept(part) \/ Gone(part)
  BY <1>3, <1>k DEF Unmount
<1>4. CASE UploadsGoOn
  <2>1. OthersKept("minio")
    BY <1>4 DEF UploadsGoOn
  <2> QED BY <1>4, <1>k, <2>1 DEF Does
<1>5. CASE MinioWorks
  <2>1. OthersKept("minio")
    BY <1>5 DEF MinioWorks, Works
  <2> QED BY <1>5, <1>k, <2>1 DEF Does
<1>6. CASE OtherWorks("redis") /\ RedisActs
  BY <1>6, <1>w DEF Does
<1>7. CASE OtherWorks("header") /\ HeaderActs
  BY <1>7, <1>w DEF Does
<1>8. CASE OtherWorks("cloud") /\ CloudActs
  BY <1>8, <1>w DEF Does
<1>9. CASE OtherWorks("dialogs") /\ SvcActs
  BY <1>9, <1>w DEF Does
<1>10. CASE OtherWorks("backups") /\ BackupsActs
  BY <1>10, <1>w DEF Does
<1>11. CASE OtherWorks("tabs") /\ TabsActs
  BY <1>11, <1>w DEF Does
<1>12. CASE OtherWorks("console") /\ ConsoleActs
  BY <1>12, <1>w DEF Does
<1>13. CASE OtherWorks("editor") /\ EditorActs
  BY <1>13, <1>w DEF Does
<1>14. CASE OtherWorks("jenkins") /\ JenkinsActs
  BY <1>14, <1>w DEF Does
<1>15. CASE OtherWorks("templates") /\ TemplatesActs
  BY <1>15, <1>w DEF Does
<1>16. CASE OtherWorks("profiles") /\ NavActs
  BY <1>16, <1>w DEF Does
<1> QED BY <1>1, <1>2, <1>3, <1>4, <1>5, <1>6, <1>7, <1>8, <1>9, <1>10, <1>11, <1>12, <1>13,
           <1>14, <1>15, <1>16 DEF UiNext

ScreensInv ==
  /\ ListingAt(browser)
  /\ KeysAt(redis) /\ LogAt(redis)
  /\ HealthAt(header)
  /\ ListAt(cloud)
  /\ BuildLogAt(jenkins, written, ended)

LEMMA ListingStep ==
  ASSUME ListingAt(browser), [UiNext]_allVars
  PROVE  ListingAt(browser')
<1>1. CASE Kept("minio")
  BY <1>1 DEF Kept
<1>2. CASE Fresh("minio")
  BY <1>2, FreshBrowserAt DEF Fresh
<1>3. CASE Gone("minio")
  BY <1>3, FreshBrowserAt DEF Gone
<1>4. CASE MinioWorks
  BY <1>4, BrowserKeeps, UploadsKeepListing DEF MinioWorks
<1>5. CASE UploadsGoOn
  BY <1>5, UploadsKeepListing DEF UploadsGoOn
<1> QED BY <1>1, <1>2, <1>3, <1>4, <1>5, UiSteps DEF Does, Parts

LEMMA RedisStep ==
  ASSUME KeysAt(redis), LogAt(redis), [UiNext]_allVars
  PROVE  KeysAt(redis') /\ LogAt(redis')
<1>1. CASE Kept("redis")
  BY <1>1 DEF Kept
<1>2. CASE Fresh("redis") \/ Gone("redis")
  BY <1>2, FreshRedisAt, FreshLogAt DEF Fresh, Gone
<1>3. CASE RedisActs
  BY <1>3, RedisKeeps, LogKeeps
<1> QED BY <1>1, <1>2, <1>3, UiSteps DEF Does, Parts

LEMMA HealthStep ==
  ASSUME HealthAt(header), [UiNext]_allVars
  PROVE  HealthAt(header')
<1>1. CASE Kept("header")
  BY <1>1 DEF Kept, headerVars
<1>2. CASE Fresh("header") \/ Gone("header")
  BY <1>2, FreshHeaderAt DEF Fresh, Gone
<1>3. CASE HeaderActs
  BY <1>3, HeaderKeeps
<1> QED BY <1>1, <1>2, <1>3, UiSteps DEF Does, Parts

LEMMA ListStep ==
  ASSUME ListAt(cloud), [UiNext]_allVars
  PROVE  ListAt(cloud')
<1>1. CASE Kept("cloud")
  BY <1>1 DEF Kept, cloudVars
<1>2. CASE Fresh("cloud") \/ Gone("cloud")
  BY <1>2, FreshCloudAt DEF Fresh, Gone, NoCloud
<1>3. CASE CloudActs
  BY <1>3, CloudKeeps
<1> QED BY <1>1, <1>2, <1>3, UiSteps DEF Does, Parts

LEMMA BuildLogStep ==
  ASSUME BuildLogAt(jenkins, written, ended), [UiNext]_allVars
  PROVE  BuildLogAt(jenkins', written', ended')
<1>1. CASE Kept("jenkins")
  BY <1>1 DEF Kept, jenkinsVars
<1>2. CASE Fresh("jenkins") \/ Gone("jenkins")
  BY <1>2, FreshJenkinsAt DEF Fresh, Gone
<1>3. CASE JenkinsActs
  BY <1>3, JenkinsKeeps
<1> QED BY <1>1, <1>2, <1>3, UiSteps DEF Does, Parts

LEMMA ScreensInitially ==
  ASSUME UiInit
  PROVE  ScreensInv
<1>1. browser = FreshBrowser /\ redis = FreshRedis /\ header = FreshHeader(Nothing)
  BY DEF UiInit, BrowserInit, RedisInit, HeaderInit
<1>2. cloud = FreshCloud(CHOOSE r \in AllRegions : TRUE)
  BY DEF UiInit, NoCloud
<1>3. jenkins = FreshJenkins /\ written = NothingWritten /\ ended = {}
  BY DEF UiInit, JenkinsInit, NothingWritten
<1>4. /\ ListingAt(browser) /\ KeysAt(redis) /\ LogAt(redis) /\ HealthAt(header)
  BY <1>1, FreshBrowserAt, FreshRedisAt, FreshLogAt, FreshHeaderAt
<1>5. ListAt(cloud) /\ BuildLogAt(jenkins, written, ended)
  BY <1>2, <1>3, FreshCloudAt, FreshJenkinsAt
<1> QED BY <1>4, <1>5 DEF ScreensInv

LEMMA ScreensAreShown ==
  ASSUME ScreensInv
  PROVE  ScreenIsCurrent
<1>1. ListingIsCurrent
  BY DEF ScreensInv, ListingAt, LoadAt, ListingIsCurrent, At
<1>2. KeysAreCurrent
  BY DEF ScreensInv, KeysAt, LoadAt, KeysAreCurrent
<1>3. HealthIsCurrent
  BY DEF ScreensInv, HealthAt, LoadAt, HealthIsCurrent
<1>4. ListIsCurrent
  BY DEF ScreensInv, ListAt, LoadAt, ListIsCurrent
<1>5. LogIsHonest
  BY DEF ScreensInv, LogAt, LogTyped, CallsMatch, LogIsHonest
<1>6. BuildLogIsWhole
  BY DEF ScreensInv, BuildLogAt, LogIsWhole, BuildLogIsWhole
<1> QED BY <1>1, <1>2, <1>3, <1>4, <1>5, <1>6 DEF ScreenIsCurrent

\* For any number of buckets, folders, databases, keys, regions, names and builds, with
\* any number of changes of what is selected, answers that come late or not at all, and
\* screens left at any moment: a screen shows what its controls select; a log of
\* commands is what was run, and a build's log the chunks the build wrote, each once and
\* in order, of which only those that an answer of bounded length cut off are missing.
THEOREM ScreensAreCurrent == UiSpec => []ScreenIsCurrent
<1>1. UiInit => ScreensInv
  BY ScreensInitially
<1>2. ScreensInv /\ [UiNext]_allVars => ScreensInv'
  BY ListingStep, RedisStep, HealthStep, ListStep, BuildLogStep DEF ScreensInv
<1>3. ScreensInv => ScreenIsCurrent
  BY ScreensAreShown
<1> QED BY <1>1, <1>2, <1>3, PTL DEF UiSpec

LEMMA TabsStep ==
  ASSUME TabsInv(tabs, stored, opened), [UiNext]_allVars
  PROVE  TabsInv(tabs', stored', opened')
<1>1. CASE Kept("tabs") \/ Fresh("tabs")
  BY <1>1 DEF Kept, Fresh, tabsVars
<1>2. CASE Gone("tabs")
  BY <1>2, FreshTabsAt DEF Gone
<1>3. CASE TabsActs
  BY <1>3, TabsKeeps
<1> QED BY <1>1, <1>2, <1>3, UiSteps DEF Does, Parts

\* For any number of windows, connections and tabs: tabs have ids of their own, the active
\* one is among them, each belongs to the connection its page is under, and so does the
\* schema that is completed from, whatever other windows store meanwhile.
THEOREM ConsolesTabsAreOwn == UiSpec => []TabsAreOwn
<1>1. UiInit => TabsInv(tabs, stored, opened)
  BY FreshTabsAt DEF UiInit, TabsInit
<1>2. TabsInv(tabs, stored, opened) /\ [UiNext]_allVars => TabsInv(tabs, stored, opened)'
  BY TabsStep
<1>3. TabsInv(tabs, stored, opened) => TabsAreOwn
  BY DEF TabsInv, PageAt, TabsAt, LoadAt, TabsAreOwn
<1> QED BY <1>1, <1>2, <1>3, PTL DEF UiSpec
(***************************************************************************)
(* What a change leaves on the screen, and what a request that changes     *)
(* something is for.                                                       *)
(***************************************************************************)
ChangesInv ==
  /\ ListAt(cloud) /\ ChangesAt(cloud, owned)
  /\ SettingsAt(svc, saved)
  /\ RowsAt(backups, kept)
  /\ ConsoleAt(console, table)
  /\ TextsAt(templates, texts)
  /\ NavAt(nav, profiles, services)

RequestsInv ==
  /\ ListingAt(browser) /\ DeletionsAt(browser)
  /\ ConsoleAt(console, table)
  /\ OffersAt(svc)
  /\ HighlightAt(header)
  /\ EditorAt(templates)

LEMMA NoCloudAt == ChangesAt(NoCloud, NoQueues)
<1>1. (CHOOSE r \in AllRegions : TRUE) \in AllRegions
  BY CloudAssumption
<1>2. DOMAIN NoQueues = Lists \X AllRegions
  BY DEF NoQueues
<1> QED BY <1>1, <1>2, FreshChangesAt DEF NoCloud

LEMMA ChangesStep ==
  ASSUME ListAt(cloud), ChangesAt(cloud, owned), [UiNext]_allVars
  PROVE  ChangesAt(cloud', owned')
<1>1. CASE Kept("cloud")
  BY <1>1 DEF Kept, cloudVars
<1>2. CASE Fresh("cloud")
  <2>1. (\E r \in AllRegions : cloud' = FreshCloud(r)) /\ DOMAIN owned' = Lists \X AllRegions
    BY <1>2 DEF Fresh
  <2> QED BY <2>1, FreshChangesAt
<1>3. CASE Gone("cloud")
  BY <1>3, NoCloudAt DEF Gone
<1>4. CASE CloudActs
  BY <1>4, ChangesKeep
<1> QED BY <1>1, <1>2, <1>3, <1>4, UiSteps DEF Does, Parts

LEMMA DialogsStep ==
  ASSUME SettingsAt(svc, saved), OffersAt(svc), [UiNext]_allVars
  PROVE  SettingsAt(svc', saved') /\ OffersAt(svc')
<1>1. CASE Kept("dialogs")
  BY <1>1 DEF Kept, svcVars
<1>2. CASE Fresh("dialogs") \/ Gone("dialogs")
  BY <1>2, FreshSettingsAt, FreshOffersAt DEF Fresh, Gone
<1>3. CASE SvcActs
  BY <1>3, SettingsKeeps, OffersKeeps
<1> QED BY <1>1, <1>2, <1>3, UiSteps DEF Does, Parts

LEMMA RowsStep ==
  ASSUME RowsAt(backups, kept), [UiNext]_allVars
  PROVE  RowsAt(backups', kept')
<1>1. CASE Kept("backups")
  BY <1>1 DEF Kept, backupsVars
<1>2. CASE Fresh("backups") \/ Gone("backups")
  BY <1>2, FreshRowsAt DEF Fresh, Gone
<1>3. CASE BackupsActs
  BY <1>3, RowsKeep
<1> QED BY <1>1, <1>2, <1>3, UiSteps DEF Does, Parts

LEMMA ConsoleStep ==
  ASSUME ConsoleAt(console, table), [UiNext]_allVars
  PROVE  ConsoleAt(console', table')
<1>1. CASE Kept("console")
  BY <1>1 DEF Kept, consoleVars
<1>2. CASE Fresh("console") \/ Gone("console")
  BY <1>2, FreshConsoleAt, NewTableHasCells DEF Fresh, Gone
<1>3. CASE ConsoleActs
  BY <1>3, ConsoleKeeps
<1> QED BY <1>1, <1>2, <1>3, UiSteps DEF Does, Parts

LEMMA TemplatesStep ==
  ASSUME TextsAt(templates, texts), EditorAt(templates), [UiNext]_allVars
  PROVE  TextsAt(templates', texts') /\ EditorAt(templates')
<1>1. CASE Kept("templates")
  BY <1>1 DEF Kept, templatesVars
<1>2. CASE Fresh("templates") \/ Gone("templates")
  BY <1>2, FreshTextsAt DEF Fresh, Gone
<1>3. CASE TemplatesActs
  BY <1>3, TextsKeeps, EditorKeeps
<1> QED BY <1>1, <1>2, <1>3, UiSteps DEF Does, Parts

LEMMA NavStep ==
  ASSUME NavAt(nav, profiles, services), [UiNext]_allVars
  PROVE  NavAt(nav', profiles', services')
<1>1. CASE Kept("profiles")
  BY <1>1 DEF Kept, navVars
<1>2. CASE Fresh("profiles") \/ Gone("profiles")
  BY <1>2, FreshNavAt DEF Fresh, Gone
<1>3. CASE NavActs
  BY <1>3, NavKeeps
<1> QED BY <1>1, <1>2, <1>3, UiSteps DEF Does, Parts

LEMMA DeletionsStep ==
  ASSUME ListingAt(browser), DeletionsAt(browser), [UiNext]_allVars
  PROVE  DeletionsAt(browser')
<1>1. CASE Kept("minio")
  BY <1>1 DEF Kept
<1>2. CASE Fresh("minio") \/ Gone("minio")
  BY <1>2, FreshDeletionsAt DEF Fresh, Gone
<1>3. CASE MinioWorks
  BY <1>3, DeletionsKeep, UploadsKeepDeletions DEF MinioWorks
<1>4. CASE UploadsGoOn
  BY <1>4, UploadsKeepDeletions DEF UploadsGoOn
<1> QED BY <1>1, <1>2, <1>3, <1>4, UiSteps DEF Does, Parts

LEMMA HighlightStep ==
  ASSUME HighlightAt(header), [UiNext]_allVars
  PROVE  HighlightAt(header')
<1>1. CASE Kept("header")
  BY <1>1 DEF Kept, headerVars
<1>2. CASE Fresh("header") \/ Gone("header")
  BY <1>2, FreshHighlightAt DEF Fresh, Gone
<1>3. CASE HeaderActs
  BY <1>3, HighlightKeeps
<1> QED BY <1>1, <1>2, <1>3, UiSteps DEF Does, Parts

LEMMA PartsInitially ==
  ASSUME UiInit
  PROVE  ChangesInv /\ RequestsInv
<1>1. ListAt(cloud) /\ ChangesAt(cloud, owned)
  BY NoCloudAt, FreshCloudAt DEF UiInit, NoCloud
<1>2. SettingsAt(svc, saved) /\ OffersAt(svc)
  BY FreshSettingsAt, FreshOffersAt DEF UiInit
<1>3. RowsAt(backups, kept)
  BY FreshRowsAt DEF UiInit
<1>4. ConsoleAt(console, table)
  BY FreshConsoleAt, NewTableHasCells DEF UiInit
<1>5. TextsAt(templates, texts) /\ EditorAt(templates)
  BY FreshTextsAt DEF UiInit
<1>6. NavAt(nav, profiles, services)
  BY FreshNavAt DEF UiInit
<1>7. ListingAt(browser) /\ DeletionsAt(browser)
  BY FreshBrowserAt, FreshDeletionsAt DEF UiInit, BrowserInit
<1>8. HighlightAt(header)
  BY FreshHighlightAt DEF UiInit, HeaderInit
<1> QED BY <1>1, <1>2, <1>3, <1>4, <1>5, <1>6, <1>7, <1>8 DEF ChangesInv, RequestsInv

LEMMA PartsShow ==
  ASSUME ChangesInv
  PROVE  ChangesAreShown
<1>1. ChangesShow
  BY DEF ChangesInv, ChangesAt, ChangesShow, ListedNames
<1>2. SettingsShow
  BY DEF ChangesInv, SettingsAt, SettingsShow, PageShown
<1>3. RowsAreKept
  BY DEF ChangesInv, RowsAt, RowsAreKept, Rows
<1>4. EditsShow
  BY DEF ChangesInv, ConsoleAt, SeenAt, SawEdits, EditsShow
<1>5. TemplatesShow
  BY DEF ChangesInv, TextsAt, TemplatesShow
<1>6. ProfilesShow
  BY DEF ChangesInv, NavAt, PlacesAt, ItemAt, ListShows, ItemShows, ChangedAt, ItemChanged,
         ProfilesShow, Shows, ItemShown
<1> QED BY <1>1, <1>2, <1>3, <1>4, <1>5, <1>6 DEF ChangesAreShown

LEMMA PartsAct ==
  ASSUME RequestsInv
  PROVE  ActsOnWhatIsShown
<1>1. DeletesWhatIsShown
  BY DEF RequestsInv, DeletionsAt, OfTheFolder, DeletionOf, DeletesWhatIsShown
<1>2. EditsWhatIsShown
  BY DEF RequestsInv, ConsoleAt, EditingAt, EditsWhatIsShown
<1>3. AsksForWhatWasOffered
  BY DEF RequestsInv, OffersAt, Asks, AsksForWhatWasOffered
<1>4. HighlightIsListed
  BY DEF RequestsInv, HighlightAt, SelectAt, HighlightIsListed
<1>5. UpdatesItsOwnText
  BY DEF RequestsInv, EditorAt, OwnText, UpdatesItsOwnText
<1> QED BY <1>1, <1>2, <1>3, <1>4, <1>5 DEF ActsOnWhatIsShown

\* For any number of names, regions, sessions, rows, templates, profiles and requests under
\* way: once its own changes are answered a screen shows what they made of the server's
\* data, whatever earlier loads still answer and which of the changes failed. What others
\* change meanwhile -- the rest of the page, another window, a screen of this kind that was
\* left before its change took effect -- it may show as it was.
THEOREM ScreensShowChanges == UiSpec => []ChangesAreShown
<1>1. UiInit => ChangesInv /\ RequestsInv
  BY PartsInitially
<1>2. ChangesInv /\ RequestsInv /\ [UiNext]_allVars => ChangesInv' /\ RequestsInv'
  BY ListStep, ChangesStep, DialogsStep, RowsStep, ConsoleStep, TemplatesStep, NavStep,
     ListingStep, DeletionsStep, HighlightStep DEF ChangesInv, RequestsInv
<1>3. ChangesInv => ChangesAreShown
  BY PartsShow
<1> QED BY <1>1, <1>2, <1>3, PTL DEF UiSpec

\* For any number of objects, rows, snapshots, regions and templates: a request that
\* changes something is for what was on the screen when the user asked for it, though
\* that was loaded anew, or the selection moved, in between.
THEOREM RequestsAreForTheShown == UiSpec => []ActsOnWhatIsShown
<1>1. UiInit => ChangesInv /\ RequestsInv
  BY PartsInitially
<1>2. ChangesInv /\ RequestsInv /\ [UiNext]_allVars => ChangesInv' /\ RequestsInv'
  BY ListStep, ChangesStep, DialogsStep, RowsStep, ConsoleStep, TemplatesStep, NavStep,
     ListingStep, DeletionsStep, HighlightStep DEF ChangesInv, RequestsInv
<1>3. RequestsInv => ActsOnWhatIsShown
  BY PartsAct
<1> QED BY <1>1, <1>2, <1>3, PTL DEF UiSpec

-----------------------------------------------------------------------------
(***************************************************************************)
(* The SQL editor: what its scan takes for statements is what the lexical  *)
(* rules of SQL say, for every text.                                       *)
(***************************************************************************)

\* (Induction, in the form that the provers can use.)
LEMMA LeastOf ==
  ASSUME NEW S, S \subseteq Nat, S # {}
  PROVE  \E n \in S : \A m \in S : n <= m
<1> DEFINE R == OpToRel(<, Nat)
<1>1. IsWellFoundedOn(R, Nat)
  BY NatLessThanWellFounded
<1>2. R = {ss \in Nat \X Nat : ss[1] < ss[2]}
  BY DEF OpToRel
<1> HIDE DEF R
<1>3. PICK x \in S : \A y \in S : ~ (<<y, x>> \in R)
  BY <1>1, WFMin
<1>4. ASSUME NEW y \in S PROVE x <= y
  <2>1. <<y, x>> \in Nat \X Nat /\ <<y, x>>[1] = y /\ <<y, x>>[2] = x /\ x \in Nat /\ y \in Nat
    OBVIOUS
  <2>2. ~(y < x)
    BY <1>2, <1>3, <2>1
  <2> QED BY <2>1, <2>2
<1> QED BY <1>4

LEMMA NoneWithoutAnEarlier ==
  ASSUME NEW S, S \subseteq Nat, \A i \in S : \E k \in S : k < i
  PROVE  S = {}
<1> SUFFICES ASSUME S # {} PROVE FALSE
  OBVIOUS
<1>1. PICK i \in S : \A k \in S : i <= k
  BY LeastOf
<1>2. PICK k \in S : k < i
  OBVIOUS
<1>3. i \in Nat /\ k \in Nat /\ i <= k
  BY <1>1
<1> QED BY <1>2, <1>3

LEMMA NoneWithoutALater ==
  ASSUME NEW n \in Nat, NEW S, S \subseteq 1 .. n, \A i \in S : \E k \in S : k > i
  PROVE  S = {}
<1> DEFINE T == {j \in Nat : n - j \in S}
<1>1. ASSUME NEW j \in T PROVE \E k \in T : k < j
  <2>1. PICK i \in S : i > n - j
    OBVIOUS
  <2>2. i \in 1 .. n /\ j \in Nat
    OBVIOUS
  <2>3. n - i \in Nat /\ n - (n - i) = i /\ n - i < j
    BY <2>1, <2>2
  <2> QED BY <2>3
<1>2. T = {}
  <2> HIDE DEF T
  <2>1. T \subseteq Nat
    BY DEF T
  <2> QED BY <1>1, <2>1, NoneWithoutAnEarlier
<1>3. ASSUME NEW i \in S PROVE FALSE
  <2>1. n - i \in Nat /\ n - (n - i) = i
    OBVIOUS
  <2> QED BY <1>2, <2>1
<1> QED BY <1>3

\* The first of some positions of a text, or the end.
LEMMA FirstIs ==
  ASSUME NEW doc \in Seq(Tokens), NEW places, places \subseteq 1 .. Len(doc)
  PROVE  /\ First(places, doc) \in places \cup {Len(doc) + 1}
         /\ \A k \in places : First(places, doc) <= k
         /\ First(places, doc) = Len(doc) + 1 => places = {}
<1>n. Len(doc) \in Nat
  OBVIOUS
<1>1. \E j \in places \cup {Len(doc) + 1} : \A k \in places : j <= k
  <2>1. CASE places = {}
    BY <2>1
  <2>2. CASE places # {}
    <3>1. places \subseteq Nat
      BY <1>n
    <3> QED BY <2>2, <3>1, LeastOf
  <2> QED BY <2>1, <2>2
<1>2. /\ First(places, doc) \in places \cup {Len(doc) + 1}
      /\ \A k \in places : First(places, doc) <= k
  BY <1>1 DEF First
<1>3. ASSUME NEW k \in places PROVE First(places, doc) # Len(doc) + 1
  BY <1>n, <1>2
<1> QED BY <1>2, <1>3

-----------------------------------------------------------------------------
\* The recursive functions exist: each has the value that its definition says.

CloseAt(f, doc, j) ==
  IF j > Len(doc) THEN Len(doc) + 1
  ELSE IF doc[j] # Quote THEN f[j + 1]
  ELSE IF j < Len(doc) /\ doc[j + 1] = Quote THEN f[j + 2]
  ELSE j + 1

LEMMA ClosingIs ==
  ASSUME NEW doc \in Seq(Tokens)
  PROVE  \A j \in 1 .. (Len(doc) + 2) : Closing(doc)[j] = CloseAt(Closing(doc), doc, j)
<1> DEFINE n == Len(doc)
           Good(k) == \E f : f = [j \in k .. (n + 2) |-> CloseAt(f, doc, j)]
           Bad == {k \in 1 .. (n + 3) : ~Good(k)}
<1>n. n \in Nat /\ n + 3 \in Nat
  OBVIOUS
<1>1. Good(n + 3)
  <2> DEFINE f == [j \in (n + 3) .. (n + 2) |-> 0]
  <2>1. (n + 3) .. (n + 2) = {}
    BY <1>n
  <2>2. f = [j \in (n + 3) .. (n + 2) |-> CloseAt(f, doc, j)]
    BY <2>1
  <2> QED BY <2>2
<1>2. ASSUME NEW k \in 1 .. (n + 2), Good(k + 1) PROVE Good(k)
  <2>1. PICK f : f = [j \in (k + 1) .. (n + 2) |-> CloseAt(f, doc, j)]
    BY <1>2
  <2> DEFINE v == CloseAt(f, doc, k)
             g == [j \in k .. (n + 2) |-> IF j = k THEN v ELSE f[j]]
  <2>2. \A j \in (k + 1) .. (n + 2) : f[j] = CloseAt(f, doc, j)
    BY <2>1
  <2>3. \A j \in (k + 1) .. (n + 2) : g[j] = f[j]
    BY <1>n
  <2>4. g[k] = v
    BY <1>n
  <2>d. DOMAIN g = k .. (n + 2) /\ g = [j \in k .. (n + 2) |-> g[j]]
    OBVIOUS
  <2> HIDE DEF g
  <2>5. ASSUME NEW j \in k .. (n + 2) PROVE CloseAt(g, doc, j) = CloseAt(f, doc, j)
    <3>1. j \in Nat /\ k \in Nat /\ k <= j /\ j <= n + 2
      BY <1>n
    <3>2. j <= n => j + 1 \in (k + 1) .. (n + 2)
      BY <1>n, <3>1
    <3>3. j < n => j + 2 \in (k + 1) .. (n + 2)
      BY <1>n, <3>1
    <3>4. j > n \/ j <= n
      BY <1>n, <3>1
    <3> QED BY <2>3, <3>2, <3>3, <3>4 DEF CloseAt
  <2>6. ASSUME NEW j \in k .. (n + 2) PROVE g[j] = CloseAt(g, doc, j)
    <3>1. j = k \/ j \in (k + 1) .. (n + 2)
      BY <1>n
    <3> QED BY <2>2, <2>3, <2>4, <2>5, <3>1
  <2>7. g = [j \in k .. (n + 2) |-> CloseAt(g, doc, j)]
    BY <2>d, <2>6
  <2> QED BY <2>7
<1>3. ASSUME NEW k \in Bad PROVE \E i \in Bad : i > k
  <2>1. k \in 1 .. (n + 3) /\ ~Good(k)
    OBVIOUS
  <2> HIDE DEF Good
  <2>2. k # n + 3
    BY <1>1, <2>1
  <2>3. k \in 1 .. (n + 2) /\ k + 1 \in 1 .. (n + 3) /\ k + 1 > k
    BY <1>n, <2>1, <2>2
  <2>4. ~Good(k + 1)
    BY <1>2, <2>1, <2>3
  <2> QED BY <2>3, <2>4
<1>4. Bad = {}
  <2> HIDE DEF Bad, n
  <2>1. Bad \subseteq 1 .. (n + 3)
    BY DEF Bad
  <2> QED BY <1>n, <1>3, <2>1, NoneWithoutALater
<1>5. Good(1)
  <2>1. 1 \in 1 .. (n + 3)
    BY <1>n
  <2> HIDE DEF Good
  <2> QED BY <1>4, <2>1
<1>6. Closing(doc) = CHOOSE f : f = [j \in 1 .. (n + 2) |-> CloseAt(f, doc, j)]
  BY DEF Closing, CloseAt
<1>7. Closing(doc) = [j \in 1 .. (n + 2) |-> CloseAt(Closing(doc), doc, j)]
  BY <1>5, <1>6
<1> QED BY <1>7


\* The end of a quoted text is behind its begin.
LEMMA ClosingBounds ==
  ASSUME NEW doc \in Seq(Tokens)
  PROVE  \A j \in 1 .. (Len(doc) + 1) : Closing(doc)[j] \in j .. (Len(doc) + 1)
<1> DEFINE n == Len(doc)
           c == Closing(doc)
           Bad == {j \in 1 .. (n + 1) : c[j] \notin j .. (n + 1)}
<1>n. n \in Nat /\ n + 1 \in Nat
  OBVIOUS
<1>c. \A j \in 1 .. (n + 2) : c[j] = CloseAt(c, doc, j)
  BY ClosingIs
<1> HIDE DEF c
<1>1. ASSUME NEW j \in 1 .. (n + 1), c[j] \notin j .. (n + 1)
      PROVE  \E i \in Bad : i > j
  <2>1. c[j] = CloseAt(c, doc, j) /\ j \in Nat
    BY <1>n, <1>c
  <2>2. CASE j > n
    <3>1. c[j] = n + 1 /\ j = n + 1
      BY <1>n, <2>1, <2>2 DEF CloseAt
    <3> QED BY <1>n, <1>1, <3>1
  <2>3. CASE j <= n /\ doc[j] # Quote
    <3>1. c[j] = c[j + 1]
      BY <1>n, <2>1, <2>3 DEF CloseAt
    <3>2. j + 1 \in 1 .. (n + 1) /\ j + 1 > j
      BY <1>n, <2>3
    <3>3. c[j + 1] \notin (j + 1) .. (n + 1)
      BY <1>n, <1>1, <2>1, <3>1
    <3> QED BY <3>2, <3>3
  <2>4. CASE j < n /\ doc[j] = Quote /\ doc[j + 1] = Quote
    <3>1. c[j] = c[j + 2]
      BY <1>n, <2>1, <2>4 DEF CloseAt
    <3>2. j + 2 \in 1 .. (n + 1) /\ j + 2 > j
      BY <1>n, <2>4
    <3>3. c[j + 2] \notin (j + 2) .. (n + 1)
      BY <1>n, <1>1, <2>1, <3>1
    <3> QED BY <3>2, <3>3
  <2>5. CASE j <= n /\ doc[j] = Quote /\ ~(j < n /\ doc[j + 1] = Quote)
    <3>1. c[j] = j + 1
      BY <1>n, <2>1, <2>5 DEF CloseAt
    <3> QED BY <1>n, <1>1, <2>1, <2>5, <3>1
  <2> QED BY <1>n, <2>1, <2>2, <2>3, <2>4, <2>5
<1>2. Bad = {}
  <2>1. \A j \in Bad : \E i \in Bad : i > j
    BY <1>1
  <2>2. Bad \subseteq 1 .. (n + 1)
    OBVIOUS
  <2> HIDE DEF Bad, n
  <2> QED BY <1>n, <2>1, <2>2, NoneWithoutALater
<1> QED BY <1>2 DEF c

LEMMA AfterBounds ==
  ASSUME NEW doc \in Seq(Tokens), NEW i \in 1 .. Len(doc)
  PROVE  After(doc, i) \in (i + 1) .. (Len(doc) + 2)
<1> DEFINE n == Len(doc)
<1>n. n \in Nat /\ i \in Nat /\ i <= n
  OBVIOUS
<1>1. ASSUME NEW token PROVE First(From(doc, i + 1, token), doc) \in (i + 1) .. (n + 1)
  <2>1. From(doc, i + 1, token) \subseteq (i + 1) .. n
    BY DEF From
  <2>2. From(doc, i + 1, token) \subseteq 1 .. n
    BY <1>n, <2>1
  <2>3. First(From(doc, i + 1, token), doc) \in From(doc, i + 1, token) \cup {n + 1}
    BY <2>2, FirstIs
  <2> QED BY <1>n, <2>1, <2>3
<1>2. Closing(doc)[i + 1] \in (i + 1) .. (n + 1)
  BY <1>n, ClosingBounds
<1>3. \A x : x \in (i + 1) .. (n + 1) => x \in (i + 1) .. (n + 2) /\ x + 1 \in (i + 1) .. (n + 2)
  BY <1>n
<1>4. i + 1 \in (i + 1) .. (n + 2)
  BY <1>n
<1> HIDE DEF n
<1>5. After(doc, i) \in (i + 1) .. (n + 2)
  BY <1>1, <1>2, <1>3, <1>4 DEF After
<1> QED BY <1>5 DEF n

SepsAt(f, doc, i) ==
  IF i > Len(doc) THEN {} ELSE (IF doc[i] = ";" THEN {i} ELSE {}) \cup f[After(doc, i)]

LEMMA SeparatorsAre ==
  ASSUME NEW doc \in Seq(Tokens)
  PROVE  \E s : /\ Separators(doc) = s[1]
                /\ \A i \in 1 .. (Len(doc) + 2) : s[i] = SepsAt(s, doc, i)
<1> DEFINE n == Len(doc)
           Good(k) == \E f : f = [j \in k .. (n + 2) |-> SepsAt(f, doc, j)]
           Bad == {k \in 1 .. (n + 3) : ~Good(k)}
<1>n. n \in Nat /\ n + 3 \in Nat
  OBVIOUS
<1>1. Good(n + 3)
  <2> DEFINE f == [j \in (n + 3) .. (n + 2) |-> 0]
  <2>1. (n + 3) .. (n + 2) = {}
    BY <1>n
  <2>2. f = [j \in (n + 3) .. (n + 2) |-> SepsAt(f, doc, j)]
    BY <2>1
  <2> QED BY <2>2
<1>2. ASSUME NEW k \in 1 .. (n + 2), Good(k + 1) PROVE Good(k)
  <2>1. PICK f : f = [j \in (k + 1) .. (n + 2) |-> SepsAt(f, doc, j)]
    BY <1>2
  <2> DEFINE v == SepsAt(f, doc, k)
             g == [j \in k .. (n + 2) |-> IF j = k THEN v ELSE f[j]]
  <2>2. \A j \in (k + 1) .. (n + 2) : f[j] = SepsAt(f, doc, j)
    BY <2>1
  <2>3. \A j \in (k + 1) .. (n + 2) : g[j] = f[j]
    BY <1>n
  <2>4. g[k] = v
    BY <1>n
  <2>d. DOMAIN g = k .. (n + 2) /\ g = [j \in k .. (n + 2) |-> g[j]]
    OBVIOUS
  <2> HIDE DEF g
  <2>5. ASSUME NEW j \in k .. (n + 2) PROVE SepsAt(g, doc, j) = SepsAt(f, doc, j)
    <3>1. CASE j > n
      BY <3>1 DEF SepsAt
    <3>2. CASE j <= n
      <4>1. j \in 1 .. n /\ k \in Nat /\ k <= j
        BY <1>n, <3>2
      <4>2. After(doc, j) \in (j + 1) .. (n + 2)
        BY <4>1, AfterBounds
      <4>3. After(doc, j) \in (k + 1) .. (n + 2)
        BY <1>n, <4>1, <4>2
      <4> QED BY <2>3, <4>3 DEF SepsAt
    <3>3. j > n \/ j <= n
      BY <1>n
    <3> QED BY <3>1, <3>2, <3>3
  <2>6. ASSUME NEW j \in k .. (n + 2) PROVE g[j] = SepsAt(g, doc, j)
    <3>1. j = k \/ j \in (k + 1) .. (n + 2)
      BY <1>n
    <3> QED BY <2>2, <2>3, <2>4, <2>5, <3>1
  <2>7. g = [j \in k .. (n + 2) |-> SepsAt(g, doc, j)]
    BY <2>d, <2>6
  <2> QED BY <2>7
<1>3. ASSUME NEW k \in Bad PROVE \E i \in Bad : i > k
  <2>1. k \in 1 .. (n + 3) /\ ~Good(k)
    OBVIOUS
  <2> HIDE DEF Good
  <2>2. k # n + 3
    BY <1>1, <2>1
  <2>3. k \in 1 .. (n + 2) /\ k + 1 \in 1 .. (n + 3) /\ k + 1 > k
    BY <1>n, <2>1, <2>2
  <2>4. ~Good(k + 1)
    BY <1>2, <2>1, <2>3
  <2> QED BY <2>3, <2>4
<1>4. Bad = {}
  <2> HIDE DEF Bad, n
  <2>1. Bad \subseteq 1 .. (n + 3)
    BY DEF Bad
  <2> QED BY <1>n, <1>3, <2>1, NoneWithoutALater
<1>5. Good(1)
  <2>1. 1 \in 1 .. (n + 3)
    BY <1>n
  <2> HIDE DEF Good
  <2> QED BY <1>4, <2>1
<1> DEFINE s == CHOOSE f : f = [j \in 1 .. (n + 2) |-> SepsAt(f, doc, j)]
<1>6. Separators(doc) = s[1]
  BY DEF Separators, SepsAt
<1>7. s = [j \in 1 .. (n + 2) |-> SepsAt(s, doc, j)]
  BY <1>5
<1> HIDE DEF s
<1>8. \A j \in 1 .. (n + 2) : s[j] = SepsAt(s, doc, j)
  BY <1>7
<1> QED BY <1>6, <1>8

LEMMA LexedIs ==
  ASSUME NEW doc \in Seq(Tokens)
  PROVE  /\ Lexed(doc)[0] = <<>>
         /\ \A i \in 1 .. Len(doc) : Lexed(doc)[i] = OpenBehind(Lexed(doc)[i - 1], doc[i])
<1> DEFINE n == Len(doc)
           RulesAt(f, i) == IF i = 0 THEN <<>> ELSE OpenBehind(f[i - 1], doc[i])
           Good(k) == \E f : f = [i \in 0 .. k |-> RulesAt(f, i)]
           Bad == {k \in 0 .. n : ~Good(k)}
<1>n. n \in Nat
  OBVIOUS
<1>1. Good(0)
  <2> DEFINE f == [i \in 0 .. 0 |-> <<>>]
  <2>1. \A i \in 0 .. 0 : i = 0
    OBVIOUS
  <2>2. f = [i \in 0 .. 0 |-> RulesAt(f, i)]
    BY <2>1
  <2> QED BY <2>2
<1>2. ASSUME NEW k \in 1 .. n, Good(k - 1) PROVE Good(k)
  <2>1. PICK f : f = [i \in 0 .. (k - 1) |-> RulesAt(f, i)]
    BY <1>2
  <2> DEFINE v == RulesAt(f, k)
             g == [i \in 0 .. k |-> IF i = k THEN v ELSE f[i]]
  <2>2. \A i \in 0 .. (k - 1) : f[i] = RulesAt(f, i)
    BY <2>1
  <2>3. \A i \in 0 .. (k - 1) : g[i] = f[i]
    BY <1>n
  <2>4. g[k] = v
    BY <1>n
  <2>d. DOMAIN g = 0 .. k /\ g = [i \in 0 .. k |-> g[i]]
    OBVIOUS
  <2> HIDE DEF g
  <2>5. ASSUME NEW i \in 0 .. k PROVE RulesAt(g, i) = RulesAt(f, i)
    <3>1. i # 0 => i - 1 \in 0 .. (k - 1)
      BY <1>n
    <3> QED BY <2>3, <3>1
  <2>6. ASSUME NEW i \in 0 .. k PROVE g[i] = RulesAt(g, i)
    <3>1. i = k \/ i \in 0 .. (k - 1)
      BY <1>n
    <3> HIDE DEF At
    <3> QED BY <2>2, <2>3, <2>4, <2>5, <3>1
  <2>7. g = [i \in 0 .. k |-> RulesAt(g, i)]
    <3> HIDE DEF At
    <3> QED BY <2>d, <2>6
  <2> QED BY <2>7
<1>3. ASSUME NEW k \in Bad PROVE \E i \in Bad : i < k
  <2>1. k \in 0 .. n /\ ~Good(k)
    OBVIOUS
  <2> HIDE DEF Good
  <2>2. k # 0
    BY <1>1, <2>1
  <2>3. k \in 1 .. n /\ k - 1 \in 0 .. n /\ k - 1 < k
    BY <1>n, <2>1, <2>2
  <2>4. ~Good(k - 1)
    BY <1>2, <2>1, <2>3
  <2> QED BY <2>3, <2>4
<1>4. Bad = {}
  <2>1. Bad \subseteq Nat
    BY <1>n
  <2> HIDE DEF Bad
  <2> QED BY <1>3, <2>1, NoneWithoutAnEarlier
<1>5. Good(n)
  <2>1. n \in 0 .. n
    BY <1>n
  <2> HIDE DEF Good
  <2> QED BY <1>4, <2>1
<1>6. Lexed(doc) = CHOOSE f : f = [i \in 0 .. n |-> RulesAt(f, i)]
  BY DEF Lexed
<1>7. Lexed(doc) = [i \in 0 .. n |-> RulesAt(Lexed(doc), i)]
  BY <1>5, <1>6
<1>8. \A i \in 0 .. n : Lexed(doc)[i] = RulesAt(Lexed(doc), i)
  <2> HIDE DEF At
  <2> QED BY <1>7
<1>9. 0 \in 0 .. n /\ \A i \in 1 .. n : i \in 0 .. n /\ i # 0
  BY <1>n
<1> QED BY <1>8, <1>9

\* In a plain text at most one thing is open: its name says all, and "code" that none is.
Flat(doc) ==
  [i \in 0 .. Len(doc) |-> IF Lexed(doc)[i] \in Code THEN "code" ELSE Lexed(doc)[i][1]]
FlatBy(was, token) ==
  IF was = "code" THEN IF token \in {Quote, "--", "/*"} \cup Tags THEN token ELSE "code"
  ELSE IF was = "--" THEN IF token = LineEnd THEN "code" ELSE was
  ELSE IF token = (IF was = "/*" THEN "*/" ELSE was) THEN "code" ELSE was

OneOpen(open) ==
  open \in Code \/ \E x \in {Quote, "--", "/*"} \cup Tags : open = <<x>>
FlatOf(open) == IF open \in Code THEN "code" ELSE open[1]

\* One token.
LEMMA FlatStep ==
  ASSUME NEW open, OneOpen(open), NEW token \in Tokens,
         token = "/*" => open = <<>> \/ open[1] # "/*",
         token \in Tags => open # <<"word">>
  PROVE  /\ OneOpen(OpenBehind(open, token))
         /\ FlatOf(OpenBehind(open, token)) = FlatBy(FlatOf(open), token)
<1>c. /\ <<>> \in Code /\ <<"word">> \in Code
      /\ \A x \in {Quote, "--", "/*"} \cup Tags : /\ <<x>> \notin Code /\ <<x>>[1] = x /\ x # "code"
                                               /\ Tail(<<x>>) = <<>>
  BY DEF Code, Quote, Tags
<1>1. CASE open \in Code
  <2>1. CASE token \in {Quote, "--", "/*"} \cup Tags
    <3>1. OpenBehind(open, token) = <<token>>
      BY <1>1, <2>1 DEF OpenBehind, Code
    <3>2. FlatBy("code", token) = token
      BY <2>1 DEF FlatBy
    <3> QED BY <1>1, <1>c, <2>1, <3>1, <3>2 DEF OneOpen, FlatOf
  <2>2. CASE token \notin {Quote, "--", "/*"} \cup Tags
    <3>1. OpenBehind(open, token) \in {<<>>, <<"word">>}
      BY <1>1, <2>2 DEF OpenBehind
    <3>2. FlatBy("code", token) = "code"
      BY <2>2 DEF FlatBy
    <3> QED BY <1>1, <1>c, <3>1, <3>2 DEF OneOpen, FlatOf
  <2> QED BY <2>1, <2>2
<1>2. CASE open \notin Code
  <2>1. PICK x \in {Quote, "--", "/*"} \cup Tags : open = <<x>>
    BY <1>2 DEF OneOpen
  <2>2. open[1] = x /\ FlatOf(open) = x /\ x # "code"
    BY <1>2, <1>c, <2>1 DEF FlatOf
  <2>3. CASE x = "/*"
    <3>1. token # "/*"
      BY <1>2, <1>c, <2>2, <2>3
    <3>2. OpenBehind(open, token) = IF token = "*/" THEN <<>> ELSE open
      <4>1. Tail(open) = <<>>
        BY <1>c, <2>1
      <4> QED BY <1>2, <2>2, <2>3, <3>1, <4>1 DEF OpenBehind
    <3>3. FlatBy(x, token) = IF token = "*/" THEN "code" ELSE x
      BY <2>3 DEF FlatBy
    <3> QED BY <1>2, <1>c, <2>1, <2>2, <3>2, <3>3 DEF OneOpen, FlatOf
  <2>4. CASE x # "/*"
    <3> DEFINE end == IF x = "--" THEN LineEnd ELSE x
    <3>1. OpenBehind(open, token) = IF token = end THEN <<>> ELSE open
      BY <1>2, <2>2, <2>4 DEF OpenBehind
    <3>2. FlatBy(x, token) = IF token = end THEN "code" ELSE x
      BY <2>2, <2>4 DEF FlatBy
    <3> HIDE DEF end
    <3> QED BY <1>2, <1>c, <2>1, <2>2, <3>1, <3>2 DEF OneOpen, FlatOf
  <2> QED BY <2>3, <2>4
<1> QED BY <1>1, <1>2

LEMMA FlatIs ==
  ASSUME NEW doc \in Seq(Tokens), Plain(doc)
  PROVE  /\ Flat(doc)[0] = "code"
         /\ \A i \in 1 .. Len(doc) : Flat(doc)[i] = FlatBy(Flat(doc)[i - 1], doc[i])
         /\ \A i \in 1 .. Len(doc) : Flat(doc)[i - 1] = "code" <=> Lexed(doc)[i - 1] \in Code
<1> DEFINE n == Len(doc)
           open == Lexed(doc)
           Bad == {i \in 0 .. n : ~OneOpen(open[i])}
<1>n. n \in Nat /\ DOMAIN doc = 1 .. n
  OBVIOUS
<1>1. open[0] = <<>> /\ \A i \in 1 .. n : open[i] = OpenBehind(open[i - 1], doc[i])
  BY LexedIs
<1>2. \A i \in 1 .. n : /\ doc[i] \in Tokens
                        /\ doc[i] = "/*" => open[i - 1] = <<>> \/ open[i - 1][1] # "/*"
                        /\ doc[i] \in Tags => open[i - 1] # <<"word">>
  BY <1>n DEF Plain
<1>f. \A i \in 0 .. n : Flat(doc)[i] = FlatOf(open[i])
  BY DEF Flat, FlatOf
<1>0. <<>> \in Code
  BY DEF Code
<1> HIDE DEF open
<1>3. ASSUME NEW i \in Bad PROVE \E k \in Bad : k < i
  <2>1. i # 0
    BY <1>1, <1>0 DEF OneOpen
  <2>2. i \in 1 .. n /\ i - 1 \in 0 .. n /\ i - 1 < i
    BY <1>n, <2>1
  <2>3. ~OneOpen(open[i - 1])
    <3>1. SUFFICES ASSUME OneOpen(open[i - 1]) PROVE FALSE
      OBVIOUS
    <3>2. OneOpen(OpenBehind(open[i - 1], doc[i]))
      BY <1>2, <2>2, <3>1, FlatStep
    <3>3. open[i] = OpenBehind(open[i - 1], doc[i])
      BY <1>1, <2>2
    <3>4. ~OneOpen(open[i])
      OBVIOUS
    <3> QED BY <3>2, <3>3, <3>4
  <2> QED BY <2>2, <2>3
<1>4. Bad = {}
  <2>1. Bad \subseteq Nat
    BY <1>n
  <2> HIDE DEF Bad
  <2> QED BY <1>3, <2>1, NoneWithoutAnEarlier
<1>5. Flat(doc)[0] = "code"
  <2>1. 0 \in 0 .. n
    BY <1>n
  <2> QED BY <1>0, <1>1, <1>f, <2>1 DEF FlatOf
<1>6. ASSUME NEW i \in 1 .. n PROVE Flat(doc)[i] = FlatBy(Flat(doc)[i - 1], doc[i])
  <2>1. i \in 0 .. n /\ i - 1 \in 0 .. n
    BY <1>n
  <2>2. OneOpen(open[i - 1])
    BY <1>4, <2>1
  <2>3. open[i] = OpenBehind(open[i - 1], doc[i])
    BY <1>1
  <2>4. FlatOf(OpenBehind(open[i - 1], doc[i])) = FlatBy(FlatOf(open[i - 1]), doc[i])
    BY <1>2, <2>2, FlatStep
  <2> QED BY <1>f, <2>1, <2>3, <2>4
<1>7. ASSUME NEW i \in 1 .. n PROVE Flat(doc)[i - 1] = "code" <=> open[i - 1] \in Code
  <2>1. i - 1 \in 0 .. n
    BY <1>n
  <2>2. OneOpen(open[i - 1]) /\ Flat(doc)[i - 1] = FlatOf(open[i - 1])
    BY <1>4, <1>f, <2>1
  <2>3. open[i - 1] \notin Code => FlatOf(open[i - 1]) # "code"
    BY <2>2 DEF OneOpen, FlatOf, Quote, Tags
  <2> QED BY <2>2, <2>3 DEF FlatOf
<1> QED BY <1>5, <1>6, <1>7 DEF open


-----------------------------------------------------------------------------
\* A separator: a semicolon that is part of nothing else.
IsEnd(doc, j) == doc[j] = ";" /\ Flat(doc)[j - 1] = "code"

\* What is begun lasts until what ends it.
LEMMA LastsUntil ==
  ASSUME NEW doc \in Seq(Tokens), Plain(doc), NEW i \in 1 .. Len(doc), NEW was, NEW token,
         Flat(doc)[i] = was,
         \A t : t # token => FlatBy(was, t) = was,
         FlatBy(was, token) = "code"
  PROVE  LET k == First(From(doc, i + 1, token), doc) IN
         /\ k \in (i + 1) .. (Len(doc) + 1)
         /\ \A j \in i .. (k - 1) : Flat(doc)[j] = was
         /\ k <= Len(doc) => doc[k] = token /\ Flat(doc)[k] = "code"
<1> DEFINE n == Len(doc)
           m == Flat(doc)
           places == From(doc, i + 1, token)
           k == First(places, doc)
<1>n. n \in Nat /\ i \in Nat /\ 1 <= i /\ i <= n
  OBVIOUS
<1>m. \A j \in 1 .. n : m[j] = FlatBy(m[j - 1], doc[j])
  BY FlatIs
<1>1. places = {j \in (i + 1) .. n : doc[j] = token}
  BY DEF From
<1>2. places \subseteq 1 .. n
  BY <1>n, <1>1
<1>3. /\ k \in places \cup {n + 1} /\ \A j \in places : k <= j
      /\ k = n + 1 => places = {}
  BY <1>2, FirstIs
<1> HIDE DEF places, k, m
<1>4. k \in (i + 1) .. (n + 1)
  BY <1>n, <1>1, <1>3
<1>5. ASSUME NEW j \in (i + 1) .. (k - 1) PROVE j \in 1 .. n /\ doc[j] # token
  <2>1. j \in (i + 1) .. n /\ ~(k <= j) /\ j \in 1 .. n
    BY <1>n, <1>4
  <2> QED BY <1>1, <1>3, <2>1
<1> DEFINE Bad == {j \in i .. (k - 1) : m[j] # was}
<1>6. ASSUME NEW j \in Bad PROVE \E h \in Bad : h < j
  <2>1. j \in i .. (k - 1) /\ m[j] # was /\ m[i] = was
    BY DEF m
  <2>2. j \in (i + 1) .. (k - 1) /\ j - 1 \in i .. (k - 1) /\ j - 1 < j
    BY <1>n, <1>4, <2>1
  <2>3. j \in 1 .. n /\ doc[j] # token
    BY <1>5, <2>2
  <2>4. m[j - 1] # was
    BY <1>m, <2>1, <2>3
  <2> QED BY <2>2, <2>4
<1>7. Bad = {}
  <2>1. Bad \subseteq Nat
    BY <1>n, <1>4
  <2> HIDE DEF Bad
  <2> QED BY <1>6, <2>1, NoneWithoutAnEarlier
<1>8. ASSUME k <= n PROVE doc[k] = token /\ m[k] = "code"
  <2>1. k # n + 1 /\ k \in 1 .. n /\ k - 1 \in i .. (k - 1)
    BY <1>n, <1>4, <1>8
  <2>2. doc[k] = token
    BY <1>1, <1>3, <2>1
  <2>3. m[k - 1] = was
    BY <1>7, <2>1
  <2> QED BY <1>m, <2>1, <2>2, <2>3
<1>9. \A j \in i .. (k - 1) : m[j] = was
  BY <1>7
<1> QED BY <1>4, <1>8, <1>9 DEF m, k, places

\* The end that the scan finds for quotes is the end.
LEMMA QuotesEnd ==
  ASSUME NEW doc \in Seq(Tokens), Plain(doc)
  PROVE  \A j \in 1 .. (Len(doc) + 1) :
           (j <= Len(doc) => Flat(doc)[j - 1] = Quote) =>
             LET a == Closing(doc)[j] IN
             /\ a <= Len(doc) => Flat(doc)[a - 1] = "code"
             /\ \A k \in j .. (a - 1) : ~IsEnd(doc, k)
<1> DEFINE n == Len(doc)
           m == Flat(doc)
           c == Closing(doc)
           Starts(j) == j <= n => m[j - 1] = Quote
           Right(j) == /\ c[j] <= n => m[c[j] - 1] = "code"
                       /\ \A k \in j .. (c[j] - 1) : ~IsEnd(doc, k)
           Bad == {j \in 1 .. (n + 1) : Starts(j) /\ ~Right(j)}
<1>n. n \in Nat /\ n + 1 \in Nat
  OBVIOUS
<1>c. \A j \in 1 .. (n + 1) : c[j] = CloseAt(c, doc, j) /\ c[j] \in j .. (n + 1)
  <2>1. \A j \in 1 .. (n + 1) : j \in 1 .. (n + 2)
    BY <1>n
  <2> QED BY <2>1, ClosingIs, ClosingBounds
<1>m. \A j \in 1 .. n : m[j] = FlatBy(m[j - 1], doc[j])
  BY FlatIs
<1>q. \A t : FlatBy(Quote, t) = IF t = Quote THEN "code" ELSE Quote
  BY DEF FlatBy, Quote
<1>r. FlatBy("code", Quote) = Quote /\ Quote # "code" /\ Quote # ";"
  BY DEF FlatBy, Quote
<1>e. \A k : IsEnd(doc, k) <=> doc[k] = ";" /\ m[k - 1] = "code"
  BY DEF IsEnd
<1> HIDE DEF c, m
<1>1. ASSUME NEW j \in 1 .. (n + 1), Starts(j), ~Right(j) PROVE \E i \in Bad : i > j
  <2>1. c[j] = CloseAt(c, doc, j) /\ j \in Nat /\ c[j] \in j .. (n + 1)
    BY <1>n, <1>c
  <2>2. CASE j > n
    <3>1. c[j] = n + 1 /\ j = n + 1
      BY <1>n, <2>1, <2>2 DEF CloseAt
    <3>2. ~(c[j] <= n) /\ j .. (c[j] - 1) = {}
      BY <1>n, <3>1
    <3> QED BY <1>1, <3>2
  <2>3. CASE j <= n /\ doc[j] # Quote
    <3>1. c[j] = c[j + 1]
      BY <1>n, <2>1, <2>3 DEF CloseAt
    <3>2. j \in 1 .. n /\ j + 1 \in 1 .. (n + 1) /\ j + 1 > j /\ (j + 1) - 1 = j
      BY <1>n, <2>3
    <3>3. m[j] = Quote /\ m[j - 1] = Quote
      BY <1>1, <1>m, <1>q, <2>3, <3>2
    <3>4. ~IsEnd(doc, j)
      BY <1>e, <1>r, <3>3
    <3>5. Starts(j + 1)
      BY <3>2, <3>3
    <3>6. \A k : k \in j .. (c[j] - 1) => k = j \/ k \in (j + 1) .. (c[j] - 1)
      BY <1>n, <2>1
    <3>7. ~Right(j + 1)
      BY <1>1, <3>1, <3>4, <3>6
    <3> QED BY <3>2, <3>5, <3>7
  <2>4. CASE j < n /\ doc[j] = Quote /\ doc[j + 1] = Quote
    <3>1. c[j] = c[j + 2]
      BY <1>n, <2>1, <2>4 DEF CloseAt
    <3>2. /\ j \in 1 .. n /\ j + 1 \in 1 .. n /\ j + 2 \in 1 .. (n + 1) /\ j + 2 > j
          /\ (j + 1) - 1 = j /\ (j + 2) - 1 = j + 1
      BY <1>n, <2>4
    <3>3. m[j] = "code" /\ m[j + 1] = Quote
      <4>1. m[j - 1] = Quote
        BY <1>1, <2>4
      <4>2. m[j] = FlatBy(Quote, Quote)
        BY <1>m, <2>4, <3>2, <4>1
      <4>3. m[j + 1] = FlatBy(m[j], Quote)
        BY <1>m, <2>4, <3>2
      <4> QED BY <1>q, <1>r, <4>2, <4>3
    <3>4. ~IsEnd(doc, j) /\ ~IsEnd(doc, j + 1)
      BY <1>e, <1>r, <2>4
    <3>5. Starts(j + 2)
      BY <3>2, <3>3
    <3>6. \A k : k \in j .. (c[j] - 1) => k = j \/ k = j + 1 \/ k \in (j + 2) .. (c[j] - 1)
      BY <1>n, <2>1
    <3>7. ~Right(j + 2)
      BY <1>1, <3>1, <3>4, <3>6
    <3> QED BY <3>2, <3>5, <3>7
  <2>5. CASE j <= n /\ doc[j] = Quote /\ ~(j < n /\ doc[j + 1] = Quote)
    <3>1. c[j] = j + 1
      BY <1>n, <2>1, <2>5 DEF CloseAt
    <3>2. j \in 1 .. n /\ (j + 1) - 1 = j /\ \A k \in j .. ((j + 1) - 1) : k = j
      BY <1>n, <2>5
    <3>3. m[j] = "code"
      BY <1>1, <1>m, <1>q, <2>5, <3>2
    <3>4. ~IsEnd(doc, j)
      BY <1>e, <1>r, <2>5
    <3>5. Right(j)
      BY <3>1, <3>2, <3>3, <3>4
    <3> QED BY <1>1, <3>5
  <2> QED BY <1>n, <2>1, <2>2, <2>3, <2>4, <2>5
<1>2. Bad = {}
  <2>1. \A j \in Bad : \E i \in Bad : i > j
    BY <1>1
  <2>2. Bad \subseteq 1 .. (n + 1)
    OBVIOUS
  <2> HIDE DEF Bad, n
  <2> QED BY <1>n, <2>1, <2>2, NoneWithoutALater
<1>3. \A j \in 1 .. (n + 1) : Starts(j) => Right(j)
  BY <1>2
<1> QED BY <1>3 DEF c, m

\* Where the scan may be: in code, or at the end of a line that is a comment.
InStep(doc, i) ==
  i <= Len(doc) => \/ Flat(doc)[i - 1] = "code"
                   \/ Flat(doc)[i - 1] = "--" /\ doc[i] = LineEnd

\* A step of the scan passes over no separator.
LEMMA ScanStep ==
  ASSUME NEW doc \in Seq(Tokens), Plain(doc), NEW i \in 1 .. Len(doc), InStep(doc, i)
  PROVE  /\ InStep(doc, After(doc, i))
         /\ \A j \in (i + 1) .. (After(doc, i) - 1) : j <= Len(doc) => ~IsEnd(doc, j)
         /\ IsEnd(doc, i) <=> doc[i] = ";"
<1> DEFINE n == Len(doc)
           m == Flat(doc)
           a == After(doc, i)
<1>n. n \in Nat /\ i \in Nat /\ 1 <= i /\ i <= n
  OBVIOUS
<1>m. m[i] = FlatBy(m[i - 1], doc[i])
  BY FlatIs
<1>e. \A k : IsEnd(doc, k) <=> doc[k] = ";" /\ m[k - 1] = "code"
  BY DEF IsEnd
<1>s. m[i - 1] = "code" \/ (m[i - 1] = "--" /\ doc[i] = LineEnd)
  BY <1>n DEF InStep
<1>i. InStep(doc, a) <=> (a <= n => m[a - 1] = "code" \/ (m[a - 1] = "--" /\ doc[a] = LineEnd))
  BY DEF InStep
<1>a. a \in (i + 1) .. (n + 2)
  BY AfterBounds
<1>1. IsEnd(doc, i) <=> doc[i] = ";"
  <2>1. LineEnd # ";"
    BY DEF LineEnd
  <2> QED BY <1>e, <1>s, <2>1
<1> DEFINE Passes == \A j \in (i + 1) .. (a - 1) : j <= n => ~IsEnd(doc, j)
<1> HIDE DEF m
<1>2. CASE m[i - 1] = "code" /\ doc[i] = "--"
  <2> DEFINE k == First(From(doc, i + 1, LineEnd), doc)
  <2>1. a = k
    BY <1>2 DEF After, Quote, Tags
  <2>2. m[i] = "--"
    BY <1>2, <1>m DEF FlatBy
  <2>3. /\ \A t : t # LineEnd => FlatBy("--", t) = "--"
        /\ FlatBy("--", LineEnd) = "code"
    BY DEF FlatBy
  <2>4. /\ k \in (i + 1) .. (n + 1) /\ \A j \in i .. (k - 1) : m[j] = "--"
        /\ k <= n => doc[k] = LineEnd
    BY <2>2, <2>3, LastsUntil DEF m
  <2> HIDE DEF k
  <2>5. \A j \in (i + 1) .. (k - 1) : ~IsEnd(doc, j)
    <3>1. \A j \in (i + 1) .. (k - 1) : j - 1 \in i .. (k - 1)
      BY <1>n, <2>4
    <3> QED BY <1>e, <2>4, <3>1
  <2>6. k - 1 \in i .. (k - 1)
    BY <1>n, <2>4
  <2>7. InStep(doc, a)
    BY <1>i, <2>1, <2>4, <2>6
  <2> QED BY <1>1, <2>1, <2>5, <2>7
<1>3. ASSUME m[i - 1] = "code", NEW token, m[i] # "code",
             \A t : t # token => FlatBy(m[i], t) = m[i], FlatBy(m[i], token) = "code",
             a = First(From(doc, i + 1, token), doc) + 1
      PROVE  InStep(doc, a) /\ Passes
  <2> DEFINE k == First(From(doc, i + 1, token), doc)
             was == m[i]
  <2>1. was = Flat(doc)[i]
    BY DEF m
  <2> HIDE DEF was
  <2>2. /\ k \in (i + 1) .. (n + 1) /\ \A j \in i .. (k - 1) : m[j] = was
        /\ k <= n => m[k] = "code"
    BY <1>3, <2>1, LastsUntil DEF m, was
  <2>3. a = k + 1
    BY <1>3
  <2> HIDE DEF k
  <2>4. ASSUME NEW j \in (i + 1) .. (a - 1) PROVE ~IsEnd(doc, j)
    <3>1. j - 1 \in i .. (k - 1)
      BY <1>n, <2>2, <2>3
    <3> QED BY <1>e, <1>3, <2>2, <3>1 DEF was
  <2>5. InStep(doc, a)
    <3>1. a <= n => k <= n /\ a - 1 = k
      BY <1>n, <2>2, <2>3
    <3> QED BY <1>i, <2>2, <3>1
  <2> QED BY <2>4, <2>5
<1>4. CASE m[i - 1] = "code" /\ doc[i] = "/*"
  <2>1. a = First(From(doc, i + 1, "*/"), doc) + 1
    BY <1>4 DEF After, Quote, Tags
  <2>2. m[i] = "/*"
    BY <1>4, <1>m DEF FlatBy
  <2>3. /\ \A t : t # "*/" => FlatBy("/*", t) = "/*"
        /\ FlatBy("/*", "*/") = "code"
    BY DEF FlatBy
  <2> QED BY <1>1, <1>3, <1>4, <2>1, <2>2, <2>3
<1>5. CASE m[i - 1] = "code" /\ doc[i] \in Tags
  <2>1. a = First(From(doc, i + 1, doc[i]), doc) + 1
    BY <1>5 DEF After, Quote, Tags
  <2>2. m[i] = doc[i]
    BY <1>5, <1>m DEF FlatBy
  <2>3. /\ \A t : t # doc[i] => FlatBy(doc[i], t) = doc[i]
        /\ FlatBy(doc[i], doc[i]) = "code" /\ doc[i] # "code"
    BY <1>5 DEF FlatBy, Tags
  <2> QED BY <1>1, <1>3, <1>5, <2>1, <2>2, <2>3
<1>6. CASE m[i - 1] = "code" /\ doc[i] = Quote
  <2>1. a = Closing(doc)[i + 1]
    BY <1>6 DEF After, Quote, Tags
  <2>2. m[i] = Quote
    BY <1>6, <1>m DEF FlatBy
  <2>3. i + 1 \in 1 .. (n + 1) /\ (i + 1) - 1 = i
    BY <1>n
  <2>4. (a <= n => m[a - 1] = "code") /\ \A k \in (i + 1) .. (a - 1) : ~IsEnd(doc, k)
    BY <2>1, <2>2, <2>3, QuotesEnd DEF m
  <2> QED BY <1>1, <1>i, <2>4
<1>7. CASE \/ m[i - 1] = "--" /\ doc[i] = LineEnd
           \/ m[i - 1] = "code" /\ doc[i] \notin {"--", "/*", Quote} \cup Tags
  <2>1. a = i + 1
    BY <1>7 DEF After, Quote, Tags, LineEnd
  <2>2. m[i] = "code"
    BY <1>7, <1>m DEF FlatBy
  <2>3. a - 1 = i /\ (i + 1) .. (a - 1) = {}
    BY <1>n, <2>1
  <2> QED BY <1>1, <1>i, <2>2, <2>3
<1> QED BY <1>s, <1>2, <1>4, <1>5, <1>6, <1>7

\* The scan finds the separators, all of them and nothing else.
LEMMA SeparatorsAreEnds ==
  ASSUME NEW doc \in Seq(Tokens), Plain(doc)
  PROVE  Separators(doc) = {j \in 1 .. Len(doc) : IsEnd(doc, j)}
<1> DEFINE n == Len(doc)
           Ends(i) == {j \in i .. n : IsEnd(doc, j)}
<1>n. n \in Nat /\ n + 2 \in Nat
  OBVIOUS
<1>1. PICK s : /\ Separators(doc) = s[1]
               /\ \A i \in 1 .. (n + 2) : s[i] = SepsAt(s, doc, i)
  BY SeparatorsAre
<1> DEFINE Bad == {i \in 1 .. (n + 2) : InStep(doc, i) /\ s[i] # Ends(i)}
<1>2. ASSUME NEW i \in 1 .. (n + 2), InStep(doc, i), s[i] # Ends(i) PROVE \E k \in Bad : k > i
  <2>s. s[i] = SepsAt(s, doc, i)
    BY <1>1
  <2>1. CASE i > n
    <3>1. s[i] = {} /\ Ends(i) = {}
      <4>1. i .. n = {}
        BY <1>n, <2>1
      <4>2. s[i] = {}
        BY <2>s, <2>1 DEF SepsAt
      <4> QED BY <4>1, <4>2
    <3> QED BY <1>2, <3>1
  <2>2. CASE i <= n
    <3> DEFINE a == After(doc, i)
    <3>1. i \in 1 .. n
      BY <1>n, <2>2
    <3>2. a \in (i + 1) .. (n + 2)
      BY <3>1, AfterBounds
    <3>3. /\ InStep(doc, a)
          /\ \A j \in (i + 1) .. (a - 1) : j <= n => ~IsEnd(doc, j)
          /\ IsEnd(doc, i) <=> doc[i] = ";"
      BY <1>2, <3>1, ScanStep
    <3>4. s[i] = (IF doc[i] = ";" THEN {i} ELSE {}) \cup s[a]
      <4>1. ~(i > n)
        BY <1>n, <2>2
      <4> QED BY <2>s, <4>1 DEF SepsAt
    <3> HIDE DEF a
    <3>5. Ends(i) = (IF doc[i] = ";" THEN {i} ELSE {}) \cup Ends(a)
      <4>1. \A j \in i .. n : j = i \/ j \in (i + 1) .. (a - 1) \/ j \in a .. n
        BY <1>n, <3>1, <3>2
      <4>2. \A j \in a .. n : j \in i .. n
        BY <1>n, <3>1, <3>2
      <4>3. i \in i .. n /\ \A j \in (i + 1) .. (a - 1) : j \in i .. n => j <= n
        BY <1>n, <3>1, <3>2
      <4> HIDE DEF n
      <4> QED BY <3>3, <4>1, <4>2, <4>3
    <3>6. s[a] # Ends(a)
      BY <1>2, <3>4, <3>5
    <3>7. a \in 1 .. (n + 2) /\ a > i
      BY <1>n, <3>1, <3>2
    <3> QED BY <3>3, <3>6, <3>7
  <2> QED BY <1>n, <2>1, <2>2
<1>3. Bad = {}
  <2>1. \A i \in Bad : \E k \in Bad : k > i
    BY <1>2
  <2>2. Bad \subseteq 1 .. (n + 2)
    OBVIOUS
  <2> HIDE DEF Bad, n
  <2> QED BY <1>n, <2>1, <2>2, NoneWithoutALater
<1>4. InStep(doc, 1) /\ 1 \in 1 .. (n + 2)
  <2>1. Flat(doc)[1 - 1] = "code"
    BY FlatIs
  <2> QED BY <1>n, <2>1 DEF InStep
<1>5. s[1] = Ends(1)
  BY <1>3, <1>4
<1> QED BY <1>1, <1>5


\* What a run takes of any text, wherever the cursor is, is one statement.
LEMMA OneIsSent ==
  ASSUME NEW doc \in Seq(Tokens), Plain(doc), NEW head \in Nat, StatementToRun(doc, head) # <<>>
  PROVE  \E lo, hi \in {i \in DOMAIN doc : doc[i] = ";" /\ Lexed(doc)[i - 1] \in Code}
                         \cup {0, Len(doc) + 1} :
           /\ lo < hi /\ lo <= head
           /\ \A e \in {i \in DOMAIN doc : doc[i] = ";" /\ Lexed(doc)[i - 1] \in Code} :
                e <= lo \/ e >= hi
           /\ StatementToRun(doc, head) = Trim(SubSeq(doc, lo + 1, hi - 1))
<1> DEFINE n == Len(doc)
           ends == {i \in DOMAIN doc : doc[i] = ";" /\ Lexed(doc)[i - 1] \in Code}
           all == {0, n + 1} \cup ends
           ranges == SplitStatements(doc)
           chosen == {r \in ranges : r.from <= head /\ head <= r.to /\ HasSql(Text(doc, r))}
           before == {r \in ranges : r.to <= head /\ HasSql(Text(doc, r))}
           last == {r \in before : \A q \in before : q.to <= r.to}
           taken == StatementToRun(doc, head)
<1>n. n \in Nat /\ DOMAIN doc = 1 .. n
  OBVIOUS
<1>1. Separators(doc) = ends
  <2>1. Separators(doc) = {j \in 1 .. n : IsEnd(doc, j)}
    BY SeparatorsAreEnds
  <2>2. ASSUME NEW j \in 1 .. n
        PROVE  IsEnd(doc, j) <=> doc[j] = ";" /\ Lexed(doc)[j - 1] \in Code
    BY <1>n, FlatIs DEF IsEnd
  <2> QED BY <1>n, <2>1, <2>2
<1>2. ASSUME NEW r \in ranges
      PROVE  \E p \in {q \in all \X all :
                        q[1] < q[2] /\ \A e \in all : ~(q[1] < e /\ e < q[2])} :
               r = [from |-> p[1], to |-> p[2] - 1]
  <2> HIDE DEF ends
  <2> QED BY <1>1 DEF SplitStatements
<1>3. taken = (IF chosen # {} THEN Trim(Text(doc, CHOOSE r \in chosen : TRUE))
              ELSE IF last # {} THEN Trim(Text(doc, CHOOSE r \in last : TRUE)) ELSE <<>>)
  BY DEF StatementToRun
<1>4. ends \subseteq 1 .. n
  BY <1>n
<1> HIDE DEF taken, ranges, ends
<1>5. \E r \in ranges : taken = Trim(Text(doc, r)) /\ (r.from <= head \/ r.to <= head)
  <2>1. CASE chosen # {}
    <3> DEFINE r == CHOOSE x \in chosen : TRUE
    <3>1. r \in chosen /\ taken = Trim(Text(doc, r))
      BY <1>3, <2>1
    <3> HIDE DEF r
    <3> QED BY <3>1
  <2>2. CASE chosen = {}
    <3> DEFINE r == CHOOSE x \in last : TRUE
    <3>1. last # {}
      BY <1>3, <2>2 DEF taken
    <3>2. r \in last /\ taken = Trim(Text(doc, r))
      BY <1>3, <2>2, <3>1
    <3> HIDE DEF r
    <3>3. r \in before
      BY <3>2
    <3> QED BY <3>2, <3>3
  <2> QED BY <2>1, <2>2
<1>6. PICK r \in ranges : taken = Trim(Text(doc, r)) /\ (r.from <= head \/ r.to <= head)
  BY <1>5
<1>7. PICK p \in all \X all :
        /\ p[1] < p[2] /\ \A e \in all : ~(p[1] < e /\ e < p[2])
        /\ r = [from |-> p[1], to |-> p[2] - 1]
  BY <1>2
<1> DEFINE lo == p[1]
           hi == p[2]
<1>8. /\ lo \in all /\ hi \in all /\ lo < hi /\ \A e \in all : ~(lo < e /\ e < hi)
      /\ r.from = lo /\ r.to = hi - 1
  BY <1>7
<1> HIDE DEF lo, hi
<1>9. lo \in Nat /\ hi \in Nat /\ \A e \in ends : e \in Nat
  BY <1>n, <1>4, <1>8
<1>10. taken = Trim(SubSeq(doc, lo + 1, hi - 1))
  BY <1>6, <1>8 DEF Text
<1>11. \A e \in ends : e <= lo \/ e >= hi
  BY <1>8, <1>9
<1>12. lo <= head
  <2>1. CASE r.from <= head
    BY <1>8, <2>1
  <2>2. CASE r.to <= head
    BY <1>8, <1>9, <2>2
  <2> QED BY <1>6, <2>1, <2>2
<1>13. lo \in ends \cup {0, n + 1} /\ hi \in ends \cup {0, n + 1}
  BY <1>8
<1>14. \E x, y \in ends \cup {0, n + 1} :
         /\ x < y /\ x <= head /\ \A e \in ends : e <= x \/ e >= y
         /\ taken = Trim(SubSeq(doc, x + 1, y - 1))
  <2> HIDE DEF n
  <2> QED BY <1>8, <1>10, <1>11, <1>12, <1>13
<1> QED BY <1>14 DEF taken, ends

\* The text is one of tokens, and an insertion that is awaited is of one of them.
SqlTextAt(e) ==
  /\ e.doc \in Seq(Tokens)
  /\ e.awaited # NoInsertion => /\ e.awaited[1] \in Nat /\ e.awaited[2] = e.awaited[1] + 1
  /\ DOMAIN e = {"doc", "awaited"}

LEMMA FreshSqlTextAt == SqlTextAt(FreshEditor)
BY DEF SqlTextAt, FreshEditor, NoInsertion

LEMMA SqlTextKeeps ==
  ASSUME SqlTextAt(editor), EditorActs
  PROVE  SqlTextAt(editor')
<1> DEFINE doc == editor.doc
<1>1. /\ doc \in Seq(Tokens) /\ Len(doc) \in Nat /\ DOMAIN editor = {"doc", "awaited"}
      /\ editor.awaited # NoInsertion
           => /\ editor.awaited[1] \in Nat /\ editor.awaited[2] = editor.awaited[1] + 1
  BY DEF SqlTextAt
<1> HIDE DEF doc
<1>2. ASSUME NEW at \in 0 .. MaxTokens, Erase(at) PROVE SqlTextAt(editor')
  <2> DEFINE new == RemoveAt(doc, at)
  <2>1. new \in Seq(Tokens)
    <3>1. at \in 1 .. Len(doc)
      BY <1>1, <1>2 DEF Erase, doc
    <3> QED BY <1>1, <3>1 DEF RemoveAt
  <2>2. editor' = [editor EXCEPT !.doc = new]
    BY <1>2 DEF Erase, doc
  <2> HIDE DEF new
  <2>3. editor'.doc = new /\ editor'.awaited = editor.awaited /\ DOMAIN editor' = DOMAIN editor
    BY <1>1, <2>2
  <2> QED BY <1>1, <2>1, <2>3 DEF SqlTextAt
<1>3. ASSUME NEW at \in 0 .. MaxTokens, ChooseTemplate(at) PROVE SqlTextAt(editor')
  <2> DEFINE new == <<at - 1, at>>
  <2>1. at \in 1 .. Len(doc)
    BY <1>1, <1>3 DEF ChooseTemplate, doc
  <2>2. new[1] \in Nat /\ new[2] = new[1] + 1
    BY <1>1, <2>1
  <2>3. editor' = [editor EXCEPT !.awaited = new]
    BY <1>3 DEF ChooseTemplate
  <2> HIDE DEF new
  <2>4. editor'.doc = editor.doc /\ editor'.awaited = new /\ DOMAIN editor' = DOMAIN editor
    BY <1>1, <2>3
  <2> QED BY <1>1, <2>2, <2>4 DEF SqlTextAt, doc
<1>4. ASSUME NEW at \in 0 .. MaxTokens, NEW token \in Tokens, Type(at, token)
      PROVE  SqlTextAt(editor')
  <2> DEFINE new == InsertAt(doc, at + 1, token)
  <2>1. new \in Seq(Tokens)
    <3>1. at \in 0 .. Len(doc)
      BY <1>4 DEF Type, doc
    <3> QED BY <1>1, <3>1 DEF InsertAt
  <2>2. editor' = [editor EXCEPT !.doc = new]
    BY <1>4 DEF Type, doc
  <2> HIDE DEF new
  <2>3. editor'.doc = new /\ editor'.awaited = editor.awaited /\ DOMAIN editor' = DOMAIN editor
    BY <1>1, <2>2
  <2> QED BY <1>1, <2>1, <2>3 DEF SqlTextAt
<1>5. CASE BodyArrives
  <2> DEFINE from == editor.awaited[1]
             to == editor.awaited[2]
             new == SubSeq(doc, 1, from) \o Body \o SubSeq(doc, to + 1, Len(doc))
  <2>1. from \in Nat /\ to = from + 1
    BY <1>1, <1>5 DEF BodyArrives
  <2>2. CASE to > Len(doc)
    <3>1. editor' = [editor EXCEPT !.awaited = NoInsertion]
      BY <1>5, <2>2 DEF BodyArrives, doc
    <3>2. editor'.doc = editor.doc /\ editor'.awaited = NoInsertion
          /\ DOMAIN editor' = DOMAIN editor
      BY <1>1, <3>1
    <3> QED BY <1>1, <3>2 DEF SqlTextAt, doc
  <2>3. CASE ~(to > Len(doc))
    <3>1. editor' = [doc |-> new, awaited |-> NoInsertion]
      BY <1>5, <2>3 DEF BodyArrives, doc
    <3>2. new \in Seq(Tokens)
      <4> HIDE DEF from, to
      <4>1. SubSeq(doc, 1, from) \in Seq(Tokens)
        BY <1>1, <2>1, <2>3, SubSeqProperties
      <4>2. SubSeq(doc, to + 1, Len(doc)) \in Seq(Tokens)
        BY <1>1, <2>1, <2>3, SubSeqProperties
      <4> QED BY <4>1, <4>2, EditorAssumption
    <3> HIDE DEF new
    <3> QED BY <3>1, <3>2 DEF SqlTextAt
  <2> QED BY <2>2, <2>3
<1>6. CASE BodyFails
  <2>1. editor' = [editor EXCEPT !.awaited = NoInsertion]
    BY <1>6 DEF BodyFails
  <2>2. editor'.doc = editor.doc /\ editor'.awaited = NoInsertion
        /\ DOMAIN editor' = DOMAIN editor
    BY <1>1, <2>1
  <2> QED BY <1>1, <2>2 DEF SqlTextAt, doc
<1> QED BY <1>2, <1>3, <1>4, <1>5, <1>6 DEF EditorActs

LEMMA SqlTextSends ==
  ASSUME SqlTextAt(editor)
  PROVE  SendsOneStatement
<1> SUFFICES ASSUME Plain(editor.doc) PROVE SendsOneStatement
  BY DEF SendsOneStatement
<1>1. editor.doc \in Seq(Tokens)
  BY DEF SqlTextAt
<1>2. ASSUME NEW head \in 0 .. Len(editor.doc), StatementToRun(editor.doc, head) # <<>>
      PROVE  \E lo, hi \in {i \in DOMAIN editor.doc :
                             editor.doc[i] = ";" /\ Lexed(editor.doc)[i - 1] \in Code}
                           \cup {0, Len(editor.doc) + 1} :
               /\ lo < hi /\ lo <= head
               /\ \A e \in {i \in DOMAIN editor.doc :
                           editor.doc[i] = ";" /\ Lexed(editor.doc)[i - 1] \in Code} :
                    e <= lo \/ e >= hi
               /\ StatementToRun(editor.doc, head)
                    = Trim(SubSeq(editor.doc, lo + 1, hi - 1))
  <2>1. head \in Nat
    BY <1>1
  <2> QED BY <1>1, <1>2, <2>1, OneIsSent
<1> QED BY <1>2 DEF SendsOneStatement

LEMMA SqlTextStep ==
  ASSUME SqlTextAt(editor), [UiNext]_allVars
  PROVE  SqlTextAt(editor')
<1>1. CASE Kept("editor") \/ Fresh("editor")
  BY <1>1, FreshSqlTextAt DEF Kept, Fresh
<1>2. CASE Gone("editor")
  BY <1>2, FreshSqlTextAt DEF Gone
<1>3. CASE EditorActs
  BY <1>3, SqlTextKeeps
<1> QED BY <1>1, <1>2, <1>3, UiSteps DEF Does, Parts

\* For every text of any length, wherever the cursor is and whatever the text's quotes,
\* comments and blocks leave open, with templates whose bodies come late: a run takes
\* all of one statement as the lexical rules of Postgres give it, never two, nor a part
\* of one, nor one that begins behind the cursor -- in the texts that are Plain, where the
\* scanner's simplifications change nothing.
THEOREM RunsSendOneStatement == UiSpec => []SendsOneStatement
<1>1. UiInit => SqlTextAt(editor)
  BY FreshSqlTextAt DEF UiInit, EditorInit
<1>2. SqlTextAt(editor) /\ [UiNext]_allVars => SqlTextAt(editor)'
  BY SqlTextStep
<1>3. SqlTextAt(editor) => SendsOneStatement
  BY SqlTextSends
<1> QED BY <1>1, <1>2, <1>3, PTL DEF UiSpec
=============================================================================
