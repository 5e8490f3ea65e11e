---------------------------- MODULE BucketBrowser ----------------------------
(***************************************************************************)
(* The object browser of a MinIO service: the bucket dropdown, the listing *)
(* of one folder with its selection and side panels, deletions with their  *)
(* confirmation, and uploads.  The store behind it is others' too, so a    *)
(* listing answers with any of the entries a folder may have.              *)
(***************************************************************************)
EXTENDS AsyncLoad, UploadPool

CONSTANTS
  Buckets,         \* names of buckets
  DefaultBucket,   \* the bucket of the profile's config, or Nothing
  Entries,         \* objects and folders, each listed at one level
  Level,           \* [Entries -> Folders]: the folder an entry is listed in
  Folders,         \* folders that can be shown; those that are entries have a row
  Root             \* the prefix "": the top of a bucket

VARIABLE browser

Objects == Entries \ Folders

\* The listing of a folder of a bucket, as the server may answer.
Listings(at) == [of : {at}, entries : SUBSET {e \in Entries : Level[e] = at[2]}]
AllListings == UNION {Listings(at) : at \in Buckets \X Folders}

\* MinioBrowser before its buckets are known, and BucketContents as it is mounted,
\* keyed by the bucket.
NoContents == [prefix |-> Root, listing |-> Mounted(<<Nothing, Root>>),
  selected |-> Nothing, checked |-> {}, dialog |-> "none", shown |-> {},
  deleting |-> {}, uploads |-> FALSE]
Contents(b) == [NoContents EXCEPT !.listing = Mounted(<<b, Root>>)]
FreshBrowser == Mounting(NoContents, [buckets |-> Mounted(Nothing), bucket |-> Nothing])
-----------------------------------------------------------------------------
\* What is on the screen follows from the state.

At(w) == <<w.bucket, w.prefix>>
Listed(w) == IF HasData(w.listing) THEN w.listing.data.entries ELSE {}

\* The checked entries that are listed; one object alone is shown as if selected.
CheckedHere(w) == w.checked \cap Listed(w)
Lone(w) == IF \E o \in Objects : CheckedHere(w) = {o} THEN CheckedHere(w) ELSE {}
ShowSelection(w) == w.checked # {} /\ Lone(w) = {}

\* The entries each side panel is open on.
Detail(w) == IF ShowSelection(w) THEN {}
             ELSE IF w.selected # Nothing THEN {w.selected} ELSE Lone(w)
Selection(w) == IF ShowSelection(w) THEN CheckedHere(w) ELSE {}
OpenOn(w, panel) == IF panel = "object" THEN Detail(w) ELSE Selection(w)

\* After every change the panels keep what they last showed while they collapse;
\* it matters while their confirmation is open.
Rendered(w) ==
  [w EXCEPT !.shown = IF w.dialog = "none" THEN {}
                      ELSE IF OpenOn(w, w.dialog) # {} THEN OpenOn(w, w.dialog)
                      ELSE @]

\* A confirmation is modal: nothing behind it can be clicked.
Free(w) == w.bucket # Nothing /\ w.dialog = "none"
-----------------------------------------------------------------------------
\* Buckets.

\* An effect picks a bucket once they are listed: the configured one, or the first.
BucketsListed(bs) ==
  /\ Pending(browser.buckets)
  /\ LET loaded == [browser EXCEPT !.buckets = Succeeded(@, [of |-> Nothing, names |-> bs])]
     IN IF bs = {} THEN browser' = loaded
        ELSE \E b \in IF DefaultBucket \in bs THEN {DefaultBucket} ELSE bs :
               browser' = Mounting(Contents(b), [loaded EXCEPT !.bucket = b])

BucketsFail ==
  /\ Pending(browser.buckets)
  /\ browser' = [browser EXCEPT !.buckets = Failed(@)]

\* Another bucket mounts other contents: what was selected, asked or awaited there
\* is dropped, except that its uploads go on.
SelectBucket(b) ==
  /\ Free(browser)
  /\ b \in browser.buckets.data.names \ {browser.bucket}
  /\ browser' = Mounting(Contents(b), [browser EXCEPT !.bucket = b])
-----------------------------------------------------------------------------
\* The listing.

Reload(w) == [w EXCEPT !.listing = Reloaded(@, At(w))]
ClearSelection(w) == [w EXCEPT !.selected = Nothing, !.checked = {}]

\* A breadcrumb, or the row of a folder: the selection belongs to one level.
Navigate(p) ==
  /\ Free(browser)
  /\ p # browser.prefix
  /\ p = Root \/ p \in Listed(browser)
  /\ browser' = Reload(ClearSelection([browser EXCEPT !.prefix = p]))

Answer(data) ==
  /\ browser.bucket # Nothing /\ Pending(browser.listing)
  /\ data \in Listings(browser.listing.key)
  /\ browser' = Rendered([browser EXCEPT !.listing = Succeeded(@, data)])

\* Unreachable server or store.
ListingFails ==
  /\ browser.bucket # Nothing /\ Pending(browser.listing)
  /\ browser' = Rendered([browser EXCEPT !.listing = Failed(@)])

AnswerLate(data) ==
  /\ browser.listing.late # Nothing
  /\ data \in Listings(browser.listing.late)
  /\ browser' = Rendered([browser EXCEPT !.listing = LateAnswer(@, data)])

\* A row opens its object; boxes select several entries. Each clears the other.
OpenObject(e) ==
  /\ Free(browser) /\ e \in Listed(browser) \cap Objects
  /\ browser' = [browser EXCEPT !.checked = {}, !.selected = e]

Toggle(e) ==
  /\ Free(browser) /\ e \in Listed(browser)
  /\ browser' = [browser EXCEPT !.selected = Nothing,
       !.checked = IF e \in @ THEN @ \ {e} ELSE @ \cup {e}]

ToggleAll ==
  /\ Free(browser) /\ Listed(browser) # {}
  /\ browser' = [browser EXCEPT !.selected = Nothing,
       !.checked = IF Listed(browser) \subseteq @ THEN {} ELSE Listed(browser)]

ClosePanel ==
  /\ Free(browser) /\ \E panel \in {"object", "selection"} : OpenOn(browser, panel) # {}
  /\ browser' = ClearSelection(browser)
-----------------------------------------------------------------------------
\* Deletion of what a panel shows, after a confirmation.

AskDelete(panel) ==
  /\ Free(browser) /\ browser.deleting = {}
  /\ OpenOn(browser, panel) # {}
  /\ browser' = Rendered([browser EXCEPT !.dialog = panel])

CancelDelete ==
  /\ browser.dialog # "none"
  /\ browser' = Rendered([browser EXCEPT !.dialog = "none"])

\* Variant for the checks: what is checked goes, listed or not.
AllChecked(w) == IF w.selected # Nothing THEN {w.selected} ELSE w.checked

\* The listing may have changed under the open dialog: the request names what is
\* checked and listed now, or the object that is still shown.
Requested(w) == IF w.dialog = "object" THEN Detail(w) ELSE CheckedHere(w)

\* deleting holds what was asked: where, from which panel, and what that panel showed.
ConfirmDelete ==
  /\ browser.dialog # "none"
  /\ LET w == browser IN
     browser' = Rendered([w EXCEPT !.dialog = "none",
       !.deleting = IF w.dialog = "object" /\ Detail(w) = {} THEN {}
                    ELSE {[at |-> At(w), panel |-> w.dialog, entries |-> Requested(w), shown |-> w.shown]}])

\* Success clears the selection, made meanwhile or not, and reloads.
DeleteSucceeds ==
  /\ browser.deleting # {}
  /\ browser' = Reload(ClearSelection([browser EXCEPT !.deleting = {}]))

DeleteFails ==
  /\ browser.deleting # {}
  /\ browser' = [browser EXCEPT !.deleting = {}]
-----------------------------------------------------------------------------
\* Uploads: a drop or the file picker, into the folder that is shown.

Upload(n) ==
  /\ Free(browser) /\ ~browser.uploads
  /\ Start(n)
  /\ browser' = [browser EXCEPT !.uploads = TRUE]

\* onComplete reloads the listing of the contents that started the batch, if they
\* are still mounted, in whatever folder they are by then.
UploadsEnd ==
  /\ Finish
  /\ browser' = IF browser.uploads
                THEN Rendered(Reload([browser EXCEPT !.uploads = FALSE])) ELSE browser

UploadAnswered ==
  /\ \E f \in busy : Uploaded(f) \/ UploadFailed(f)
  /\ UNCHANGED browser

\* A batch goes on when its page is left, so this half of the step needs no page.
PoolRuns == UploadAnswered \/ UploadsEnd

BrowserInit == browser = FreshBrowser /\ PoolInit

BrowserActs ==
  \/ \E bs \in SUBSET Buckets : BucketsListed(bs)
  \/ BucketsFail
  \/ \E b \in Buckets : SelectBucket(b)
  \/ \E p \in Folders : Navigate(p)
  \/ \E d \in AllListings : Answer(d) \/ AnswerLate(d)
  \/ ListingFails \/ ToggleAll \/ ClosePanel
  \/ \E e \in Entries : OpenObject(e) \/ Toggle(e)
  \/ \E panel \in {"object", "selection"} : AskDelete(panel)
  \/ CancelDelete \/ ConfirmDelete \/ DeleteSucceeds \/ DeleteFails

BrowserNext ==
  \/ BrowserActs /\ UNCHANGED poolVars
  \/ \E n \in 1..MaxFiles : Upload(n)
  \/ PoolRuns

BrowserSpec == BrowserInit /\ [][BrowserNext]_<<browser, poolVars>>
-----------------------------------------------------------------------------
\* The listing on the screen is that of the bucket and folder on the screen, though
\* reloads and navigation abort requests whose answers come in all the same.
ListingIsCurrent ==
  browser.bucket # Nothing => ShownFor(browser.listing, At(browser))

\* A deletion names only entries of the folder it is asked in, though a selection
\* outlives the listing it was made on, and the one object that is shown when it is
\* asked for one object, though the listing is reloaded under the open dialog.  (A
\* dialog for several entries deletes what is checked and listed when it is
\* confirmed, which may differ from what the dialog counts.)
DeletesWhatIsShown ==
  \A r \in browser.deleting :
    /\ \A e \in r.entries : Level[e] = r.at[2]
    /\ r.panel = "object" => r.entries = r.shown
=============================================================================
