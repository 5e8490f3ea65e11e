---------------------------------- MODULE Ui ----------------------------------
(***************************************************************************)
(* The screens of the UI.  The hash selects one; what a screen's           *)
(* components keep is made when they are mounted and lost when they are    *)
(* unmounted, at any moment: by a link, by the browser's history, or by a  *)
(* reload of the service's page, which shows a skeleton first.             *)
(*                                                                         *)
(* The parts of one screen (the console's tabs, one console and its        *)
(* editor; the region's header and the views below it; the dialogs of a    *)
(* service and the rest of its page) share nothing but the moment they are *)
(* mounted, so the model has one part mounted at a time.                   *)
(***************************************************************************)
EXTENDS BucketBrowser, RedisPage, RegionHeader, CloudLists, ServiceDialogs,
        BackupsList, ConsoleTabs, SqlConsole, SqlEditor, JenkinsPage, TemplatesScreen,
        ProfilesNav

\* The part that is mounted, or "none".
VARIABLE screen

headerVars == <<header, storedRegion>>

allVars == <<screen, browser, poolVars, redis, headerVars, cloudVars, svcVars, backupsVars,
             tabsVars, consoleVars, editor, jenkinsVars, templatesVars, navVars>>

Parts == {"minio", "redis", "header", "cloud", "dialogs", "backups", "tabs", "console", "editor",
          "jenkins", "templates", "profiles"}

NothingWritten == [b \in Builds |-> 0]

\* A part is mounted, with whatever the server and the browser's storage have by then.
Fresh(part) ==
  CASE part = "minio"   -> browser' = FreshBrowser
    [] part = "redis"   -> redis' = FreshRedis
    [] part = "header"  -> /\ storedRegion' \in Regions \cup {Nothing}
                           /\ header' = FreshHeader(storedRegion')
    [] part = "cloud"   -> /\ \E r \in AllRegions : cloud' = FreshCloud(r)
                           /\ owned' \in [Lists \X AllRegions -> SUBSET Names]
    [] part = "dialogs" -> svc' = FreshSvc /\ saved' \in Settings
    [] part = "backups" -> /\ backups' = FreshBackups /\ kept' = SessionIds
                           /\ underway' \in {{}} \cup {{s} : s \in SessionIds}
    [] part = "tabs"    -> UNCHANGED tabsVars
    [] part = "console" -> console' = FreshConsole /\ table' \in [TableRows -> Cells]
    [] part = "editor"  -> editor' = FreshEditor
    [] part = "jenkins" -> jenkins' = FreshJenkins /\ written' = NothingWritten /\ ended' = {}
    [] part = "templates" -> /\ templates' = FreshTemplates
                             /\ texts' \in [TemplateNames -> SqlTexts \cup {Nothing}]
    [] part = "profiles"  -> /\ nav' = FreshNav /\ services' \in SUBSET ServiceIds
                             /\ \E a \in ProfileNames :
                                  profiles' = [names |-> ProfileNames, active |-> a]

\* A part that is not mounted keeps nothing: in the model, it is in one fresh state.
NoCloud == FreshCloud(CHOOSE r \in AllRegions : TRUE)
NoQueues == [at \in Lists \X AllRegions |-> {}]
NoSettings == CHOOSE c \in Settings : TRUE
NoTexts == [n \in TemplateNames |-> Nothing]
NoProfiles == [names |-> {Item}, active |-> Item]
NoTable == [k \in TableRows |-> CHOOSE c \in Cells : TRUE]

Gone(part) ==
  CASE part = "minio"   -> browser' = FreshBrowser
    [] part = "redis"   -> redis' = FreshRedis
    [] part = "header"  -> storedRegion' = Nothing /\ header' = FreshHeader(Nothing)
    [] part = "cloud"   -> cloud' = NoCloud /\ owned' = NoQueues
    [] part = "dialogs" -> svc' = FreshSvc /\ saved' = NoSettings
    [] part = "backups" -> backups' = FreshBackups /\ kept' = SessionIds /\ underway' = {}
    [] part = "tabs"    -> /\ tabs' = [w \in Windows |-> Nothing]
                           /\ stored' = [at \in Connections |-> NoTabs] /\ opened' = 1
    [] part = "console" -> console' = FreshConsole /\ table' = NoTable
    [] part = "editor"  -> editor' = FreshEditor
    [] part = "jenkins" -> jenkins' = FreshJenkins /\ written' = NothingWritten /\ ended' = {}
    [] part = "templates" -> templates' = FreshTemplates /\ texts' = NoTexts
    [] part = "profiles"  -> nav' = FreshNav /\ profiles' = NoProfiles /\ services' = {}

Kept(part) ==
  CASE part = "minio"   -> UNCHANGED browser
    [] part = "redis"   -> UNCHANGED redis
    [] part = "header"  -> UNCHANGED headerVars
    [] part = "cloud"   -> UNCHANGED cloudVars
    [] part = "dialogs" -> UNCHANGED svcVars
    [] part = "backups" -> UNCHANGED backupsVars
    [] part = "tabs"    -> UNCHANGED tabsVars
    [] part = "console" -> UNCHANGED consoleVars
    [] part = "editor"  -> UNCHANGED editor
    [] part = "jenkins" -> UNCHANGED jenkinsVars
    [] part = "templates" -> UNCHANGED templatesVars
    [] part = "profiles"  -> UNCHANGED navVars

OthersKept(part) == \A p \in Parts \ {part} : Kept(p)
-----------------------------------------------------------------------------
\* The uploads of a screen that was left go on; in the model they end before another
\* part is mounted, which has a batch of its own.
NewPool ==
  /\ running' = FALSE /\ busy' = {}
  /\ total' = 0 /\ next' = 0 /\ done' = 0 /\ failed' = 0
  /\ sent' = [f \in 1..MaxFiles |-> 0]

Mount(part) ==
  /\ screen = "none" /\ ~running
  /\ screen' = part
  /\ Fresh(part) /\ NewPool
  /\ OthersKept(part)

\* What the components await is answered to nobody.  The changes they sent go on at the
\* server and may be carried out when the part is mounted again: they are among those
\* that others make (OthersSave, OthersRemove, ...), whose answers its components do not
\* get either.  A console's requests go on too (CloseTab); in the model they end before
\* another part is mounted.
Unmount(part) ==
  /\ screen = part
  /\ part = "console" => ~console.mounted /\ console.requests = {} /\ console.change = {}
  /\ screen' = "none"
  /\ Gone(part)
  /\ OthersKept(part) /\ UNCHANGED poolVars

UploadsGoOn ==
  /\ PoolRuns
  /\ screen \in {"none", "minio"} /\ UNCHANGED screen
  /\ OthersKept("minio")

\* A step of the part that is mounted.
Works(part) ==
  /\ screen = part /\ UNCHANGED screen
  /\ OthersKept(part)
MinioWorks ==
  /\ Works("minio")
  /\ \/ BrowserActs /\ UNCHANGED poolVars
     \/ \E n \in 1..MaxFiles : Upload(n)
OtherWorks(part) == Works(part) /\ UNCHANGED poolVars

UiInit ==
  /\ screen = "none"
  /\ BrowserInit /\ RedisInit /\ HeaderInit /\ TabsInit /\ EditorInit
  /\ cloud = NoCloud /\ owned = NoQueues
  /\ svc = FreshSvc /\ saved = NoSettings
  /\ backups = FreshBackups /\ kept = SessionIds /\ underway = {}
  /\ console = FreshConsole /\ table = NoTable
  /\ JenkinsInit
  /\ templates = FreshTemplates /\ texts = NoTexts
  /\ nav = FreshNav /\ profiles = NoProfiles /\ services = {}

UiNext ==
  \/ \E part \in Parts : Mount(part) \/ Unmount(part)
  \/ UploadsGoOn
  \/ MinioWorks
  \/ OtherWorks("redis") /\ RedisActs
  \/ OtherWorks("header") /\ HeaderActs
  \/ OtherWorks("cloud") /\ CloudActs
  \/ OtherWorks("dialogs") /\ SvcActs
  \/ OtherWorks("backups") /\ BackupsActs
  \/ OtherWorks("tabs") /\ TabsActs
  \/ OtherWorks("console") /\ ConsoleActs
  \/ OtherWorks("editor") /\ EditorActs
  \/ OtherWorks("jenkins") /\ JenkinsActs
  \/ OtherWorks("templates") /\ TemplatesActs
  \/ OtherWorks("profiles") /\ NavActs

UiSpec == UiInit /\ [][UiNext]_allVars
-----------------------------------------------------------------------------
\* What a screen shows is what its controls select, though answers to what they
\* selected before still come in: the listing of the bucket's folder, the keys and the
\* value of the database, the health and the list of the region, the log of the
\* build, whole up to what the server cuts off; and the console of Redis says that a
\* command runs exactly while it does.
ScreenIsCurrent ==
  /\ ListingIsCurrent /\ KeysAreCurrent /\ HealthIsCurrent /\ ListIsCurrent
  /\ LogIsHonest /\ BuildLogIsWhole

\* Once its changes are answered, a screen shows what they made of the server's data:
\* the list of queues or identities, the settings of a service, the page of sessions,
\* the rows of a table, the templates, the profiles; no answer from before a change of
\* its own stays on the screen.  What others change meanwhile, those changes among them
\* that were sent before the screen was left, need not show before the next load.
ChangesAreShown ==
  /\ ChangesShow /\ SettingsShow /\ RowsAreKept /\ EditsShow
  /\ TemplatesShow /\ ProfilesShow

\* A request that changes something is for what the user was shown when it was asked:
\* the object, the row, the snapshot of the chosen profile, the highlighted region, the
\* template in the editor.
ActsOnWhatIsShown ==
  /\ DeletesWhatIsShown /\ EditsWhatIsShown /\ AsksForWhatWasOffered /\ HighlightIsListed
  /\ UpdatesItsOwnText
=============================================================================
