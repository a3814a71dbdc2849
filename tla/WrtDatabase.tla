---------------------------- MODULE WrtDatabase ----------------------------
(***************************************************************************)
(* The wrt database of one thread, in operation: calls of the data access  *)
(* objects run one statement at a time inside a ScopedTransaction, over    *)
(* the transaction depth of ThreadDatabaseSupport and thread-local queries *)
(* that outlive the call.  A statement may be refused by SQLite or fail    *)
(* with the disk, and the process may be killed between any two steps.     *)
(***************************************************************************)
EXTENDS GlobalDao, ConfigData

CONSTANTS
  Handles, Infos, Pkgnames, Preferences, Urls, Forms,   \* see WidgetRegistry
  Libraries,        \* library names of plugins
  Capabilities,     \* sets of device capabilities of a feature
  GlobalColumns,    \* the columns of GlobalProperties that are set
  WhiteURIs,
  MaxDependencies,  \* bounds the dependencies of a library
  MaxWidgets,       \* bounds the widget_feature_ids ever given
  Roles,            \* the sets of calls that one process makes
  MaxFaults,        \* bounds the queries that a failing disk leaves behind
  W                 \* the width of size_t: the depth counts modulo W

ASSUME WAssumption == W \in Nat /\ W > 2
ASSUME InfosAssumption == \A info \in Infos : IsWidgetRegisterInfo(info)

VARIABLES
  disk,      \* what is committed
  db,        \* what the connection sees
  open,      \* BEGIN was executed, neither COMMIT nor ROLLBACK since
  depth,     \* TransactionDepth
  cancel,    \* TransactionCancel
  stale,     \* the queries whose Step threw: Reset was skipped
  call,      \* the call in progress, or Idle
  role       \* the calls this process makes

vars == << disk, db, open, depth, cancel, stale, call, role >>

Idle == [op |-> "none", todo |-> <<>>, scoped |-> FALSE, committed |-> FALSE]

Init ==
  /\ disk = [EmptyDatabase EXCEPT !.rows["GlobalProperties"] = << DefaultProperties >>]
  /\ db = disk
  /\ open = FALSE /\ depth = 0 /\ cancel = FALSE
  /\ stale = {}
  /\ call = Idle
  /\ role \in Roles

-----------------------------------------------------------------------------
(* ThreadDatabaseSupport *)

TransactionBegin ==
  /\ depth' = (depth + 1) % W
  /\ IF depth' = 1
     THEN cancel' = FALSE /\ open' = TRUE
     ELSE UNCHANGED << cancel, open >>

(* TransactionUnref; "cancelled" is TransactionCancel by then. *)
TransactionUnref(cancelled) ==
  /\ depth' = (depth + W - 1) % W
  /\ cancel' = cancelled
  /\ IF depth' # 0
     THEN UNCHANGED << disk, db, open >>
     ELSE /\ open' = FALSE
          /\ IF cancelled
             THEN db' = disk /\ UNCHANGED disk
             ELSE disk' = db /\ UNCHANGED db

-----------------------------------------------------------------------------
(* A call of a data access object. *)

Begin(op, program) ==
  /\ call = Idle /\ op \in role
  /\ call' = [op |-> op, todo |-> program, scoped |-> TRUE, committed |-> FALSE]
  /\ TransactionBegin
  /\ UNCHANGED << disk, db, stale, role >>

BeginUnscoped(op, program) ==
  /\ call = Idle /\ op \in role
  /\ call' = [op |-> op, todo |-> program, scoped |-> FALSE, committed |-> FALSE]
  /\ UNCHANGED << disk, db, open, depth, cancel, stale, role >>

(* The scope is left, by an exception or at its end. *)
Leave ==
  /\ call' = Idle
  /\ IF call.scoped /\ ~ call.committed
     THEN TransactionUnref(TRUE)
     ELSE UNCHANGED << disk, db, open, depth, cancel >>

Head1 == call.todo[1]

Running(kinds) == call # Idle /\ call.todo # <<>> /\ Head1.do \in kinds

(* The query that runs the statement: one for each place in the code. *)
Query == << call.op, Head1.do, Head1.table >>

Execute ==
  /\ Running({"insert", "update", "delete"})
  /\ Query \notin stale
  /\ Accepted(db, Head1)
  /\ db' = Applied(db, Head1)
  /\ disk' = IF open THEN disk ELSE db'
  /\ call' = [call EXCEPT !.todo = Tail(@)]
  /\ UNCHANGED << open, depth, cancel, stale, role >>

(* Step throws: a key is broken, or the disk fails. *)
StepThrows ==
  /\ Running({"insert", "update", "delete"})
  /\ Query \notin stale
  /\ Cardinality(stale) < MaxFaults \/ ~ Accepted(db, Head1)
  /\ stale' = stale \cup {Query}
  /\ Leave
  /\ UNCHANGED role

(* A value is bound to a statement that was stepped and not reset. *)
BindThrows ==
  /\ Running({"insert", "update", "delete"})
  /\ Query \in stale
  /\ Leave
  /\ UNCHANGED << stale, role >>

Throws ==
  /\ Running({"throw"})
  /\ Leave
  /\ UNCHANGED << stale, role >>

CommitScope ==
  /\ Running({"commit"})
  /\ TransactionUnref(cancel)
  /\ call' = [call EXCEPT !.todo = Tail(@), !.committed = TRUE]
  /\ UNCHANGED << stale, role >>

Return ==
  /\ call # Idle /\ call.todo = <<>>
  /\ Leave
  /\ UNCHANGED << stale, role >>

(* The process is killed and started again. *)
Crash ==
  /\ call # Idle
  /\ db' = disk
  /\ open' = FALSE /\ depth' = 0 /\ cancel' = FALSE
  /\ stale' = {}
  /\ call' = Idle
  /\ UNCHANGED << disk, role >>

-----------------------------------------------------------------------------
(* The calls. *)

Register ==
  \E h \in Handles, info \in Infos :
    /\ db.next["WidgetFeature"] <= MaxWidgets
    /\ Begin("registerWidget", registerWidget(db, h, info))

Unregister ==
  \E h \in Handles : Begin("unregisterWidget", unregisterWidget(db, h))

SetPkgName ==
  \E h \in Handles, pkgname \in Pkgnames :
    Begin("setPkgName", setPkgName(db, h, pkgname))

UpdateFeatureRejectStatus ==
  \E h \in Handles, rejected \in BOOLEAN :
    \E name \in {f.name : f \in UNION {info.featuresList : info \in Infos}} :
      Begin("updateFeatureRejectStatus", updateFeatureRejectStatus(db, h, name, rejected))

SetPreference ==
  \E h \in Handles, p \in Preferences :
    Begin("SetProperty", SetProperty(db, h, p.name, p.value, p.readonly))

RemovePreference ==
  \E h \in Handles, p \in Preferences :
    Begin("RemoveProperty", RemoveProperty(db, h, p.name))

(* A plugin is installed by one call for the library, and one each for its *)
(* feature, objects, dependencies and state, in any order.  An object and  *)
(* the dependencies are given once: these guards bound the model.          *)
RegisterPlugin ==
  \E lib \in Libraries : Begin("registerPlugin", registerPlugin(db, lib, "/usr/lib/wrt-plugins"))

PluginCalls ==
  \E i \in 1 .. Len(db.rows["PluginProperties"]) :
    LET plugin == db.rows["PluginProperties"][i].PluginPropertiesId
        lib    == db.rows["PluginProperties"][i].PluginLibraryName
    IN  \/ \E caps \in Capabilities :
             Begin("RegisterFeature", RegisterFeature(db, lib, caps, plugin))
        \/ /\ getImplementedObjectsForPluginHandle(db, plugin) = <<>>
           /\ Begin("registerPluginImplementedObject",
                    registerPluginImplementedObject(db, lib, plugin))
        \/ /\ getRequiredObjectsForPluginHandle(db, plugin) = {}
           /\ Begin("registerPluginRequiredObject",
                    registerPluginRequiredObject(db, lib, plugin))
        \/ /\ getLibraryDependencies(db, plugin) = {}
           /\ \E needed \in SUBSET ToSet(getPluginHandleList(db)) :
                /\ Cardinality(needed) <= MaxDependencies
                /\ Begin("registerPluginLibrariesDependencies",
                         registerPluginLibrariesDependencies(db, plugin, needed))
        \/ Begin("setPluginInstallationStatus",
                 setPluginInstallationStatus(db, plugin, COMPLETED))

GlobalCalls ==
  \/ \E column \in GlobalColumns, value \in {0, 1} :
       BeginUnscoped("SetGlobal", SetGlobal(column, value))
  \/ \E uri \in WhiteURIs :
       \/ \E sub \in BOOLEAN : Begin("AddWhiteURI", AddWhiteURI(uri, sub))
       \/ BeginUnscoped("RemoveWhiteURI", RemoveWhiteURI(uri))

SaveForm ==
  \E url \in Urls, data \in Forms :
    Begin("setAutoSaveSubmitFormData", setAutoSaveSubmitFormData(db, url, data))

Next ==
  \/ Register \/ Unregister \/ SetPkgName \/ UpdateFeatureRejectStatus
  \/ SetPreference \/ RemovePreference \/ RegisterPlugin \/ PluginCalls
  \/ GlobalCalls \/ SaveForm
  \/ Execute \/ StepThrows \/ BindThrows \/ Throws \/ CommitScope \/ Return
  \/ Crash

Spec == Init /\ [][Next]_vars

-----------------------------------------------------------------------------
(* Properties. *)

(* Between calls nothing of them is left: the depth is back at zero and    *)
(* all the connection sees is on the disk.                                 *)
IdleIsClean ==
  call = Idle => depth = 0 /\ ~ open /\ db = disk

(* "Deleting in other tables is done via "delete cascade" in SQL": every   *)
(* row of every table belongs to a widget that is registered, also the     *)
(* localized icons and start files, whose app_id no foreign key guards.    *)
NoOrphans ==
  \A t \in Tables : \A r \in RowsOf(disk, t) :
    /\ Orphaned(t, r, [p \in Tables |-> RowsOf(disk, p)]) \/ Parents[t] = {}
    /\ "app_id" \in DOMAIN r => isWidgetInstalled(disk, r.app_id)

(* The three ways to ask for the device capabilities of a feature agree,   *)
(* whatever calls the installation of a plugin was cut off between.        *)
FeatureViewsAgree ==
  \A f \in GetNames(disk) :
    LET joined == { c[2] : c \in { x \in GetDevCapWithFeatureHandle(disk) : x[1] = f[1] } }
    IN  /\ GetDeviceCapabilities(disk, f[1]) = joined
        /\ GetDeviceCapability(disk, f[2]) = joined
        /\ joined \in Capabilities

(* So do the ways from a plugin to its state, objects and features, and    *)
(* back; only a plugin that is completed gives features its library.       *)
PluginViewsAgree ==
  \A p \in ToSet(getPluginHandleList(disk)) :
    /\ p \in getPluginHandleByStatus(disk, getInstallationStateForHandle(disk, p))
    /\ \A object \in ToSet(getImplementedObjectsForPluginHandle(disk, p)) :
         getPluginHandleForImplementedObject(disk, object) = p
    /\ \A f \in ToSet(GetFeatureHandleListForPlugin(disk, p)) :
         /\ GetPluginHandle(disk, f) = p
         /\ FeatureHandle(disk, FeatureGetName(disk, f)) = f
         /\ GetLibraryPath(disk, f) = NULL <=> p \notin getPluginHandleByStatus(disk, COMPLETED)

(* And those of a widget: from its names to its handle, from a feature's   *)
(* name to its parameters, from the localized icons and start files to the *)
(* files, from a certificate to its fingerprints and from a key to its     *)
(* value.                                                                  *)
WidgetViewsAgree ==
  \A h \in ToSet(getHandleList(disk)) :
    /\ LET guid == InfoColumn(disk, h, "widget_id")
       IN  InfoColumn(disk, getHandleByGUID(disk, guid), "widget_id") = guid
    /\ LET pkgname == InfoColumn(disk, h, "pkgname")
       IN  InfoColumn(disk, getHandleByPkgname(disk, pkgname), "pkgname") = pkgname
    /\ \A f \in getFeaturesList(disk, h) :
         /\ hasFeature(disk, h, f.name)
         /\ \E g \in getFeaturesList(disk, h) :
              g.name = f.name /\ getResourceAttribute(disk, h, f.name) = {p[1] : p \in g.params}
    /\ {x.icon_id : x \in ToSet(getLocalizedIconList(disk, h))}
         \subseteq {x.icon_id : x \in ToSet(getIconList(disk, h))}
    /\ Cardinality(getIconLanguageTags(disk, h)) = Len(getLocalizedIconList(disk, h))
    /\ {x.start_file_id : x \in ToSet(getLocalizedStartFileList(disk, h))}
         \subseteq {x.start_file_id : x \in ToSet(getStartFileList(disk, h))}
    /\ \A x \in ToSet(getCertificateDataList(disk, h)) :
         {x.sha1_fingerprint, x.md5_fingerprint} \ {NULL}
           \subseteq ToSet(getKeyFingerprints(disk, h, x.owner, x.type))
    /\ GetPropertyKeyList(disk, h) = {p.name : p \in GetPropertyList(disk, h)}
    /\ \A p \in GetPropertyList(disk, h) : GetPropertyValue(disk, h, p.name) = p.value

(* Between the calls the database is in order: no transaction is left, no  *)
(* row is without its widget, and what different getters say agrees.       *)
DatabaseInOrder ==
  /\ IdleIsClean /\ NoOrphans /\ FeatureViewsAgree /\ PluginViewsAgree
  /\ call = Idle => WidgetViewsAgree

(* What is on the disk of a widget, read through the getters. *)
ViewOf(h) ==
  [ guid        |-> InfoColumn(disk, h, "widget_id"),
    pkgname     |-> InfoColumn(disk, h, "pkgname"),
    path        |-> getPath(disk, h),
    baseFolder  |-> getBaseFolder(disk, h),
    splash      |-> getSplashImgSrc(disk, h),
    storage     |-> getPrivateLocalStoragePath(disk, h),
    webkit      |-> getWebkitPluginsRequired(disk, h),
    signed      |-> isDistributorSigned(disk, h),
    names       |-> { << l, getLocalizedInfo(disk, h, l) >> : l \in getLanguageTags(disk, h) },
    icons       |-> { << x.widget_locale,
                         GetSingleValue(disk, "WidgetIcon", [icon_id |-> x.icon_id], "icon_src") >> :
                      x \in ToSet(getLocalizedIconList(disk, h)) },
    startFiles  |-> { << GetSingleValue(disk, "WidgetStartFile",
                                        [start_file_id |-> x.start_file_id], "src"),
                         x.widget_locale, x.type >> :
                      x \in ToSet(getLocalizedStartFileList(disk, h)) },
    preferences |-> GetPropertyList(disk, h),
    features    |-> { [name |-> f.name, required |-> f.required, rejected |-> f.rejected,
                       params |-> f.params] : f \in getFeaturesList(disk, h) },
    windowModes |-> ToSet(getWindowModes(disk, h)),
    access      |-> getWidgetAccessInfo(disk, h),
    chains      |-> getWidgetCertificate(disk, h),
    fingerprints |-> { << x.chainid, x.sha1_fingerprint >> :
                       x \in ToSet(getCertificateDataList(disk, h)) },
    settings    |-> getWidgetSettings(disk, h),
    services    |-> getAppServiceList(disk, h),
    encrypted   |-> getEncryptedFileList(disk, h) ]

(* A widget without its extended row has no view. *)
View(h) == IF Exists(disk, "WidgetExtendedInfo", Of(h)) THEN ViewOf(h) ELSE <<>>

Registry == INSTANCE WidgetRegistry WITH
  installed <- [h \in ToSet(getHandleList(disk)) |-> View(h)],
  forms     <- [u \in Urls |-> getAutoSaveSubmitFormData(disk, u)],
  settings  <- [c \in GlobalColumns |-> GetGlobal(disk, c)],
  whiteURIs <- GetWhiteURIList(disk)

(* The statements of a call take effect together or not at all, whether    *)
(* one of them is refused, the disk fails or the process is killed, and    *)
(* the getters hand out what was registered.                               *)
ImplementsRegistry == Registry!Spec

(* "Try and transaction not needed", the registering functions say: the    *)
(* scope of registerWidget holds for them, and whenever no call is in      *)
(* progress a row of WidgetInfo has its row of WidgetExtendedInfo.         *)
WidgetsAreWhole ==
  call = Idle =>
    \A h \in ToSet(getHandleList(disk)) : Exists(disk, "WidgetExtendedInfo", Of(h))

=============================================================================
