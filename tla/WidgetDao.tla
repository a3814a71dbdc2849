----------------------------- MODULE WidgetDao -----------------------------
(***************************************************************************)
(* WidgetDAO, WidgetDAOReadOnly, PropertyDAO and GlobalDAO: what a widget  *)
(* is in the database.  As in PluginDao an operation that writes is the    *)
(* program of its statements and one that reads an operator.               *)
(*                                                                         *)
(* "info" is the WidgetRegisterInfo with the ConfigParserData in it: sets  *)
(* where the code has std::set and std::map, sequences where it has lists. *)
(***************************************************************************)
EXTENDS PluginDao

Of(handle) == [app_id |-> handle]

-----------------------------------------------------------------------------
(* WidgetDAOReadOnly; NULL stands for WidgetNotExist. *)

getHandleByGUID(d, guid) == GetSingleValue(d, "WidgetInfo", [widget_id |-> guid], "app_id")

getHandleByPkgname(d, pkg) == GetSingleValue(d, "WidgetInfo", [pkgname |-> pkg], "app_id")

getHandleList(d) == GetValueList(d, "WidgetInfo", <<>>, "app_id")

isWidgetInstalled(d, h) == Exists(d, "WidgetInfo", Of(h))

getWidgetInfoRow(d, h) == GetRowList(d, "WidgetInfo", Of(h))[1]

(* The getters of one column of WidgetInfo. *)
InfoColumn(d, h, column) == getWidgetInfoRow(d, h)[column]

isDistributorSigned(d, h) ==
  LET result == InfoColumn(d, h, "distributor_signed")
  IN  result # NULL /\ result # 0

getWebkitPluginsRequired(d, h) ==
  LET result == InfoColumn(d, h, "webkit_plugins_required")
  IN  result # NULL /\ result # 0

(* A base folder is given with its separator, none as "". *)
getBaseFolder(d, h) ==
  LET folder == InfoColumn(d, h, "base_folder")
  IN  IF folder \in {NULL, ""} THEN <<>> ELSE << folder, "/" >>

ExtendedRow(d, h) == GetRowList(d, "WidgetExtendedInfo", Of(h))[1]

isTestWidget(d, h) == ExtendedRow(d, h).test_widget # 0

isFactory(d, h) ==
  LET result == ExtendedRow(d, h).factory_widget
  IN  result # NULL /\ result # 0

(* Where the widget lives: by its GUID if it came with the device, by its  *)
(* package if it was downloaded.                                           *)
getPath(d, h) ==
  IF isFactory(d, h)
  THEN << InfoColumn(d, h, "widget_id") >>
  ELSE << InfoColumn(d, h, "pkgname"), "res/wgt" >>

getSplashImgSrc(d, h) ==
  LET value == ExtendedRow(d, h).splash_img_src
  IN  IF value = NULL THEN NULL ELSE Append(getPath(d, h), value)

getPrivateLocalStoragePath(d, h) ==
  << InfoColumn(d, h, "pkgname") >>
    \o IF isFactory(d, h) THEN << InfoColumn(d, h, "widget_id") >> ELSE <<>>

(* The localized name, of a row of NULLs for a language that the widget    *)
(* does not have.                                                          *)
getLocalizedInfo(d, h, locale) ==
  GetSingleRow(d, "LocalizedWidgetInfo", [app_id |-> h, widget_locale |-> locale],
               {"widget_name"}).widget_name

getLanguageTags(d, h) ==
  ToSet(GetValueList(d, "LocalizedWidgetInfo", Of(h), "widget_locale"))

getFeatureParams(d, id) ==
  LET list == GetRowList(d, "FeatureParam", [widget_feature_id |-> id])
  IN  { << list[i].name, list[i].value >> : i \in DOMAIN list }

(* Each feature with its parameters and the plugin that implements it.     *)
getFeaturesList(d, h) ==
  LET list == GetRowList(d, "WidgetFeature", Of(h))
  IN  { [ name     |-> list[i].name,
          required |-> list[i].required,
          rejected |-> list[i].rejected,
          params   |-> getFeatureParams(d, list[i].widget_feature_id),
          pluginId |-> GetPluginHandle(d, FeatureHandle(d, list[i].name)) ] :
        i \in DOMAIN list }

hasFeature(d, h, name) == Exists(d, "WidgetFeature", [app_id |-> h, name |-> name])

(* The parameters of the first feature of that name. *)
getResourceAttribute(d, h, name) ==
  LET id == GetSingleValue(d, "WidgetFeature", [app_id |-> h, name |-> name],
                           "widget_feature_id")
  IN  IF id = NULL THEN {} ELSE { p[1] : p \in getFeatureParams(d, id) }

getLocalizedIconList(d, h) == GetRowList(d, "WidgetLocalizedIcon", Of(h))

getIconList(d, h) == GetRowList(d, "WidgetIcon", Of(h))

getIconLanguageTags(d, h) ==
  ToSet(GetValueList(d, "WidgetLocalizedIcon", Of(h), "widget_locale"))

getLocalizedStartFileList(d, h) == GetRowList(d, "WidgetLocalizedStartFile", Of(h))

getStartFileList(d, h) == GetRowList(d, "WidgetStartFile", Of(h))

getWindowModes(d, h) == GetValueList(d, "WidgetWindowModes", Of(h), "window_mode")

getWidgetCertificate(d, h) == GetValueList(d, "WidgetCertificate", Of(h), "encoded_chain")

(* Ordered by the chain. *)
getCertificateDataList(d, h) ==
  SortSeq(GetRowList(d, "WidgetCertificateFingerprint", Of(h)),
          LAMBDA a, b : a.chainid < b.chainid)

(* The sha1, then the md5 of each certificate of the owner and type. *)
getKeyFingerprints(d, h, owner, type) ==
  LET rows == GetRowList(d, "WidgetCertificateFingerprint",
                         [app_id |-> h, owner |-> owner, type |-> type])
  IN  FlattenSeq([i \in DOMAIN rows |->
        SelectSeq(<< rows[i].sha1_fingerprint, rows[i].md5_fingerprint >>,
                  LAMBDA f : f # NULL)])

getWidgetAccessInfo(d, h) ==
  LET rows == GetRowList(d, "WidgetWARPInfo", Of(h))
  IN  { [iri |-> rows[i].iri, sub |-> rows[i].subdomain_access = 1] : i \in DOMAIN rows }

getWidgetSettings(d, h) ==
  LET rows == GetRowList(d, "SettginsList", [appId |-> h])
  IN  { << rows[i].settingName, rows[i].settingValue >> : i \in DOMAIN rows }

getAppServiceList(d, h) ==
  LET rows == GetRowList(d, "ApplicationServiceInfo", Of(h))
  IN  [ i \in DOMAIN rows |->
          [src |-> rows[i].src, operation |-> rows[i].operation, scheme |-> rows[i].scheme,
           mime |-> rows[i].mime] ]

getEncryptedFileList(d, h) ==
  ToSet(GetValueList(d, "EncryptedResourceList", Of(h), "resource"))

-----------------------------------------------------------------------------
(* PropertyDAOReadOnly *)

Preference(h, key) == [app_id |-> h, key_name |-> key]

GetPropertyKeyList(d, h) == ToSet(GetValueList(d, "WidgetPreference", Of(h), "key_name"))

GetPropertyList(d, h) ==
  LET rows == GetRowList(d, "WidgetPreference", Of(h))
  IN  { [name |-> rows[i].key_name, value |-> rows[i].key_value,
         readonly |-> rows[i].readonly = 1] : i \in DOMAIN rows }

GetPropertyValue(d, h, key) ==
  GetSingleValue(d, "WidgetPreference", Preference(h, key), "key_value")

(* NULL for a key that the widget does not have. *)
CheckPropertyReadFlag(d, h, key) ==
  GetSingleValue(d, "WidgetPreference", Preference(h, key), "readonly")

(* PropertyDAO *)

RemoveProperty(d, h, key) ==
  IF CheckPropertyReadFlag(d, h, key) = 1
  THEN << Throw("ReadOnlyProperty") >>
  ELSE << DeleteFrom("WidgetPreference", Preference(h, key)), Commit >>

(* A new key is inserted with its flag, the flag of an old one stays. *)
SetProperty(d, h, key, value, readOnly) ==
  IF CheckPropertyReadFlag(d, h, key) = 1
  THEN << Throw("ReadOnlyProperty") >>
  ELSE IF CheckPropertyReadFlag(d, h, key) = NULL
  THEN << InsertInto("WidgetPreference",
            [app_id |-> h, key_name |-> key, key_value |-> value,
             readonly |-> IF readOnly THEN 1 ELSE 0]),
          Commit >>
  ELSE << UpdateSet("WidgetPreference", Preference(h, key), [key_value |-> value]), Commit >>

RegisterProperties(h, info) ==
  LET list == SetToSeq(info.preferencesList)
  IN  [i \in DOMAIN list |-> InsertInto("WidgetPreference",
        [app_id |-> h, key_name |-> list[i].name, key_value |-> list[i].value,
         readonly |-> IF list[i].readonly THEN 1 ELSE 0])]
=============================================================================
