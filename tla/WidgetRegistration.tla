------------------------- MODULE WidgetRegistration -------------------------
(***************************************************************************)
(* WidgetDAO: what it writes.  An "info" is the WidgetRegisterInfo of an   *)
(* installation, with its ConfigParserData and its security; a column that *)
(* is only stored and read back is left out where another is treated the   *)
(* same.                                                                   *)
(***************************************************************************)
EXTENDS WidgetDao

(* One INSERT for each element. *)
InsertAll(table, rows) == [i \in DOMAIN rows |-> InsertInto(table, rows[i])]

registerWidgetInfo(h, info) ==
  << InsertInto("WidgetInfo",
       [ app_id                  |-> h,
         widget_id               |-> info.widget_id,
         pkgname                 |-> info.pkgname,
         base_folder             |-> info.baseFolder,
         webkit_plugins_required |-> IF info.flashNeeded THEN 1 ELSE 0,
         distributor_signed      |-> IF info.distributorSigned THEN 1 ELSE 0 ]) >>

registerWidgetExtendedInfo(h, info) ==
  << InsertInto("WidgetExtendedInfo",
       [ app_id         |-> h,
         factory_widget |-> IF info.isFactoryWidget THEN 1 ELSE 0,
         test_widget    |-> IF info.isTestWidget THEN 1 ELSE 0,
         splash_img_src |-> info.splashImgSrc ]) >>

registerWidgetLocalizedInfo(h, info) ==
  LET list == SetToSeq(info.localizedDataSet)
  IN  InsertAll("LocalizedWidgetInfo",
        [i \in DOMAIN list |->
           [app_id |-> h, widget_locale |-> list[i].locale, widget_name |-> list[i].name]])

(* Mutant: a locale that already has its default icon gets a second one. *)
SecondDefaultIcon(d, h, info) ==
  FlattenSeq([i \in DOMAIN info.icons |->
    LET id      == d.next["WidgetIcon"] + i - 1
        locales == SetToSeq(info.icons[i].locales)
    IN  << InsertInto("WidgetIcon",
             [icon_id |-> id, app_id |-> h, icon_src |-> info.icons[i].src]) >>
        \o [j \in DOMAIN locales |->
             InsertInto("WidgetLocalizedIcon",
               [app_id |-> h, icon_id |-> id, widget_locale |-> locales[j]])]])

(* Each icon, then its row of each locale it is the default of: the row is *)
(* inserted, or taken over from the earlier icon that has it.              *)
registerWidgetIcons(d, h, info) ==
  FlattenSeq([i \in DOMAIN info.icons |->
    LET id      == d.next["WidgetIcon"] + i - 1
        locales == SetToSeq(info.icons[i].locales)
        Row(l)  == [app_id |-> h, icon_id |-> id, widget_locale |-> l]
        Taken(l) == \/ Exists(d, "WidgetLocalizedIcon", [app_id |-> h, widget_locale |-> l])
                    \/ \E k \in 1 .. i - 1 : l \in info.icons[k].locales
    IN  << InsertInto("WidgetIcon",
             [icon_id |-> id, app_id |-> h, icon_src |-> info.icons[i].src]) >>
        \o [j \in DOMAIN locales |->
             IF Taken(locales[j])
             THEN UpdateSet("WidgetLocalizedIcon",
                    [app_id |-> h, widget_locale |-> locales[j]], Row(locales[j]))
             ELSE InsertInto("WidgetLocalizedIcon", Row(locales[j]))]])

registerWidgetStartFile(d, h, info) ==
  FlattenSeq([i \in DOMAIN info.startFiles |->
    LET id    == d.next["WidgetStartFile"] + i - 1
        props == SetToSeq(info.startFiles[i].propertiesForLocales)
    IN  << InsertInto("WidgetStartFile",
             [start_file_id |-> id, app_id |-> h, src |-> info.startFiles[i].path]) >>
        \o InsertAll("WidgetLocalizedStartFile",
             [j \in DOMAIN props |->
                [ app_id |-> h, start_file_id |-> id, widget_locale |-> props[j].locale,
                  type |-> props[j].type ]])])

(* A feature starts unrejected. *)
registerWidgetFeatures(d, h, info) ==
  LET list == SetToSeq(info.featuresList)
  IN  FlattenSeq([i \in DOMAIN list |->
        LET id     == d.next["WidgetFeature"] + i - 1
            params == SetToSeq(list[i].paramsList)
        IN  << InsertInto("WidgetFeature",
                 [ widget_feature_id |-> id, app_id |-> h, name |-> list[i].name,
                   required |-> list[i].required, rejected |-> FALSE ]) >>
            \o InsertAll("FeatureParam",
                 [j \in DOMAIN params |->
                    [ widget_feature_id |-> id, name |-> params[j][1],
                      value |-> params[j][2] ]])])

registerWidgetWindowModes(h, info) ==
  LET list == SetToSeq(info.windowModes)
  IN  InsertAll("WidgetWindowModes",
        [i \in DOMAIN list |-> [app_id |-> h, window_mode |-> list[i]]])

registerWidgetWarpInfo(h, info) ==
  LET list == SetToSeq(info.accessInfoSet)
  IN  InsertAll("WidgetWARPInfo",
        [i \in DOMAIN list |->
           [ app_id |-> h, iri |-> list[i].iri,
             subdomain_access |-> IF list[i].sub THEN 1 ELSE 0 ]])

registerWidgetCertificates(h, info) ==
  LET list == info.certificateList
  IN  InsertAll("WidgetCertificateFingerprint",
        [i \in DOMAIN list |->
           [ app_id |-> h, owner |-> list[i].owner, chainid |-> list[i].chainId,
             type |-> list[i].type, md5_fingerprint |-> list[i].md5,
             sha1_fingerprint |-> list[i].sha1 ]])

registerLaunchCertificates(h, info) ==
  LET list == info.certificateChainList
  IN  InsertAll("WidgetCertificate",
        [i \in DOMAIN list |-> [app_id |-> h, encoded_chain |-> list[i]]])

registerWidgetSettings(h, info) ==
  LET list == SetToSeq(info.settingsList)
  IN  InsertAll("SettginsList",
        [i \in DOMAIN list |->
           [appId |-> h, settingName |-> list[i][1], settingValue |-> list[i][2]]])

registerAppService(h, info) ==
  LET list == info.appServiceList
  IN  InsertAll("ApplicationServiceInfo",
        [i \in DOMAIN list |->
           [ app_id |-> h, src |-> list[i].src, operation |-> list[i].operation,
             scheme |-> list[i].scheme, mime |-> list[i].mime ]])

registerEncryptedResouceInfo(h, info) ==
  LET list == SetToSeq(info.encryptedFiles)
  IN  InsertAll("EncryptedResourceList",
        [i \in DOMAIN list |-> [app_id |-> h, resource |-> list[i]]])

(* WidgetInfo first: every other table depends on it. *)
registerWidget(d, h, info) ==
  registerWidgetInfo(h, info)
    \o registerWidgetExtendedInfo(h, info)
    \o registerWidgetLocalizedInfo(h, info)
    \o registerWidgetIcons(d, h, info)
    \o registerWidgetStartFile(d, h, info)
    \o RegisterProperties(h, info)
    \o registerWidgetFeatures(d, h, info)
    \o registerWidgetWindowModes(h, info)
    \o registerWidgetWarpInfo(h, info)
    \o registerWidgetCertificates(h, info)
    \o registerLaunchCertificates(h, info)
    \o registerWidgetSettings(h, info)
    \o registerAppService(h, info)
    \o registerEncryptedResouceInfo(h, info)
    \o << Commit >>

(* CHECK_WIDGET_EXISTENCE commits before it throws. *)
unregisterWidget(d, h) ==
  IF isWidgetInstalled(d, h)
  THEN << DeleteFrom("WidgetInfo", Of(h)), Commit >>
  ELSE << Commit, Throw("WidgetNotExist") >>

(* What isWidgetInstalled returns is not used. *)
setPkgName(d, h, pkgname) ==
  << UpdateSet("WidgetInfo", Of(h), [pkgname |-> pkgname]), Commit >>

(* The row of the first feature of that name, its widget_feature_id with   *)
(* it, is written to every row of that name.                               *)
updateFeatureRejectStatus(d, h, name, rejected) ==
  LET row == GetSingleRow(d, "WidgetFeature", [app_id |-> h, name |-> name],
                          {"widget_feature_id", "app_id", "name", "required", "rejected"})
  IN  << UpdateSet("WidgetFeature", [app_id |-> h, name |-> name],
                   [row EXCEPT !.rejected = rejected]),
         Commit >>
=============================================================================
