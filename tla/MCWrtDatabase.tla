--------------------------- MODULE MCWrtDatabase ---------------------------
(* A downloaded widget with something in every table and a factory widget  *)
(* that asks for the same feature twice.                                   *)
EXTENDS WrtDatabase

MCDownloaded ==
  [ widget_id |-> "guid1", pkgname |-> "pkg1", baseFolder |-> "", flashNeeded |-> FALSE,
    distributorSigned |-> TRUE, isFactoryWidget |-> FALSE, isTestWidget |-> FALSE,
    splashImgSrc |-> "splash.png",
    localizedDataSet |-> {[locale |-> "en", name |-> "Clock"]},
    icons |-> << [src |-> "a.png", locales |-> {"en"}],
                 [src |-> "b.png", locales |-> {"en", "pl"}] >>,
    startFiles |-> << [path |-> "index.html",
                       propertiesForLocales |-> {[locale |-> "en", type |-> "text/html"]}] >>,
    preferencesList |-> {[name |-> "k", value |-> "v0", readonly |-> FALSE]},
    featuresList |-> {[name |-> "f", required |-> TRUE, paramsList |-> {<< "p", "1" >>}]},
    windowModes |-> {"floating"},
    accessInfoSet |-> {[iri |-> "http://a", sub |-> TRUE]},
    certificateList |-> << [owner |-> 1, chainId |-> 1, type |-> 1, md5 |-> NULL, sha1 |-> "s"] >>,
    certificateChainList |-> << "chain" >>,
    settingsList |-> {<< "screen", "portrait" >>},
    appServiceList |-> << [src |-> "s", operation |-> "view", scheme |-> "http", mime |-> "m"] >>,
    encryptedFiles |-> {"res"} ]

MCFactory ==
  [ MCDownloaded EXCEPT
    !.widget_id = "guid2", !.isFactoryWidget = TRUE, !.distributorSigned = FALSE,
    !.baseFolder = "base", !.flashNeeded = TRUE, !.splashImgSrc = NULL,
    !.localizedDataSet = {}, !.icons = <<>>, !.startFiles = <<>>,
    !.preferencesList = {[name |-> "k", value |-> "v0", readonly |-> TRUE]},
    !.featuresList = {[name |-> "f", required |-> TRUE, paramsList |-> {}],
                      [name |-> "f", required |-> TRUE, paramsList |-> {<< "p", "2" >>}]},
    !.windowModes = {}, !.accessInfoSet = {}, !.certificateList = <<>>,
    !.certificateChainList = <<>>, !.settingsList = {}, !.appServiceList = <<>>,
    !.encryptedFiles = {} ]

(* The same resource may be asked for with and without its subdomains. *)
MCTwiceTheIri ==
  [MCFactory EXCEPT !.accessInfoSet = {[iri |-> "http://a", sub |-> TRUE],
                                       [iri |-> "http://a", sub |-> FALSE]}]

MCInfos == {MCDownloaded, MCFactory, MCTwiceTheIri}
MCSmallInfos == {MCFactory}
MCPreferences == {[name |-> "k", value |-> "v1", readonly |-> TRUE]}
MCForms == { << [key |-> "user", value |-> "u"] >>,
             << [key |-> "user", value |-> "w"], [key |-> "pass", value |-> "w"] >> }
MCWidgets  == {"registerWidget", "unregisterWidget", "setPkgName",
               "updateFeatureRejectStatus"}
MCOneWidget == {"registerWidget", "SetProperty", "RemoveProperty"}
MCFeatures == {"registerPlugin", "RegisterFeature"}
MCParts    == {"registerPlugin", "registerPluginImplementedObject",
               "registerPluginRequiredObject", "registerPluginLibrariesDependencies",
               "setPluginInstallationStatus"}
MCSettings == {"SetGlobal", "AddWhiteURI", "RemoveWhiteURI", "setAutoSaveSubmitFormData"}
MCRoles    == {MCWidgets, MCOneWidget, MCFeatures, MCParts, MCSettings}
MCDependencies == {{"registerPlugin", "registerPluginLibrariesDependencies", "registerWidget"}}
MCCapabilities == {{"c1"}, {"c1", "c2"}}
=============================================================================
