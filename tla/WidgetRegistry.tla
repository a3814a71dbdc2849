--------------------------- MODULE WidgetRegistry ---------------------------
(***************************************************************************)
(* What the installer and the runtime rely on: a registry of widgets that  *)
(* changes by whole operations, the forms saved for each page, and the     *)
(* settings of the runtime.  The database of WrtDatabase implements it.    *)
(***************************************************************************)
EXTENDS Naturals, Sequences, FiniteSets, Functions

CONSTANTS
  Handles,       \* DbWidgetHandle
  Infos,         \* what can be installed
  Pkgnames,      \* package names that setPkgName sets
  Preferences,   \* [name, value, readonly] that setProperty sets
  Urls, Forms,   \* pages, and what is submitted on them
  GlobalColumns, \* switches of the runtime
  WhiteURIs,     \* URIs that widgets may be loaded from
  NULL           \* no splash image

VARIABLES
  installed,     \* the view of each widget that is registered
  forms,         \* what is saved for each page
  settings,      \* the value of each switch
  whiteURIs      \* the list of the URIs

registry == << installed, forms, settings, whiteURIs >>

(* The icon of each locale is the last one that was given for it. *)
DefaultIcons(info) ==
  { << l, info.icons[i].src >> :
      << l, i >> \in { p \in (UNION {info.icons[k].locales : k \in DOMAIN info.icons})
                             \X DOMAIN info.icons :
                       /\ p[1] \in info.icons[p[2]].locales
                       /\ \A k \in DOMAIN info.icons :
                            k > p[2] => p[1] \notin info.icons[k].locales } }

(* A widget that came with the device lives by its GUID, a downloaded one  *)
(* by its package.                                                         *)
Path(info) ==
  IF info.isFactoryWidget THEN << info.widget_id >> ELSE << info.pkgname, "res/wgt" >>

(* What a registration promises to hand out again. *)
Fresh(info) ==
  [ guid        |-> info.widget_id,
    pkgname     |-> info.pkgname,
    path        |-> Path(info),
    baseFolder  |-> IF info.baseFolder = "" THEN <<>> ELSE << info.baseFolder, "/" >>,
    splash      |-> IF info.splashImgSrc = NULL THEN NULL
                    ELSE Append(Path(info), info.splashImgSrc),
    storage     |-> IF info.isFactoryWidget THEN << info.pkgname, info.widget_id >>
                    ELSE << info.pkgname >>,
    webkit      |-> info.flashNeeded,
    signed      |-> info.distributorSigned,
    names       |-> { << x.locale, x.name >> : x \in info.localizedDataSet },
    icons       |-> DefaultIcons(info),
    startFiles  |-> UNION { { << info.startFiles[i].path, x.locale, x.type >> :
                                x \in info.startFiles[i].propertiesForLocales } :
                            i \in DOMAIN info.startFiles },
    preferences |-> info.preferencesList,
    features    |-> { [name |-> x.name, required |-> x.required, rejected |-> FALSE,
                       params |-> x.paramsList] : x \in info.featuresList },
    windowModes |-> info.windowModes,
    access      |-> info.accessInfoSet,
    chains      |-> info.certificateChainList,
    fingerprints |-> { << x.chainId, x.sha1 >> : x \in Range(info.certificateList) },
    settings    |-> info.settingsList,
    services    |-> info.appServiceList,
    encrypted   |-> info.encryptedFiles ]

Init ==
  /\ installed = <<>>
  /\ forms = [u \in Urls |-> <<>>]
  /\ settings = [c \in GlobalColumns |-> 0]
  /\ whiteURIs = <<>>

Register(h, info) ==
  /\ h \notin DOMAIN installed
  /\ installed' = [x \in DOMAIN installed \cup {h} |->
                     IF x = h THEN Fresh(info) ELSE installed[x]]
  /\ UNCHANGED << forms, settings, whiteURIs >>

Unregister(h) ==
  /\ h \in DOMAIN installed
  /\ installed' = Restrict(installed, DOMAIN installed \ {h})
  /\ UNCHANGED << forms, settings, whiteURIs >>

(* Only the package of a downloaded widget is part of its path; storage is *)
(* by the package of either.                                               *)
Rename(h, pkgname) ==
  /\ h \in DOMAIN installed
  /\ LET Moved(path) == IF Len(installed[h].path) = 1 THEN path
                        ELSE [path EXCEPT ![1] = pkgname]
     IN  installed' = [installed EXCEPT
           ![h].pkgname = pkgname,
           ![h].path = Moved(@),
           ![h].splash = IF @ = NULL THEN NULL ELSE Moved(@),
           ![h].storage = [@ EXCEPT ![1] = pkgname]]
  /\ UNCHANGED << forms, settings, whiteURIs >>

(* A preference keeps the flag it was made with; a read-only one keeps its *)
(* value.                                                                  *)
SetPreference(h, p) ==
  LET old == { q \in installed[h].preferences : q.name = p.name }
  IN  /\ h \in DOMAIN installed
      /\ \A q \in old : ~ q.readonly
      /\ installed' = [installed EXCEPT ![h].preferences =
           (@ \ old) \cup {IF old = {} THEN p ELSE [p EXCEPT !.readonly = FALSE]}]
      /\ UNCHANGED << forms, settings, whiteURIs >>

RemovePreference(h, name) ==
  /\ h \in DOMAIN installed
  /\ \E q \in installed[h].preferences :
       /\ q.name = name /\ ~ q.readonly
       /\ installed' = [installed EXCEPT ![h].preferences = @ \ {q}]
  /\ UNCHANGED << forms, settings, whiteURIs >>

(* Every feature of that name is rejected or allowed. *)
Reject(h, name, rejected) ==
  /\ h \in DOMAIN installed
  /\ installed' = [installed EXCEPT ![h].features =
       { IF f.name = name THEN [f EXCEPT !.rejected = rejected] ELSE f : f \in @ }]
  /\ UNCHANGED << forms, settings, whiteURIs >>

SaveForm(url, data) ==
  /\ forms' = [forms EXCEPT ![url] = data]
  /\ UNCHANGED << installed, settings, whiteURIs >>

Switch(column, value) ==
  /\ settings' = [settings EXCEPT ![column] = value]
  /\ UNCHANGED << installed, forms, whiteURIs >>

(* A URI is in the list once, with the subdomains it was given with. *)
Allow(uri, subDomains) ==
  /\ \A i \in DOMAIN whiteURIs : whiteURIs[i].strIRI # uri
  /\ whiteURIs' = Append(whiteURIs, [strIRI |-> uri, bSubDomains |-> subDomains])
  /\ UNCHANGED << installed, forms, settings >>

Disallow(uri) ==
  /\ whiteURIs' = SelectSeq(whiteURIs, LAMBDA w : w.strIRI # uri)
  /\ UNCHANGED << installed, forms, settings >>

FeatureNames == UNION { {f.name : f \in info.featuresList} : info \in Infos }

Next ==
  \/ \E h \in Handles :
       \/ \E info \in Infos : Register(h, info)
       \/ Unregister(h)
       \/ \E pkgname \in Pkgnames : Rename(h, pkgname)
       \/ \E p \in Preferences : SetPreference(h, p)
       \/ \E p \in Preferences : RemovePreference(h, p.name)
       \/ \E name \in FeatureNames, rejected \in BOOLEAN : Reject(h, name, rejected)
  \/ \E url \in Urls, data \in Forms : SaveForm(url, data)
  \/ \E column \in GlobalColumns, value \in {0, 1} : Switch(column, value)
  \/ \E uri \in WhiteURIs : Disallow(uri) \/ \E sub \in BOOLEAN : Allow(uri, sub)

Spec == Init /\ [][Next]_registry
=============================================================================
