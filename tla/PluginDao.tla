----------------------------- MODULE PluginDao -----------------------------
(***************************************************************************)
(* PluginDAO, FeatureDAO and their read-only halves: the plugins that      *)
(* implement features, the objects and device capabilities they register.  *)
(*                                                                         *)
(* An operation that writes is given as the program it runs: the sequence  *)
(* of the statements that WrtDatabase executes, with "commit" where the    *)
(* code calls ScopedTransaction::Commit and "throw" where it throws.  An   *)
(* operation that reads is an operator on the database.                    *)
(***************************************************************************)
EXTENDS Orm

INVALID_PLUGIN_HANDLE == -1

COMPLETED   == 1          \* INSTALLATION_COMPLETED
IN_PROGRESS == 2          \* INSTALLATION_IN_PROGRESS
UNKNOWN     == 4          \* UNKNOWN_ERROR

Commit   == [do |-> "commit"]
Throw(e) == [do |-> "throw", what |-> e]

-----------------------------------------------------------------------------
(* PluginDAOReadOnly *)

ById(handle)  == [PluginPropertiesId |-> handle]
ByName(name)  == [PluginLibraryName |-> name]

PluginInstalled(d, handle)    == Exists(d, "PluginProperties", ById(handle))
LibraryInstalled(d, name)     == Exists(d, "PluginProperties", ByName(name))

getPluginHandleList(d) == GetValueList(d, "PluginProperties", <<>>, "PluginPropertiesId")

getInstallationStateForHandle(d, handle) ==
  IF PluginInstalled(d, handle)
  THEN GetSingleValue(d, "PluginProperties", ById(handle), "InstallationState")
  ELSE UNKNOWN

(* The constructor from a handle throws unless the plugin is there and its *)
(* installation completed.                                                 *)
PluginUsable(d, handle) ==
  /\ PluginInstalled(d, handle)
  /\ getInstallationStateForHandle(d, handle) = COMPLETED

(* The constructor from a library's name: the handle, NULL for an          *)
(* exception.                                                              *)
PluginOfLibrary(d, name) ==
  LET handle == GetSingleValue(d, "PluginProperties", ByName(name), "PluginPropertiesId")
  IN  IF handle # NULL /\ getInstallationStateForHandle(d, handle) = COMPLETED
      THEN handle ELSE NULL

getLibraryPath(d, handle) ==
  ColumnString(GetSingleValue(d, "PluginProperties", ById(handle), "PluginLibraryPath"))

getLibraryDependencies(d, handle) ==
  ToSet(GetValueList(d, "PluginDependencies", ById(handle), "RequiredPluginPropertiesId"))

getPluginHandleForImplementedObject(d, object) ==
  LET handle == GetSingleValue(d, "PluginImplementedObjects", [PluginObject |-> object],
                               "PluginPropertiesId")
  IN  IF handle = NULL THEN INVALID_PLUGIN_HANDLE ELSE handle

getImplementedObjectsForPluginHandle(d, handle) ==
  GetValueList(d, "PluginImplementedObjects", ById(handle), "PluginObject")

getRequiredObjectsForPluginHandle(d, handle) ==
  ToSet(GetValueList(d, "PluginRequiredObjects", ById(handle), "PluginObject"))

getPluginHandleByStatus(d, state) ==
  ToSet(GetValueList(d, "PluginProperties", [InstallationState |-> state],
                     "PluginPropertiesId"))

-----------------------------------------------------------------------------
(* PluginDAO *)

(* A library that is already registered gives its handle, if its           *)
(* installation completed: PluginDAO(libraryName) throws otherwise, and    *)
(* the scope rolls back.                                                   *)
registerPlugin(d, library, path) ==
  IF LibraryInstalled(d, library)
  THEN IF PluginOfLibrary(d, library) = NULL
       THEN << Throw("PluginInstallationNotCompleted") >>
       ELSE << Commit >>
  ELSE << InsertInto("PluginProperties",
            [ PluginPropertiesId |-> d.next["PluginProperties"],
              PluginLibraryName  |-> library,
              InstallationState  |-> IN_PROGRESS,
              PluginLibraryPath  |-> path ]),
          Commit >>

registerPluginImplementedObject(d, object, handle) ==
  << InsertInto("PluginImplementedObjects",
       [PluginObject |-> object, PluginPropertiesId |-> handle]),
     Commit >>

registerPluginRequiredObject(d, object, handle) ==
  << InsertInto("PluginRequiredObjects",
       [PluginObject |-> object, PluginPropertiesId |-> handle]),
     Commit >>

(* The commit is inside the loop: one for each dependency, none without.   *)
registerPluginLibrariesDependencies(d, handle, dependencies) ==
  LET list == SetToSeq(dependencies)
  IN  FlattenSeq([i \in DOMAIN list |->
        << InsertInto("PluginDependencies",
             [PluginPropertiesId |-> handle, RequiredPluginPropertiesId |-> list[i]]),
           Commit >>])

setPluginInstallationStatus(d, handle, state) ==
  << UpdateSet("PluginProperties", ById(handle), [InstallationState |-> state]), Commit >>

-----------------------------------------------------------------------------
(* FeatureDAOReadOnly *)

FeatureInstalled(d, name) == Exists(d, "FeaturesList", [FeatureName |-> name])

(* The constructor from a name takes what GetSingleValue gives: 0, and no  *)
(* exception, for a feature that is not there.                             *)
FeatureHandle(d, name) ==
  ColumnInteger(GetSingleValue(d, "FeaturesList", [FeatureName |-> name], "FeatureUUID"))

GetPluginHandle(d, feature) ==
  ColumnInteger(GetSingleValue(d, "FeaturesList", [FeatureUUID |-> feature],
                               "PluginPropertiesId"))

FeatureGetName(d, feature) ==
  ColumnString(GetSingleValue(d, "FeaturesList", [FeatureUUID |-> feature], "FeatureName"))

GetFeatureHandleListForPlugin(d, handle) ==
  GetValueList(d, "FeaturesList", ById(handle), "FeatureUUID")

(* GetLibraryPath and GetLibraryName construct the plugin, which throws    *)
(* when it is not usable.                                                  *)
GetLibraryPath(d, feature) ==
  LET handle == GetPluginHandle(d, feature)
  IN  IF PluginUsable(d, handle) THEN getLibraryPath(d, handle) ELSE NULL

CapabilityInstalled(d, cap) == Exists(d, "DeviceCapabilities", [DeviceCapName |-> cap])

GetDeviceCapabilities(d, feature) ==
  LET ids == GetValueList(d, "FeatureDeviceCapProxy", [FeatureUUID |-> feature], "DeviceCapID")
  IN  { ColumnString(GetSingleValue(d, "DeviceCapabilities", [DeviceCapID |-> ids[i]],
                                    "DeviceCapName")) : i \in DOMAIN ids }

(* The same by name in GlobalDAOReadOnly. *)
GetDeviceCapability(d, name) == GetDeviceCapabilities(d, FeatureHandle(d, name))

GetNames(d) ==
  LET rows == GetRowList(d, "FeaturesList", <<>>)
  IN  { << rows[i].FeatureUUID, rows[i].FeatureName >> : i \in DOMAIN rows }

(* The join of the proxy with the capabilities, gathered into a map that   *)
(* has room for several capabilities of a feature.                         *)
GetDevCapWithFeatureHandle(d) ==
  { CustomRow(x, "FeatureUUID", "DeviceCapName") :
      x \in Join(d, "FeatureDeviceCapProxy", "DeviceCapabilities", "DeviceCapID") }

-----------------------------------------------------------------------------
(* FeatureDAO::RegisterFeature: the capabilities already known are reused. *)

(* The id of each capability, with the statement that makes it if it has   *)
(* to.                                                                     *)
CapabilityRows(d, caps) ==
  [i \in DOMAIN caps |->
     IF CapabilityInstalled(d, caps[i])
     THEN << GetSingleValue(d, "DeviceCapabilities", [DeviceCapName |-> caps[i]],
                            "DeviceCapID"), <<>> >>
     ELSE LET id == d.next["DeviceCapabilities"]
                    + Cardinality({j \in 1 .. i - 1 : ~ CapabilityInstalled(d, caps[j])})
          IN  << id, << InsertInto("DeviceCapabilities",
                          [DeviceCapID |-> id, DeviceCapName |-> caps[i]]) >> >>]

RegisterFeature(d, name, capabilities, handle) ==
  IF FeatureInstalled(d, name)
  THEN << Commit >>
  ELSE LET uuid == d.next["FeaturesList"]
           rows == CapabilityRows(d, SetToSeq(capabilities))
       IN  << InsertInto("FeaturesList",
                [FeatureUUID |-> uuid, FeatureName |-> name, PluginPropertiesId |-> handle]) >>
           \o FlattenSeq([i \in DOMAIN rows |-> rows[i][2] \o
                << InsertInto("FeatureDeviceCapProxy",
                     [FeatureUUID |-> uuid, DeviceCapID |-> rows[i][1]]) >>])
           \o << Commit >>
=============================================================================
