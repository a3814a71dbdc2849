SPECIFICATION Spec
CONSTANTS
  NULL = NULL
  Handles = {1}
  Infos <- MCSmallInfos
  Pkgnames = {"pkg2"}
  Preferences <- MCPreferences
  Urls = {}
  Forms <- MCForms
  Libraries = {"l1", "l2"}
  Capabilities <- MCCapabilities
  GlobalColumns = {}
  WhiteURIs = {}
  MaxDependencies = 2
  MaxWidgets = 2
  Roles <- MCDependencies
  MaxFaults = 1
  W = 4
INVARIANT WidgetsAreWhole
