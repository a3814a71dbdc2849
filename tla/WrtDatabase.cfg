SPECIFICATION Spec
CONSTANTS
  NULL = NULL
  Handles = {1, 2}
  Infos <- MCInfos
  Pkgnames = {"pkg2"}
  Preferences <- MCPreferences
  Urls = {"url1", "url2"}
  Forms <- MCForms
  Libraries = {"l1", "l2"}
  Capabilities <- MCCapabilities
  GlobalColumns = {"developer_mode", "cookie_sharing_mode"}
  WhiteURIs = {"http://a"}
  MaxDependencies = 1
  MaxWidgets = 2
  Roles <- MCRoles
  MaxFaults = 1
  W = 4
INVARIANT DatabaseInOrder
PROPERTY ImplementsRegistry
