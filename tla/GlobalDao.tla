------------------------------ MODULE GlobalDao ------------------------------
(***************************************************************************)
(* GlobalDAO, the settings of the runtime, and AutoSaveDAO, the submitted  *)
(* forms of a page: each a few statements, given as programs like those of *)
(* PluginDao.  A setter of GlobalDAO opens no scope: its one statement     *)
(* commits by itself.                                                      *)
(***************************************************************************)
EXTENDS WidgetRegistration

(* The one row that the schema inserts. *)
DefaultProperties ==
  [ developer_mode |-> 0, secure_by_default |-> 1, compliance_mode |-> 0,
    home_network_data_usage |-> 1, roaming_data_usage |-> 1,
    compliance_fake_imei |-> "", compliance_fake_meid |-> "", cookie_sharing_mode |-> 0 ]

(* SetDeveloperMode, SetSecureByDefault, setComplianceMode and its fakes,  *)
(* SetHomeNetworkDataUsage, SetRoamingDataUsage.                           *)
SetGlobal(column, value) ==
  << UpdateSet("GlobalProperties", <<>>, [c \in {column} |-> value]) >>

(* Their getters. *)
GetGlobal(d, column) == GetSingleValue(d, "GlobalProperties", <<>>, column)

AddWhiteURI(uri, subDomain) ==
  << InsertInto("WidgetWhiteURIList",
       [uri |-> uri, subdomain_access |-> IF subDomain THEN 1 ELSE 0]),
     Commit >>

RemoveWhiteURI(uri) == << DeleteFrom("WidgetWhiteURIList", [uri |-> uri]) >>

GetWhiteURIList(d) ==
  LET list == GetRowList(d, "WidgetWhiteURIList", <<>>)
  IN  [i \in DOMAIN list |->
         [strIRI |-> list[i].uri, bSubDomains |-> list[i].subdomain_access = 1]]

-----------------------------------------------------------------------------
(* AutoSaveDAO *)

getAutoSaveSubmitFormData(d, url) ==
  LET rows == GetRowList(d, "AutoSaveSubmitFormElement", [address |-> url])
  IN  [i \in DOMAIN rows |-> [key |-> rows[i].key, value |-> rows[i].value]]

(* What was saved for the page is replaced. *)
setAutoSaveSubmitFormData(d, url, data) ==
  (IF getAutoSaveSubmitFormData(d, url) = <<>> THEN <<>>
   ELSE << DeleteFrom("AutoSaveSubmitFormElement", [address |-> url]) >>)
  \o InsertAll("AutoSaveSubmitFormElement",
       [i \in DOMAIN data |-> [address |-> url, key |-> data[i].key, value |-> data[i].value]])
  \o << Commit >>
=============================================================================
