------------------------------- MODULE Orm -------------------------------
(***************************************************************************)
(* The relational core that the data access objects are written in: the    *)
(* tables of wrt_db with their keys, the queries of dpl/db/orm.h over them *)
(* and the conversions of SqlConnection::DataCommand.                      *)
(*                                                                         *)
(* A database is a record of tables, a table the sequence of its rows in   *)
(* the order of their row ids, a row a record of columns.  A query's WHERE *)
(* is a record of the columns that must be equal.  "next" holds the        *)
(* counters of the autoincrement columns.                                  *)
(***************************************************************************)
EXTENDS Integers, Sequences, FiniteSets, SequencesExt

CONSTANT NULL      \* the SQL NULL

(* PRIMARY KEY and unique constraints of each table. *)
Keys ==
  [ WidgetInfo                   |-> {{"app_id"}},
    WidgetExtendedInfo           |-> {{"app_id"}},
    LocalizedWidgetInfo          |-> {{"app_id", "widget_locale"}},
    WidgetPreference             |-> {{"app_id", "key_name"}},
    WidgetFeature                |-> {{"widget_feature_id"}},
    FeatureParam                 |-> {},
    WidgetIcon                   |-> {{"icon_id"}},
    WidgetLocalizedIcon          |-> {{"icon_id", "widget_locale"}},
    WidgetStartFile              |-> {{"start_file_id"}},
    WidgetLocalizedStartFile     |-> {{"start_file_id", "widget_locale"}},
    WidgetCertificate            |-> {},
    WidgetCertificateFingerprint |-> {{"app_id", "chainid", "owner", "type"}},
    WidgetWindowModes            |-> {},
    WidgetWARPInfo               |-> {{"app_id", "iri"}},
    SettginsList                 |-> {},
    ApplicationServiceInfo       |-> {{"app_id", "operation", "scheme", "mime"}},
    EncryptedResourceList        |-> {},
    FeaturesList                 |-> {{"FeatureUUID"}, {"FeatureName"}},
    PluginProperties             |-> {{"PluginPropertiesId"}, {"PluginLibraryName"}},
    PluginDependencies           |-> {},
    PluginImplementedObjects     |-> {{"PluginObject"}},
    PluginRequiredObjects        |-> {},
    DeviceCapabilities           |-> {{"DeviceCapID"}, {"DeviceCapName"}},
    FeatureDeviceCapProxy        |-> {{"FeatureUUID", "DeviceCapID"}},
    WidgetWhiteURIList           |-> {{"uri"}},
    GlobalProperties             |-> {},
    UserAgents                   |-> {{"key_name"}},
    AutoSaveSubmitFormElement    |-> {} ]

Tables == DOMAIN Keys

(* FOREIGN KEY ... ON DELETE CASCADE: the column of the child that names   *)
(* the row of the parent; both sides use the same column name but for      *)
(* SettginsList.                                                           *)
ForeignKey(column, parent, key) == [column |-> column, parent |-> parent, key |-> key]

OfWidget == ForeignKey("app_id", "WidgetInfo", "app_id")

Parents ==
  [ t \in Tables |->
      CASE t \in {"WidgetExtendedInfo", "LocalizedWidgetInfo", "WidgetPreference",
                  "WidgetFeature", "WidgetIcon", "WidgetStartFile", "WidgetCertificate",
                  "WidgetCertificateFingerprint", "WidgetWindowModes", "WidgetWARPInfo",
                  "ApplicationServiceInfo", "EncryptedResourceList"} -> {OfWidget}
        [] t = "SettginsList" -> {ForeignKey("appId", "WidgetInfo", "app_id")}
        [] t = "FeatureParam" ->
             {ForeignKey("widget_feature_id", "WidgetFeature", "widget_feature_id")}
        [] t = "WidgetLocalizedIcon" -> {ForeignKey("icon_id", "WidgetIcon", "icon_id")}
        [] t = "WidgetLocalizedStartFile" ->
             {ForeignKey("start_file_id", "WidgetStartFile", "start_file_id")}
        [] OTHER -> {} ]

(* The columns declared "primary key autoincrement". *)
AutoIncrement ==
  [ WidgetFeature      |-> "widget_feature_id",
    WidgetIcon         |-> "icon_id",
    WidgetStartFile    |-> "start_file_id",
    FeaturesList       |-> "FeatureUUID",
    PluginProperties   |-> "PluginPropertiesId",
    DeviceCapabilities |-> "DeviceCapID" ]

EmptyDatabase ==
  [ rows |-> [t \in Tables |-> <<>>], next |-> [t \in DOMAIN AutoIncrement |-> 1] ]

-----------------------------------------------------------------------------
(* Queries. *)

Matches(row, where) == \A c \in DOMAIN where : row[c] = where[c]

(* Select::GetRowList: every step of the command gives a row. *)
GetRowList(d, table, where) ==
  SelectSeq(d.rows[table], LAMBDA r : Matches(r, where))

(* Select::GetValueList: one column of each row. *)
GetValueList(d, table, where, column) ==
  LET list == GetRowList(d, table, where)
  IN  [i \in DOMAIN list |-> list[i][column]]

(* Select::GetSingleValue does not look at what Step returned: past the    *)
(* last row every column reads as NULL.                                    *)
GetSingleValue(d, table, where, column) ==
  LET list == GetRowList(d, table, where)
  IN  IF list = <<>> THEN NULL ELSE list[1][column]

(* Select::GetSingleRow, of the columns given. *)
GetSingleRow(d, table, where, columns) ==
  LET list == GetRowList(d, table, where)
  IN  IF list = <<>> THEN [c \in columns |-> NULL] ELSE list[1]

(* DataCommand::GetColumnInteger and its widths, and GetColumnString: a    *)
(* NULL of a column that is not optional reads as 0 and as "".             *)
ColumnInteger(v) == IF v = NULL THEN 0 ELSE v
ColumnString(v)  == IF v = NULL THEN "" ELSE v

Exists(d, table, where) == GetRowList(d, table, where) # <<>>

RowsOf(d, table) == { d.rows[table][i] : i \in DOMAIN d.rows[table] }

(* Select::Join of two tables on a column of the same name, and the custom *)
(* row that holds a column of each.                                        *)
Join(d, table, other, column) ==
  { p \in RowsOf(d, table) \X RowsOf(d, other) : p[1][column] = p[2][column] }

CustomRow(pair, first, second) == << pair[1][first], pair[2][second] >>

(* A statement that changes the database, as Insert, Update and Delete     *)
(* build it.                                                               *)
InsertInto(table, row)        == [do |-> "insert", table |-> table, row |-> row]
UpdateSet(table, where, row)  == [do |-> "update", table |-> table, where |-> where, row |-> row]
DeleteFrom(table, where)      == [do |-> "delete", table |-> table, where |-> where]

(* Mutant: the constraint of the icons' table is not declared. *)
UncascadedChildren(t) ==
  { c \in Tables : c # "WidgetLocalizedIcon" /\ \E f \in Parents[c] : f.parent = t }

Children(t) == { c \in Tables : \E f \in Parents[c] : f.parent = t }

(* The rows of table t that stay when the rows of its parents that "gone"  *)
(* names are deleted.                                                      *)
Orphaned(t, row, gone) ==
  \E f \in Parents[t] : \E p \in gone[f.parent] : p[f.key] = row[f.column]

(* DELETE with its cascade: the schema is two levels deep. *)
DeleteRows(d, table, where) ==
  LET first  == [t \in Tables |-> IF t = table
                   THEN {r \in RowsOf(d, t) : Matches(r, where)} ELSE {}]
      second == [t \in Tables |-> IF t \in Children(table)
                   THEN {r \in RowsOf(d, t) : Orphaned(t, r, first)} ELSE first[t]]
      third  == [t \in Tables |->
                   IF \E c \in Children(table) : t \in Children(c)
                   THEN {r \in RowsOf(d, t) : Orphaned(t, r, second)} ELSE second[t]]
  IN  [d EXCEPT !.rows =
         [t \in Tables |-> SelectSeq(d.rows[t], LAMBDA r : r \notin third[t])]]

InsertRow(d, table, row) ==
  [ rows |-> [d.rows EXCEPT ![table] = Append(@, row)],
    next |-> IF table \in DOMAIN AutoIncrement
             THEN [d.next EXCEPT ![table] = row[AutoIncrement[table]] + 1] ELSE d.next ]

(* UPDATE sets the columns that the row has set. *)
UpdateRows(d, table, where, set) ==
  [d EXCEPT !.rows[table] =
     [i \in DOMAIN @ |-> IF Matches(@[i], where)
                         THEN [c \in DOMAIN @[i] |-> IF c \in DOMAIN set THEN set[c] ELSE @[i][c]]
                         ELSE @[i]]]

Applied(d, s) ==
  CASE s.do = "insert" -> InsertRow(d, s.table, s.row)
    [] s.do = "update" -> UpdateRows(d, s.table, s.where, s.row)
    [] s.do = "delete" -> DeleteRows(d, s.table, s.where)

(* SQLite refuses a statement that breaks a key or leaves a row without    *)
(* its parent; Step then throws InternalError.                             *)
KeysHold(d, t) ==
  \A k \in Keys[t] : \A i, j \in DOMAIN d.rows[t] :
    (\A c \in k : d.rows[t][i][c] = d.rows[t][j][c]) => i = j

ParentsExist(d, t) ==
  \A f \in Parents[t] : \A r \in RowsOf(d, t) :
    \E p \in RowsOf(d, f.parent) : p[f.key] = r[f.column]

Accepted(d, s) ==
  LET e == Applied(d, s)
  IN  KeysHold(e, s.table) /\ (s.do # "delete" => ParentsExist(e, s.table))
=============================================================================
