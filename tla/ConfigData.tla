----------------------------- MODULE ConfigData -----------------------------
(***************************************************************************)
(* What is registered of a widget, as the parser of config.xml leaves it:  *)
(* the types of WidgetRegisterInfo and ConfigParserData, the orders that   *)
(* decide what their sets can hold, and the normalisation of texts.        *)
(*                                                                         *)
(* Names and values are numbers here: only their order matters.            *)
(***************************************************************************)
EXTENDS Integers, Sequences, FiniteSets, SequencesExt

-----------------------------------------------------------------------------
(* The operators < of the elements; a std::set holds no two elements of    *)
(* which neither is less.                                                  *)

ParamLess(a, b) ==
  IF a.name = b.name THEN a.value < b.value ELSE a.name < b.name

(* Param::operator<=, which looks at the values of different names.        *)
ParamLessOrEqual(a, b) == a.name <= b.name \/ a.value <= b.value

(* The order of two std::set<Param>: that of their sorted elements.        *)
ParamsLess(S, T) ==
  LET Smallest(U) == CHOOSE p \in U : \A q \in U : p = q \/ ParamLess(p, q)
      D == {p \in S \cup T : p \notin S \cap T}
  IN  /\ D # {}
      /\ LET first == Smallest(D)
         IN  IF first \in S
             THEN \E q \in T : ParamLess(first, q)
             ELSE ~ \E q \in S : ParamLess(first, q)

(* "required" is not compared. *)
FeatureLess(a, b) ==
  \/ a.name < b.name
  \/ a.name = b.name /\ ParamsLess(a.params, b.params)

IconLess(a, b)       == a.src < b.src
PreferenceLess(a, b) == a.name < b.name

(* FALSE is less than TRUE. *)
AccessInfoLess(a, b) ==
  IF a.iri = b.iri THEN ~ a.sub /\ b.sub ELSE a.iri < b.iri

(* Two settings of one name are the same element, whatever their values:   *)
(* == and < disagree.                                                      *)
SettingLess(a, b)  == a.name < b.name
SettingEqual(a, b) == a.name = b.name /\ a.value = b.value

(* ServiceInfo::operator!= wants every member to differ. *)
ServiceEqual(a, b)    == \A c \in DOMAIN a : a[c] = b[c]
ServiceDifferent(a, b) == \A c \in DOMAIN a : a[c] # b[c]

(* What std::set wants of the order of its elements: it is strict, and to  *)
(* be unordered with one another is transitive.                            *)
StrictWeakOrder(S, Less(_, _)) ==
  LET Same(a, b) == ~ Less(a, b) /\ ~ Less(b, a)
  IN  \A a, b, c \in S :
        /\ ~ (Less(a, b) /\ Less(b, a))
        /\ Less(a, b) /\ Less(b, c) => Less(a, c)
        /\ Same(a, b) /\ Same(b, c) => Same(a, c)

-----------------------------------------------------------------------------
(* The types.  A set of the parser holds one element of each class of its  *)
(* order: one setting and one preference of a name, but a feature once for *)
(* each set of parameters and an IRI with and without its subdomains.      *)

OneOfEachName(S) == \A a, b \in S : a.name = b.name => a = b

IsConfigParserData(info) ==
  /\ OneOfEachName(info.preferencesList)
  /\ \A a, b \in info.settingsList : a[1] = b[1] => a = b
  /\ \A a, b \in info.featuresList : a.name = b.name /\ a.paramsList = b.paramsList => a = b
  /\ \A a, b \in info.localizedDataSet : a.locale = b.locale => a = b
  /\ \A a \in info.accessInfoSet : a.sub \in BOOLEAN
  /\ \A a \in Range(info.appServiceList) :
       DOMAIN a = {"src", "operation", "scheme", "mime"}

IsWidgetRegisterInfo(info) ==
  /\ IsConfigParserData(info)
  /\ info.isFactoryWidget \in BOOLEAN
  /\ info.isTestWidget \in BOOLEAN
  /\ \A i \in DOMAIN info.icons : DOMAIN info.icons[i] = {"src", "locales"}
  /\ \A i \in DOMAIN info.startFiles :
       \A a, b \in info.startFiles[i].propertiesForLocales :
         a.locale = b.locale => a = b

-----------------------------------------------------------------------------
(* Texts, as sequences of characters, each the sequence of its bytes.      *)

(* The cases of IsSpace: one byte; two, of which only the second is looked *)
(* at; three.  The case e2 80 falls through to that of e2 81, so e2 80 9f  *)
(* is a space as well as e2 81 9f.                                         *)
IsSpace(c) ==
  CASE Len(c) = 1 -> c[1] \in {9, 10, 11, 12, 13, 32}
    [] Len(c) = 2 -> c[2] \in {133, 160}
    [] Len(c) = 3 ->
         \/ c \in {<< 225, 154, 128 >>, << 225, 160, 142 >>, << 227, 128, 128 >>}
         \/ c[1] = 226 /\ c[2] = 128 /\ c[3] \in (128 .. 138) \cup {168, 169, 175}
         \/ c[1] = 226 /\ c[2] \in {128, 129} /\ c[3] = 159
    [] OTHER -> FALSE

Space == << 32 >>

(* Mutant: the spaces at the start are not skipped. *)
KeepLeading(txt) ==
  LET Take(out, c) ==
        CASE IsSpace(c)              -> [out EXCEPT !.first = TRUE]
          [] ~ IsSpace(c) /\ out.first -> [text |-> out.text \o << Space, c >>, first |-> FALSE]
          [] OTHER                     -> [out EXCEPT !.text = Append(@, c)]
  IN  FoldLeft(Take, [text |-> <<>>, first |-> FALSE], txt).text

(* Spaces at the start are skipped; a later run of them is kept in mind    *)
(* ("first") and becomes one when a character follows.                     *)
NormalizeString(txt) ==
  LET start == { i \in DOMAIN txt : ~ IsSpace(txt[i]) }
      rest  == IF start = {} THEN <<>>
               ELSE SubSeq(txt, CHOOSE i \in start : \A j \in start : i <= j, Len(txt))
      Take(out, c) ==
        CASE IsSpace(c)              -> [out EXCEPT !.first = TRUE]
          [] ~ IsSpace(c) /\ out.first -> [text |-> out.text \o << Space, c >>, first |-> FALSE]
          [] OTHER                     -> [out EXCEPT !.text = Append(@, c)]
  IN  FoldLeft(Take, [text |-> <<>>, first |-> FALSE], rest).text

(* What the specification of widgets asks for: the characters that are not *)
(* spaces in their order, one space where there were any between two of    *)
(* them, none at the ends; and a normal text is left alone.                *)
Normal(txt, result) ==
  LET Characters(t) == SelectSeq(t, LAMBDA c : ~ IsSpace(c))
      Words(t) == {w \in (DOMAIN t) \X (DOMAIN t) :
                     w[1] < w[2] /\ \A k \in w[1] .. w[2] : (k \in {w[1], w[2]}) = ~ IsSpace(t[k])}
      Between(t) == Cardinality({w \in Words(t) : w[2] > w[1] + 1})
  IN  /\ Characters(result) = Characters(txt)
      /\ Between(result) = Between(txt)
      /\ \A i \in DOMAIN result : IsSpace(result[i]) =>
           /\ result[i] = Space
           /\ i > 1 /\ i < Len(result) /\ ~ IsSpace(result[i + 1])
      /\ NormalizeString(result) = result
=============================================================================
