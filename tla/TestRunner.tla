----------------------------- MODULE TestRunner ----------------------------
(***************************************************************************)
(* DPL::Test::TestRunner and its collectors: the options choose tests, a   *)
(* starting point and a collector; RunTests runs what is chosen, group by  *)
(* group, and tells the collector each result.  A test may also take the   *)
(* process down; what the collectors have written by then is what is left. *)
(***************************************************************************)
EXTENDS Integers, Sequences, SequencesExt

CONSTANTS
  GroupOrder,  \* the names of the groups, in the order of the map
  Registered,  \* Registered[g]: the tests of group g; tests are ordered as their names are
  MaxOptions   \* bounds the options of the command line

VARIABLES
  options,    \* the number of options parsed
  testGroups, \* m_testGroups
  startTestId,\* m_startTestId; 0 for none
  collector,  \* the output that was chosen
  pc,         \* "options", "group" (RunTests comes to a group), "test", or how it ended
  group,      \* the index of the group RunTests is in
  todo,       \* the tests of that group still to visit, sorted
  collected,  \* ghost: the results the collector was told, as << group, test, result >>
  stats,      \* m_groupsStats and m_stats: the results counted, per group
  suites,     \* m_outputBuffer of XmlCollector: suites with their cases
  malformed,  \* m_outputBuffer lost the end of a tag
  file        \* what is in the collector's file, or on the console

vars == << options, testGroups, startTestId, collector, pc, group, todo, collected,
           stats, suites, malformed, file >>
argVars == << options, testGroups, startTestId, collector >>

GroupNames == {GroupOrder[k] : k \in 1 .. Len(GroupOrder)}
Sorted(tests) == SetToSortSeq(tests, <)
Unknown == 0  \* the test case that stands for a crash, "unknown"

NoTests == [g \in GroupNames |-> [total |-> 0, failed |-> 0, ignored |-> 0, passed |-> 0]]

Init ==
  /\ options = 0 /\ testGroups = Registered /\ startTestId = 0 /\ collector = "text"
  /\ pc = "options" /\ group = 1 /\ todo = << >>
  /\ collected = << >> /\ stats = NoTests
  /\ suites = << >> /\ malformed = FALSE /\ file = << >>

-----------------------------------------------------------------------------
(* ExecTestRunner: one option after the other; those that only list or     *)
(* fail end the program and are left out.                                  *)
Parsing ==
  /\ pc = "options" /\ options < MaxOptions
  /\ options' = options + 1
  /\ UNCHANGED << pc, group, todo, collected, stats, suites, malformed, file >>

(* --start: the test is looked up among those the options before it left. *)
ParseStart(test) ==
  /\ Parsing
  /\ \E g \in GroupNames : test \in testGroups[g]
  /\ startTestId' = test
  /\ UNCHANGED << testGroups, collector >>

(* --group: the others are cleared away. *)
ParseGroup(g) ==
  /\ Parsing
  /\ testGroups' = [h \in GroupNames |-> IF h = g THEN testGroups[g] ELSE {}]
  /\ UNCHANGED << startTestId, collector >>

(* --regexp: the groups stay, with the tests that match. *)
ParseRegexp(matching) ==
  /\ Parsing
  /\ testGroups' = [g \in GroupNames |-> testGroups[g] \cap matching]
  /\ UNCHANGED << startTestId, collector >>

ParseOutput(name) ==
  /\ Parsing
  /\ collector' = name
  /\ UNCHANGED << testGroups, startTestId >>

-----------------------------------------------------------------------------
(* The collectors.  The file is rewritten whole and flushed by xml, written *)
(* in order by text, csv and html (the console), and by tap at the end.    *)
Flush(buffer, lines) ==
  CASE collector = "xml" -> buffer
    [] collector = "tap" -> file
    [] OTHER -> lines

(* How a result is worded: csv does not tell an internal error from a      *)
(* failure, and tap takes it for a success.                                *)
Worded(result) ==
  CASE collector = "csv" /\ result = "INTERNAL" -> "FAILED"
    [] collector = "tap" -> IF result = "FAILED" THEN "not ok" ELSE "ok"
    [] OTHER -> result

(* Insert before the first occurrence of the unknown test case. *)
InsertBeforeUnknown(buffer, case) ==
  LET k == SelectInSeq(buffer, LAMBDA s : \E i \in DOMAIN s.cases : s.cases[i].test = Unknown)
      n == SelectInSeq(buffer[k].cases, LAMBDA c : c.test = Unknown)
  IN  [buffer EXCEPT ![k].cases = InsertAt(@, n, case)]

(* Statistic::AddTest: an internal error counts as a failure. *)
AddTest(stat, result) ==
  [stat EXCEPT !.total = @ + 1,
               !.failed = IF result \in {"FAILED", "INTERNAL"} THEN @ + 1 ELSE @,
               !.ignored = IF result = "IGNORED" THEN @ + 1 ELSE @,
               !.passed = IF result = "NONE" THEN @ + 1 ELSE @]

(* CollectCurrentTestGroupName: xml adds a suite with a case that says     *)
(* "segmentation fault" until the end of the run takes it out again.       *)
CollectCurrentTestGroupName(g) ==
  LET buffer == Append(suites, [name |-> g, total |-> -1,
                                cases |-> << [test |-> Unknown, result |-> "FAILED"] >>])
  IN  /\ suites' = IF collector = "xml" THEN buffer ELSE suites
      /\ file' = Flush(buffer, file)

(* Mutant: the file is rewritten, and the results are flushed with the     *)
(* statistics at the end.                                                  *)
CollectUnflushed(g, test, result) ==
  /\ collected' = Append(collected, << g, test, result >>)
  /\ stats' = [stats EXCEPT ![g] = AddTest(@, result)]
  /\ suites' = IF collector = "xml"
               THEN InsertBeforeUnknown(suites, [test |-> test, result |-> result])
               ELSE suites
  /\ file' = Flush(file, Append(file, << g, test, Worded(result) >>))

(* CollectResult. *)
CollectResult(g, test, result) ==
  LET buffer == IF collector = "xml"
                THEN InsertBeforeUnknown(suites, [test |-> test, result |-> result])
                ELSE suites
  IN  /\ collected' = Append(collected, << g, test, result >>)
      /\ stats' = [stats EXCEPT ![g] = AddTest(@, result)]
      /\ suites' = buffer
      /\ file' = Flush(buffer, Append(file, << g, test, Worded(result) >>))

-----------------------------------------------------------------------------
(* The end of the options: Configure and Start of the collector. *)
StartRun ==
  /\ pc = "options"
  /\ pc' = "group"
  /\ UNCHANGED << argVars, group, todo, collected, stats, suites, malformed, file >>

(* RunTests comes to the next group: an empty one is passed over. *)
EnterGroup ==
  LET g == GroupOrder[group]
  IN  /\ pc = "group" /\ group <= Len(GroupOrder)
      /\ IF testGroups[g] = {}
         THEN /\ group' = group + 1
              /\ UNCHANGED << pc, todo, suites, file >>
         ELSE /\ CollectCurrentTestGroupName(g)
              /\ todo' = Sorted(testGroups[g])
              /\ pc' = "test"
              /\ UNCHANGED group
      /\ UNCHANGED << argVars, collected, stats, malformed >>

LeaveGroup ==
  /\ pc = "test" /\ todo = << >>
  /\ pc' = "group" /\ group' = group + 1
  /\ UNCHANGED << argVars, todo, collected, stats, suites, malformed, file >>

(* A test before the one to start with is passed over. *)
SkipTest ==
  /\ pc = "test" /\ todo # << >>
  /\ startTestId # 0 /\ Head(todo) # startTestId
  /\ todo' = Tail(todo)
  /\ UNCHANGED << options, testGroups, startTestId, collector, pc, group, collected, stats,
                  suites, malformed, file >>

(* The test to start with ends the skipping. *)
Reached == /\ startTestId \in {0, Head(todo)} /\ startTestId' = 0

(* RunTestCase: the test returns, or throws what says that it failed, is   *)
(* ignored, or did not expect.                                             *)
RunTestCase(result) ==
  /\ pc = "test" /\ todo # << >>
  /\ Reached
  /\ CollectResult(GroupOrder[group], Head(todo), result)
  /\ todo' = Tail(todo)
  /\ UNCHANGED << options, testGroups, collector, pc, group, malformed >>

(* The test takes the process down (crashed); or it throws ToDo, a status  *)
(* that every collector's switch asserts is bad (assert).                  *)
TestKills(how) ==
  /\ pc = "test" /\ todo # << >>
  /\ Reached
  /\ pc' = how
  /\ UNCHANGED << options, testGroups, collector, group, todo, collected, stats, suites,
                  malformed, file >>

(* PrintStats of the groups that have results, and the first unknown case  *)
(* is erased, from the character before its indentation on: the end of the *)
(* line before it, or, after an internal error, which writes none, the end *)
(* of the tag before it.                                                   *)
WithStats(s) == IF stats[s.name].total = 0 THEN s ELSE [s EXCEPT !.total = stats[s.name].total]

FinishXml ==
  LET k == SelectInSeq(suites, LAMBDA s : \E i \in DOMAIN s.cases : s.cases[i].test = Unknown)
      n == SelectInSeq(suites[k].cases, LAMBDA c : c.test = Unknown)
      counted == [j \in DOMAIN suites |-> WithStats(suites[j])]
  IN  IF suites = << >>  \* nothing to erase: std::string::erase throws
      THEN /\ pc' = "exception"
           /\ UNCHANGED << suites, malformed, file >>
      ELSE /\ pc' = "finished"
           /\ suites' = [counted EXCEPT ![k].cases = RemoveAt(@, n)]
           /\ malformed' = (n > 1 /\ suites[k].cases[n - 1].result = "INTERNAL")
           /\ file' = suites'

(* Finish of the collector: tap writes the lines it has gathered. *)
Finish ==
  /\ pc = "group" /\ group > Len(GroupOrder)
  /\ IF collector = "xml"
     THEN FinishXml
     ELSE /\ pc' = "finished"
          /\ file' = IF collector # "tap" THEN file
                      ELSE [k \in DOMAIN collected |->
                              << collected[k][1], collected[k][2], Worded(collected[k][3]) >>]
          /\ UNCHANGED << suites, malformed >>
  /\ UNCHANGED << argVars, group, todo, collected, stats >>

Next ==
  \/ \E g \in GroupNames : \/ ParseGroup(g) \/ ParseRegexp(Registered[g])
                           \/ \E test \in Registered[g] : ParseStart(test) \/ ParseRegexp({test})
  \/ \E name \in {"csv", "tap", "xml"} : ParseOutput(name)
  \/ StartRun \/ EnterGroup \/ LeaveGroup \/ SkipTest \/ Finish
  \/ \E result \in {"NONE", "FAILED", "IGNORED", "INTERNAL"} : RunTestCase(result)
  \/ TestKills("crashed") \/ TestKills("assert")

Spec == Init /\ [][Next]_vars

-----------------------------------------------------------------------------
(* The tests left by the options, in the order they run in. *)
Plan == FlattenSeq([k \in 1 .. Len(GroupOrder) |-> Sorted(testGroups[GroupOrder[k]])])
Ran == [k \in 1 .. Len(collected) |-> collected[k][2]]

(* What runs is one stretch of the plan, without a gap or a repetition,    *)
(* and once the run is over, all of it from its first test to the end.     *)
RunsPlanInOrder ==
  /\ \E k \in 0 .. Len(Plan) : IsPrefix(Ran, SubSeq(Plan, k + 1, Len(Plan)))
  /\ pc = "finished" /\ Ran # << >> => IsSuffix(Ran, Plan)

(* The cases of the xml file: one suite after the other. *)
Cases(buffer) == FlattenSeq([k \in DOMAIN buffer |-> buffer[k].cases])
IsResult(case) == case.test # Unknown

(* However the run ends, the results are in the file of xml, each once and *)
(* in order, and while the run is inside a group, or was when it died, a   *)
(* failed case stands for the test that is running.                        *)
CrashLeavesResults ==
  collector = "xml" /\ pc # "options" =>
    /\ SelectSeq(Cases(file), IsResult)
         = [k \in DOMAIN collected |-> [test |-> collected[k][2], result |-> collected[k][3]]]
    /\ pc \in {"test", "crashed", "assert"} => ~ \A k \in DOMAIN Cases(file) : IsResult(Cases(file)[k])

=============================================================================
