-------------------------------- MODULE Popup ------------------------------
(***************************************************************************)
(* Popups: users in threads of their own ask the PopupController, in the   *)
(* main thread, to show a popup; the PopupRenderer shows one at a time,    *)
(* with widgets of the toolkit, and the answer of the person goes back to  *)
(* the user, who runs the callback in its own thread.                      *)
(***************************************************************************)
EXTENDS Integers, Sequences, FiniteSets, SequencesExt, Lists

CONSTANTS
  Popups,   \* the popups, made in advance
  Asker,    \* Asker[p]: the user that asks with popup p
  Objects,  \* Objects[p]: its objects in order: "label", "check", or the label id of a button
  NoPopup,
  MaxAsks   \* bounds how often a popup is shown

\* What the theorems about popups assume of the constants.
PopupAssumption == Objects \in [Popups -> Seq(STRING)] /\ NoPopup \notin Popups

VARIABLES
  asks,        \* asks[p]: how often p was asked with
  listening,   \* the popups whose user listens for the answer
  shows,       \* the ShowPopupEventShort events under way to the controller
  toRender,    \* m_popupsToRender
  current,     \* m_current
  canvas,      \* m_externalCanvas of the renderer is set
  checkState,  \* m_checkState, which nothing initialises
  created,     \* m_createdObjects: the kinds of the widgets and their parents (indices)
  alive,       \* the indices of the widgets that the toolkit has
  held,        \* those whose EvasObject still points to the widget
  answers,     \* the PopupAnswerEvents under way, in order
  received,    \* received[p]: the answers that the callback got
  initialized, \* m_initialized, of the manager and of the renderer
  failed,      \* an assertion failed: the process is gone
  misused,     \* ghost: a widget was deleted twice, or left behind
  toggled      \* ghost: what checkState should be: "undefined", "no" or the last choice

vars == << asks, listening, shows, toRender, current, canvas, checkState, created, alive, held,
           answers, received, initialized, failed, misused, toggled >>
userVars == << asks, listening, received >>
widgetVars == << created, alive, held, misused >>
renderVars == << toRender, current, canvas, checkState, widgetVars, toggled >>

Buttons(p) == {Objects[p][k] : k \in DOMAIN Objects[p]} \ {"label", "check"}

Init ==
  /\ asks = [p \in Popups |-> 0] /\ received = [p \in Popups |-> << >>]
  /\ listening = {} /\ shows = << >> /\ answers = << >>
  /\ toRender = << >> /\ current = NoPopup /\ canvas \in BOOLEAN
  /\ checkState \in {"on", "off"}
  /\ created = << >> /\ alive = {} /\ held = {} /\ misused = FALSE
  /\ initialized = TRUE /\ failed = FALSE
  /\ toggled = "undefined"

-----------------------------------------------------------------------------
(* A user listens for the answer of its popup and posts it to the          *)
(* controller, once it has the answer of the last time.                    *)
Ask(p) ==
  /\ ~failed /\ p \notin listening /\ asks[p] < MaxAsks
  /\ asks' = [asks EXCEPT ![p] = @ + 1]
  /\ listening' = listening \cup {p}
  /\ shows' = Append(shows, p)
  /\ UNCHANGED << received, renderVars, answers, initialized, failed >>

(* The widgets of a popup: the window, unless there is a canvas, the popup *)
(* in it, its layout, then the labels and checks, and the buttons.         *)
Widget(kind, parent) == [kind |-> kind, parent |-> parent]

WidgetsOf(p, inCanvas) ==
  LET frame == IF inCanvas
               THEN << Widget("popup", 0), Widget("layout", 1) >>
               ELSE << Widget("window", 0), Widget("popup", 1), Widget("layout", 2) >>
      main == IF inCanvas THEN 1 ELSE 2
      rows == Kept(Objects[p], {"label", "check"}) \o Kept(Objects[p], Buttons(p))
  IN  frame \o [k \in DOMAIN rows |-> Widget(rows[k], main)]

(* DoRender of the first popup of the queue, when none is shown. *)
DoRender(queue, shown, inCanvas) ==
  IF shown = NoPopup /\ queue # << >>
  THEN /\ current' = Head(queue) /\ toRender' = Tail(queue)
       /\ created' = WidgetsOf(Head(queue), inCanvas)
       /\ alive' = DOMAIN created' /\ held' = DOMAIN created'
  ELSE /\ current' = shown /\ toRender' = queue
       /\ UNCHANGED << created, alive, held >>

(* OnEventReceived(ShowPopupEventShort) in the controller: the renderer    *)
(* gets the canvas that the controller has now, which is an assertion if   *)
(* it was deinitialized; then Show queues the popup.                       *)
ReceiveShow(controllerCanvas) ==
  /\ ~failed /\ shows # << >>
  /\ shows' = Tail(shows)
  /\ IF initialized
     THEN /\ canvas' = controllerCanvas
          /\ DoRender(Append(toRender, Head(shows)), current, canvas')
          /\ UNCHANGED << checkState, misused, failed, toggled >>
     ELSE /\ failed' = TRUE
          /\ UNCHANGED renderVars
  /\ UNCHANGED << userVars, answers, initialized >>

-----------------------------------------------------------------------------
(* CheckCallback: the person toggles a box. *)
ToggleCheck(k, state) ==
  /\ ~failed /\ k \in alive \cap held /\ created[k].kind = "check"
  /\ checkState' = state /\ toggled' = state
  /\ UNCHANGED << userVars, shows, toRender, current, canvas, widgetVars, answers, initialized, failed >>

(* A widget takes those it is the parent of with it. *)
Family(k) == {i \in DOMAIN created :
                \/ i = k
                \/ created[i].parent = k
                \/ created[i].parent # 0 /\ created[created[i].parent].parent = k}

(* StaticOnDelEvent: each widget that goes disconnects its EvasObject. *)
OnDelEvent(holders, gone) == holders \ gone

(* evas_object_del of the k-th widget, if its EvasObject is still valid. *)
DeleteIfValid(s, k) ==
  IF k \notin s.held
  THEN s
  ELSE LET gone == Family(k) \cap s.alive
       IN  [alive |-> s.alive \ gone, held |-> OnDelEvent(s.held, gone),
            misused |-> s.misused \/ k \notin s.alive]

(* Mutant: what the person ticked stays for the popups to come. *)
CheckKept == UNCHANGED checkState

(* What is left to do after the answer. *)
CheckCleared == checkState' = "off"

(* The end of ButtonCallback: the objects are cleared, the next is shown. *)
AfterAnswer(left) ==
  IF toRender = << >>
  THEN /\ current' = NoPopup /\ created' = << >> /\ alive' = left.alive /\ held' = {}
       /\ UNCHANGED toRender
  ELSE DoRender(toRender, NoPopup, canvas)

(* Every widget that is valid is deleted, from the first to the last. *)
AllDeleted ==
  LET upTo[n \in 0 .. Len(created)] ==
        IF n = 0 THEN [alive |-> alive, held |-> held, misused |-> misused]
        ELSE DeleteIfValid(upTo[n - 1], n)
  IN  upTo[Len(created)]

(* ButtonCallback: the answer is forwarded, first by the manager to the    *)
(* controller, which emits it to the user's thread; the widgets are        *)
(* deleted, and the next popup is shown.                                   *)
ButtonCallback(k) ==
  LET left == AllDeleted
  IN  /\ ~failed /\ k \in alive \cap held
      /\ created[k].kind \notin {"window", "popup", "layout", "label", "check"}
      /\ IF ~initialized
         THEN /\ failed' = TRUE
              /\ UNCHANGED << renderVars, answers >>
         ELSE /\ answers' = Append(answers, [popup |-> current, button |-> created[k].kind,
                                             check |-> checkState, toggled |-> toggled])
              /\ misused' = (left.misused \/ left.alive # {})
              /\ CheckCleared /\ toggled' = "no"
              /\ AfterAnswer(left)
              /\ UNCHANGED << canvas, failed >>
      /\ UNCHANGED << userVars, shows, initialized >>

(* OnEventReceived(PopupAnswerEvent) in the user's thread: its callback,   *)
(* and it listens no more.                                                 *)
ReceiveAnswer(p) ==
  LET k == SelectInSeq(answers, LAMBDA a : Asker[a.popup] = Asker[p])
  IN  /\ ~failed /\ k # 0 /\ answers[k].popup = p
      /\ answers' = RemoveAt(answers, k)
      /\ received' = [received EXCEPT ![p] = Append(@, answers[k])]
      /\ listening' = listening \ {p}
      /\ UNCHANGED << asks, shows, renderVars, initialized, failed >>

(* Deinitialize drops the popups that are shown and that wait; the widgets *)
(* stay, and their callbacks as long as anybody holds the renderer, as     *)
(* every popup does.                                                       *)
Deinitialize ==
  /\ ~failed /\ initialized
  /\ initialized' = FALSE
  /\ current' = NoPopup /\ toRender' = << >>
  /\ UNCHANGED << userVars, shows, canvas, checkState, widgetVars, answers, failed, toggled >>

Press == \E k \in alive : ButtonCallback(k)

Next ==
  \/ \E p \in Popups : Ask(p) \/ ReceiveAnswer(p)
  \/ \E controllerCanvas \in BOOLEAN : ReceiveShow(controllerCanvas)
  \/ Press \/ Deinitialize
  \/ \E k \in alive, state \in {"on", "off"} : ToggleCheck(k, state)

(* The main loop and the users' threads come to their events; the person   *)
(* presses a button some time when there is one.                           *)
Fairness ==
  /\ WF_vars(\E controllerCanvas \in BOOLEAN : ReceiveShow(controllerCanvas)) /\ WF_vars(Press)
  /\ \A p \in Popups : WF_vars(ReceiveAnswer(p))

Spec == Init /\ [][Next]_vars /\ Fairness

-----------------------------------------------------------------------------
InFlight(p) == Cardinality({k \in DOMAIN shows : shows[k] = p})
                 + Cardinality({k \in DOMAIN toRender : toRender[k] = p})
                 + (IF current = p THEN 1 ELSE 0)
                 + Cardinality({k \in DOMAIN answers : answers[k].popup = p})

(* Each time a popup is asked with, it is under way in exactly one place   *)
(* until its user has the answer, unless the renderer was deinitialized.   *)
AskedOnceAnsweredOnce ==
  \A p \in Popups :
    /\ Len(received[p]) = asks[p] - (IF p \in listening THEN 1 ELSE 0)
    /\ initialized => InFlight(p) = IF p \in listening THEN 1 ELSE 0

(* An answer is of a button of the popup it is for, and its check state is *)
(* what the person ticked in that popup; of a popup nobody ticked anything *)
(* in it is no, except for the very first, whose state is undefined.       *)
AnswersAreOwn ==
  /\ AskedOnceAnsweredOnce
  /\ \A p \in Popups : \A k \in DOMAIN received[p] :
    LET a == received[p][k]
    IN  /\ a.popup = p /\ a.button \in Buttons(p)
        /\ a.check = CASE a.toggled = "no" -> "off"
                       [] a.toggled = "undefined" -> a.check
                       [] OTHER -> a.toggled

(* Deleting the widgets of a popup one by one, of which each takes others  *)
(* with it, deletes none twice, and leaves none behind for the next popup. *)
WidgetsDeletedOnce == ~misused

(* Whoever asked and waits is answered, as long as the renderer stays. *)
Waits(p) == p \in listening /\ initialized
=============================================================================
