-------------------------------- MODULE Preview --------------------------------
(* The preview window beside the clipboard window (window/preview.rs): requests that are shown,    *)
(* closed with an animation or at once and suppressed while the clipboard window hides, on several   *)
(* threads; the window that is built for a request and destroyed when idle; and where its panel is   *)
(* put on the screen.                                                                              *)
EXTENDS Integers, FiniteSets

CONSTANTS
    PreviewThread,  \* the threads that serve commands
    Previewed,      \* items
    NoPreview,
    AnchorOf,       \* [Previewed -> [left, top, width, height]]: where the item is on the screen
    Screen,         \* the rectangle of the overlay
    PanelSize,      \* PREVIEW_PANEL_WIDTH, PREVIEW_PANEL_HEIGHT
    Gap, Margin,    \* PREVIEW_PANEL_GAP, PREVIEW_PANEL_MARGIN
    MaxPreviewCalls, \* bounds: calls,
    MaxPreviewFaults \* and failures and windows destroyed

ASSUME PreviewAssumption ==
    /\ NoPreview \notin Previewed
    /\ AnchorOf \in [Previewed -> [left : Int, top : Int, width : Nat \ {0}, height : Nat \ {0}]]
    /\ Screen \in [left : Int, top : Int, width : Nat, height : Nat]
    /\ PanelSize \in [width : Nat \ {0}, height : Nat \ {0}]
    /\ Gap \in Nat /\ Margin \in Nat

VARIABLES
    clipWindow,     \* the clipboard window and PREVIEW_SUPPRESSED
    latest,         \* PREVIEW_REQUEST_ID, PREVIEW_PRESENTED_REQUEST_ID, PREVIEW_SESSION_ID
    previewState,   \* PREVIEW_STATE
    hideTask,       \* PREVIEW_HIDE_TASK: the request of a task that waits and of one that has woken, and whether one hides
    previewWindow,  \* the window, its page, and what the page shows
    previewCalls,   \* the calls, by thread, and the latest one of the clipboard page
    panel,          \* where the panel of the last request was put
    previewTally    \* history: the numbers of steps taken against the bounds, overlapping requests, ones that end late, and ones that ended half-way

previewVars == <<clipWindow, latest, previewState, hideTask, previewWindow, previewCalls, panel, previewTally>>

NoState == [req |-> 0, session |-> 0, item |-> NoPreview]
NoTask == [req |-> 0, woken |-> 0, late |-> FALSE]
\* A task that has woken is not aborted.
CancelTask(task) == [task EXCEPT !.req = 0]
NoCall == [op |-> "none", at |-> "idle", req |-> 0, session |-> 0, item |-> NoPreview, content |-> FALSE]

-----------------------------------------------------------------------------
(* Where the panel goes (all lengths are even) *)

Right(r) == r.left + r.width
Bottom(r) == r.top + r.height
Least(a, b) == IF a < b THEN a ELSE b
Most(a, b) == IF a > b THEN a ELSE b
Clamp(x, low, high) == Most(low, Least(x, high))

ClampRect(r, bounds) ==
    [r EXCEPT !.left = Clamp(@, bounds.left, Most(Right(bounds) - r.width, bounds.left)),
              !.top = Clamp(@, bounds.top, Most(Bottom(bounds) - r.height, bounds.top))]

InsetRect(r, n) == [left |-> r.left + n, top |-> r.top + n, width |-> Most(r.width - 2 * n, 1), height |-> Most(r.height - 2 * n, 1)]

\* resolve_source_rect: the part of the item that is on the screen.
SourceRect(a) ==
    LET l == Most(a.left, Screen.left)
        t == Most(a.top, Screen.top)
        w == Least(Right(a), Right(Screen)) - l
        h == Least(Bottom(a), Bottom(Screen)) - t
    IN  IF w <= 0 \/ h <= 0 THEN ClampRect(a, Screen) ELSE [left |-> l, top |-> t, width |-> w, height |-> h]

Fits(src, side) ==
    CASE side = "top" -> src.top - Gap - PanelSize.height - Margin >= Screen.top
      [] side = "right" -> Right(src) + Gap + PanelSize.width + Margin <= Right(Screen)
      [] side = "left" -> src.left - Gap - PanelSize.width - Margin >= Screen.left
      [] side = "bottom" -> Bottom(src) + Gap + PanelSize.height + Margin <= Bottom(Screen)

\* The first side with room for the panel, above the item if there is none.
Placement(src) ==
    IF Fits(src, "top") THEN "top" ELSE IF Fits(src, "right") THEN "right"
    ELSE IF Fits(src, "left") THEN "left" ELSE IF Fits(src, "bottom") THEN "bottom" ELSE "top"

RawPanelRect(src, side) ==
    LET middle == [left |-> src.left + (src.width - PanelSize.width) \div 2,
                   top |-> src.top + (src.height - PanelSize.height) \div 2,
                   width |-> PanelSize.width, height |-> PanelSize.height]
    IN  CASE side = "right" -> [middle EXCEPT !.left = Right(src) + Gap]
          [] side = "left" -> [middle EXCEPT !.left = src.left - Gap - PanelSize.width]
          [] side = "bottom" -> [middle EXCEPT !.top = Bottom(src) + Gap]
          [] OTHER -> [middle EXCEPT !.top = src.top - Gap - PanelSize.height]

PanelRect(src) == ClampRect(RawPanelRect(src, Placement(src)), InsetRect(Screen, Margin))

-----------------------------------------------------------------------------
PreviewTypeOK ==
    /\ clipWindow.visible \in BOOLEAN /\ clipWindow.suppressed \in BOOLEAN
    /\ latest.presented \in 0..latest.req /\ latest.session \in Nat
    /\ previewState.req \in 0..latest.req /\ previewState.item \in Previewed \cup {NoPreview}
    /\ hideTask.req \in 0..latest.req
    /\ previewWindow.shows \in Previewed \cup {NoPreview}
    /\ \A t \in PreviewThread : previewCalls[t].req \in 0..latest.req /\ previewCalls[t].item \in Previewed \cup {NoPreview}
    /\ panel \in Previewed \cup {NoPreview}

PreviewInit ==
    /\ clipWindow = [visible |-> TRUE, suppressed |-> FALSE]
    /\ latest = [req |-> 0, presented |-> 0, session |-> 0, caller |-> 0]
    /\ previewState = NoState /\ hideTask = NoTask
    /\ previewWindow = [here |-> FALSE, mounted |-> FALSE, visible |-> FALSE, shows |-> NoPreview]
    /\ previewCalls = [t \in PreviewThread |-> NoCall]
    /\ panel = NoPreview
    /\ previewTally = [calls |-> 0, faults |-> 0, overlapped |-> FALSE, slipped |-> FALSE, halfway |-> FALSE]

Calling(t) == previewTally.calls < MaxPreviewCalls /\ previewCalls[t] = NoCall
Faulty == previewTally.faults < MaxPreviewFaults /\ previewTally' = [previewTally EXCEPT !.faults = @ + 1]
Step(t, op, from, to) == previewCalls[t].op = op /\ previewCalls[t].at = from /\ previewCalls' = [previewCalls EXCEPT ![t].at = to]
Asking(t) == previewCalls[t].op \in {"show", "close", "closeNow"}
TakeRequestId == latest' = [latest EXCEPT !.req = @ + 1]
\* An event reaches a page that is mounted.
EmitTo(item) == previewWindow' = IF previewWindow.mounted THEN [previewWindow EXCEPT !.shows = item] ELSE previewWindow

\* A command is called: show_clipboard_preview with its first look, close_clipboard_preview, and the
\* clipboard window that is shown or hidden.
CallShow(t, item) ==
    /\ Calling(t)
    /\ LET refused == clipWindow.suppressed \/ ~clipWindow.visible
       IN  /\ previewCalls' = [previewCalls EXCEPT ![t] =
                    [NoCall EXCEPT !.op = IF refused THEN "closeNow" ELSE "show",
                                   !.at = IF refused THEN "begin" ELSE "checked", !.item = item]]
           /\ previewTally' = [previewTally EXCEPT !.calls = @ + 1, !.overlapped = @ \/ \E o \in PreviewThread : Asking(o)]
    /\ UNCHANGED <<clipWindow, latest, previewState, hideTask, previewWindow, panel>>

CallOther(t, op) ==
    /\ Calling(t)
    /\ op \in {"close", "hideClipboard", "showClipboard"}
    /\ op \in {"hideClipboard", "showClipboard"} => \A o \in PreviewThread : previewCalls[o].op \notin {"hideClipboard", "showClipboard"}
    /\ clipWindow' = IF op = "hideClipboard" THEN [clipWindow EXCEPT !.suppressed = TRUE] ELSE clipWindow
    /\ previewCalls' = [previewCalls EXCEPT ![t] = [NoCall EXCEPT !.op = op, !.at = "begin"]]
    /\ previewTally' = [previewTally EXCEPT !.calls = @ + 1, !.overlapped = @ \/ (op # "hideClipboard" /\ \E o \in PreviewThread : Asking(o))]
    /\ UNCHANGED <<latest, previewState, hideTask, previewWindow, panel>>

-----------------------------------------------------------------------------
(* show_clipboard_preview *)

\* A preview that is shown after a close has a session of its own.
SessionForShow == IF previewState # NoState THEN latest.session ELSE latest.session + 1

\* The request gets its number and session, and a task that waits is cancelled.
NumberShow(t) ==
    /\ previewCalls[t].op = "show" /\ previewCalls[t].at = "checked"
    /\ latest' = [latest EXCEPT !.req = @ + 1, !.session = SessionForShow, !.caller = t]
    /\ previewCalls' = [previewCalls EXCEPT ![t].at = "numbered", ![t].req = latest.req + 1, ![t].session = SessionForShow]
    /\ hideTask' = CancelTask(hideTask)
    /\ previewTally' = [previewTally EXCEPT !.slipped = @ \/ hideTask.late]
    /\ UNCHANGED <<clipWindow, previewState, previewWindow, panel>>

\* can_reuse_preview_state: the state before, presented, is the same but for its number.
CanReuse(call) ==
    /\ previewState # NoState /\ previewState.req = latest.presented /\ previewState.req + 1 = call.req
    /\ previewState.session = call.session /\ previewState.item = call.item

\* The window is built if it was destroyed, its page is not there yet.
EnsureWindow == [previewWindow EXCEPT !.here = TRUE]

\* The window is reused as it is, or there is one afterwards that gets the content.
PrepareShow(t) ==
    /\ previewCalls[t].op = "show" /\ previewCalls[t].at = "numbered"
    /\ LET reuse == CanReuse(previewCalls[t]) /\ previewWindow.visible
       IN  /\ previewCalls' = [previewCalls EXCEPT ![t].at = "prepared", ![t].content = ~reuse]
           /\ previewWindow' = IF reuse THEN previewWindow ELSE EnsureWindow
    /\ panel' = previewCalls[t].item
    /\ UNCHANGED <<clipWindow, latest, previewState, hideTask, previewTally>>

SetState(t) ==
    /\ Step(t, "show", "prepared", "set")
    /\ previewState' = [req |-> previewCalls[t].req, session |-> previewCalls[t].session, item |-> previewCalls[t].item]
    /\ previewTally' = [previewTally EXCEPT !.halfway = FALSE]
    /\ UNCHANGED <<clipWindow, latest, hideTask, previewWindow, panel>>

EmitState(t) ==
    /\ Step(t, "show", "set", "emitted")
    /\ IF previewCalls[t].content THEN EmitTo(previewCalls[t].item) ELSE UNCHANGED previewWindow
    /\ UNCHANGED <<clipWindow, latest, previewState, hideTask, panel, previewTally>>

ShowPreviewWindow(t) ==
    /\ Step(t, "show", "emitted", "shown")
    /\ previewWindow.here /\ previewWindow' = [previewWindow EXCEPT !.visible = TRUE]
    /\ UNCHANGED <<clipWindow, latest, previewState, hideTask, panel, previewTally>>

\* The event cannot be sent, or the window cannot be shown or was destroyed.
ShowFails(t) ==
    /\ previewCalls[t].op = "show" /\ previewCalls[t].at \in {"prepared", "set", "emitted"}
    /\ previewWindow.here => previewTally.faults < MaxPreviewFaults
    /\ previewTally' = [previewTally EXCEPT !.faults = IF previewWindow.here THEN @ + 1 ELSE @,
                                           !.halfway = @ \/ previewCalls[t].at # "prepared"]
    /\ previewCalls' = [previewCalls EXCEPT ![t] = NoCall]
    /\ UNCHANGED <<clipWindow, latest, previewState, hideTask, previewWindow, panel>>

\* The clipboard page closes what was shown after its window was hidden, if it asked for nothing since.
ShowReturns(t) ==
    /\ previewCalls[t].op = "show" /\ previewCalls[t].at = "shown"
    /\ latest' = [latest EXCEPT !.presented = previewCalls[t].req]
    /\ previewCalls' = [previewCalls EXCEPT ![t] =
            IF latest.caller = t /\ ~clipWindow.visible THEN [NoCall EXCEPT !.op = "close", !.at = "begin"] ELSE NoCall]
    /\ previewTally' = [previewTally EXCEPT !.slipped = @ \/ (clipWindow.suppressed /\ clipWindow.visible)]
    /\ UNCHANGED <<clipWindow, previewState, hideTask, previewWindow, panel>>

-----------------------------------------------------------------------------
(* close_clipboard_preview, close_clipboard_preview_now *)

NumberClose(t) ==
    /\ previewCalls[t].op \in {"close", "closeNow", "hideClipboard"} /\ previewCalls[t].at = "begin"
    /\ TakeRequestId
    /\ hideTask' = CancelTask(hideTask) /\ previewState' = NoState
    /\ previewCalls' = [previewCalls EXCEPT ![t].at = "numbered", ![t].req = latest.req + 1]
    /\ UNCHANGED <<clipWindow, previewWindow, panel, previewTally>>

EmitClose(t) ==
    /\ previewCalls[t].op \in {"close", "closeNow", "hideClipboard"} /\ previewCalls[t].at = "numbered"
    /\ EmitTo(NoPreview)
    /\ previewCalls' = [previewCalls EXCEPT ![t].at = "emitted"]
    /\ UNCHANGED <<clipWindow, latest, previewState, hideTask, panel, previewTally>>

\* schedule_preview_window_hide: a newer task is left alone, an older one replaced.
ScheduleHide(t) ==
    /\ previewCalls[t].op = "close" /\ previewCalls[t].at = "emitted"
    /\ hideTask' = IF ~previewWindow.here \/ hideTask.req > previewCalls[t].req THEN hideTask
                   ELSE [hideTask EXCEPT !.req = previewCalls[t].req]
    /\ previewCalls' = [previewCalls EXCEPT ![t] = NoCall]
    /\ UNCHANGED <<clipWindow, latest, previewState, previewWindow, panel, previewTally>>

HideAtOnce(t) ==
    /\ previewCalls[t].op \in {"closeNow", "hideClipboard"} /\ previewCalls[t].at = "emitted"
    /\ previewWindow' = [previewWindow EXCEPT !.visible = FALSE]
    /\ previewCalls' = [previewCalls EXCEPT ![t] = IF @.op = "closeNow" THEN NoCall ELSE [@ EXCEPT !.at = "suppressed"]]
    /\ UNCHANGED <<clipWindow, latest, previewState, hideTask, panel, previewTally>>

HideClipboard(t) ==
    /\ previewCalls[t].op = "hideClipboard" /\ previewCalls[t].at = "suppressed"
    /\ clipWindow' = [clipWindow EXCEPT !.visible = FALSE]
    /\ previewCalls' = [previewCalls EXCEPT ![t] = NoCall]
    /\ UNCHANGED <<latest, previewState, hideTask, previewWindow, panel, previewTally>>

\* The window is shown, then resume_after_clipboard_show.
ShowClipboard(t) ==
    /\ Step(t, "showClipboard", "begin", "visible")
    /\ clipWindow' = [clipWindow EXCEPT !.visible = TRUE]
    /\ UNCHANGED <<latest, previewState, hideTask, previewWindow, panel, previewTally>>

Resume(t) ==
    /\ previewCalls[t].op = "showClipboard" /\ previewCalls[t].at = "visible"
    /\ clipWindow' = [clipWindow EXCEPT !.suppressed = FALSE]
    /\ previewCalls' = [previewCalls EXCEPT ![t] = NoCall]
    /\ UNCHANGED <<latest, previewState, hideTask, previewWindow, panel, previewTally>>

\* The animation is over: nothing was asked since.
StillClosed == hideTask.woken = latest.req /\ previewState = NoState

TaskWakes ==
    /\ hideTask.req # 0 /\ hideTask.woken = 0 /\ ~hideTask.late
    /\ hideTask' = [hideTask EXCEPT !.req = 0, !.woken = hideTask.req]
    /\ UNCHANGED <<clipWindow, latest, previewState, previewWindow, previewCalls, panel, previewTally>>

TaskLooks ==
    /\ hideTask.woken # 0
    /\ hideTask' = [hideTask EXCEPT !.woken = 0, !.late = StillClosed]
    /\ UNCHANGED <<clipWindow, latest, previewState, previewWindow, previewCalls, panel, previewTally>>

\* A request that comes between the look and this is hidden.
TaskHides ==
    /\ hideTask.late
    /\ hideTask' = [hideTask EXCEPT !.late = FALSE]
    /\ previewWindow' = [previewWindow EXCEPT !.visible = FALSE]
    /\ UNCHANGED <<clipWindow, latest, previewState, previewCalls, panel, previewTally>>

-----------------------------------------------------------------------------
(* The page and the life of the window *)

\* The page of a new window asks for the state.
MountPage ==
    /\ previewWindow.here /\ ~previewWindow.mounted
    /\ previewWindow' = [previewWindow EXCEPT !.mounted = TRUE, !.shows = previewState.item]
    /\ UNCHANGED <<clipWindow, latest, previewState, hideTask, previewCalls, panel, previewTally>>

DestroyIdle ==
    /\ previewWindow.here /\ ~previewWindow.visible
    /\ Faulty
    /\ previewWindow' = [here |-> FALSE, mounted |-> FALSE, visible |-> FALSE, shows |-> NoPreview]
    /\ UNCHANGED <<clipWindow, latest, previewState, hideTask, previewCalls, panel>>

PreviewCallStep(t) ==
    \/ NumberShow(t) \/ PrepareShow(t) \/ SetState(t) \/ EmitState(t) \/ ShowPreviewWindow(t) \/ ShowReturns(t)
    \/ NumberClose(t) \/ EmitClose(t) \/ ScheduleHide(t) \/ HideAtOnce(t) \/ HideClipboard(t)
    \/ ShowClipboard(t) \/ Resume(t)

PreviewNext ==
    \/ \E t \in PreviewThread :
          \/ \E item \in Previewed : CallShow(t, item)
          \/ \E op \in {"close", "hideClipboard", "showClipboard"} : CallOther(t, op)
          \/ PreviewCallStep(t) \/ ShowFails(t)
    \/ TaskWakes \/ TaskLooks \/ TaskHides \/ MountPage \/ DestroyIdle

-----------------------------------------------------------------------------
(* Properties *)

PreviewAtRest == hideTask = NoTask /\ (\A t \in PreviewThread : previewCalls[t] = NoCall)

\* The preview does not outlive the clipboard window, although a request that was let through goes
\* on while the window hides; unless two requests (or one and a clipboard window that
\* is shown again) were served at once, or one ended after the
\* suppression and before the window was hidden, when nobody closes what it shows.
PreviewFollows ==
    PreviewAtRest /\ ~previewTally.overlapped /\ ~previewTally.slipped /\ ~clipWindow.visible => ~previewWindow.visible

\* A request that was served is visible, with what it asked for, in windows that are reused, built
\* and destroyed and after requests that failed half-way; unless two requests were served at once, or
\* the task of a close had looked when the request came.
PreviewShowsState ==
    PreviewAtRest /\ ~previewTally.overlapped /\ ~previewTally.slipped /\ ~previewTally.halfway /\ previewState # NoState
        => previewWindow.visible /\ (previewWindow.mounted => previewWindow.shows = previewState.item)

\* A clipboard window that is shown takes requests.
VisibleIsServed == PreviewAtRest /\ clipWindow.visible => ~clipWindow.suppressed

\* The panel is on the screen if that is as large as a panel with its margins, it starts there on a
\* smaller one and, if there is room on any side, it is beside its item.
PanelBeside ==
    panel # NoPreview =>
        LET src == SourceRect(AnchorOf[panel])
            p == PanelRect(src)
        IN  /\ p.left >= Screen.left + Margin /\ p.top >= Screen.top + Margin
            /\ PanelSize.width + 2 * Margin <= Screen.width => Right(p) <= Right(Screen) - Margin
            /\ PanelSize.height + 2 * Margin <= Screen.height => Bottom(p) <= Bottom(Screen) - Margin
            /\ Fits(src, Placement(src)) => \/ p.left >= Right(src) + Gap \/ Right(p) <= src.left - Gap
                                            \/ p.top >= Bottom(src) + Gap \/ Bottom(p) <= src.top - Gap

PreviewSound == PreviewFollows /\ PreviewShowsState /\ VisibleIsServed /\ PanelBeside
=============================================================================
