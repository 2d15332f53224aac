----------------------------- MODULE SearchKeys -----------------------------
(***************************************************************************)
(* The keyboard of the Windows clipboard window (keyboard/windows.rs,      *)
(* keyboard/search_handoff.rs, window/windows.rs and, in the page,         *)
(* SearchInput.tsx).  The window is shown without taking the focus: a      *)
(* low-level hook swallows the keys that drive the list, and the first     *)
(* text key starts a HANDOFF: that key and the ones after it are buffered  *)
(* until the page has focused its search box, and are then replayed.       *)
(*                                                                         *)
(* The hook, the page's tasks, the handoff's timer, show and hide all run  *)
(* on threads of their own; they share NAV_ENABLED (nav), HOOK_THREAD_ID   *)
(* (hookId), the handoff buffer and the window.  Text keys are numbered in *)
(* the order they are typed.                                               *)
(***************************************************************************)
EXTENDS Integers, Sequences, FiniteSets

CONSTANTS Session,         \* handoff sessions, numbered from 1
          HookThread,      \* hook threads the program may start, from 1
          HandoffCapacity, \* keys the buffer holds
          MaxKeys,         \* bound: text keys typed
          MaxWindowCalls   \* bound: calls to show and hide

ASSUME SearchKeysAssumption ==
  /\ IsFiniteSet(Session) /\ Session = 1..Cardinality(Session)
  /\ IsFiniteSet(HookThread) /\ HookThread = 1..Cardinality(HookThread)
  /\ HandoffCapacity \in Nat \ {0}
  /\ MaxKeys \in Nat /\ MaxWindowCalls \in Nat

VARIABLES nav,       \* NAV_ENABLED
          hookId,    \* HOOK_THREAD_ID, 0 for None
          hooks,     \* what each hook thread is doing
          handoff,   \* the buffer: session (0: inactive), keys, overflowed
          inHook,    \* the key inside hook_proc and how far it got
          search,    \* the keys the search box received, in order
          replay,    \* per session, the keys taken from the buffer
          clip,      \* the clipboard window: visible, front (has the focus)
          call,      \* show and hide in progress: the next step of each
          tasks,     \* per session, the page's task of the handoff
          undo,      \* per session, the cancellation that took it
          edit,      \* the page's editing flag and the command setting it
          keyTally   \* keys typed, sessions begun, calls made, races met

keyVars == <<nav, hookId, hooks, handoff, inHook, search, replay, clip, call,
             tasks, undo, edit, keyTally>>

NoHandoff == [session |-> 0, keys |-> <<>>, overflowed |-> FALSE]
NoKey == [key |-> 0, at |-> "idle", sawNav |-> FALSE]

SearchKeysInit ==
  /\ nav = FALSE /\ hookId = 0
  /\ hooks = [t \in HookThread |-> "none"]
  /\ handoff = NoHandoff
  /\ inHook = NoKey
  /\ search = <<>>
  /\ replay = [s \in Session |-> <<>>]
  /\ clip = [visible |-> FALSE, front |-> FALSE]
  /\ call = [show |-> "no", hide |-> "no", overflow |-> FALSE]
  /\ tasks = [s \in Session |-> "none"]
  /\ undo = [s \in Session |-> "no"]
  /\ edit = [on |-> FALSE, step |-> "no"]
  /\ keyTally = [typed |-> 0, begun |-> 0, calls |-> 0, raced |-> FALSE,
                 overlapped |-> FALSE]

-----------------------------------------------------------------------------
(* The hook thread.                                                        *)

\* A thread that has not been started yet, if there is one left.
FreshThread == {t \in HookThread : hooks[t] = "none"}

\* enable_navigation_keys: the hook is kept when its thread is registered,
\* and a new one is started when none is.
EnableNavigation ==
  /\ nav' = TRUE
  /\ IF hookId # 0 THEN UNCHANGED hooks
     ELSE \E t \in FreshThread :
            /\ \A u \in FreshThread : t <= u
            /\ hooks' = [hooks EXCEPT ![t] = "starting"]

\* SetWindowsHookExW succeeded and the thread registered itself.
HookStarts(t) ==
  /\ hooks[t] = "starting"
  /\ hooks' = [hooks EXCEPT ![t] = "running"]
  /\ hookId' = t
  /\ UNCHANGED <<nav, handoff, inHook, search, replay, clip, call, tasks, undo,
                 edit, keyTally>>

\* The message loop ended: the thread unhooks and clears the registration,
\* whoever is registered by then.
HookEnds(t) ==
  /\ hooks[t] = "quitting" /\ inHook = NoKey
  /\ hooks' = [hooks EXCEPT ![t] = "gone"]
  /\ hookId' = 0
  /\ UNCHANGED <<nav, handoff, inHook, search, replay, clip, call, tasks, undo,
                 edit, keyTally>>

Hooked == \E t \in HookThread : hooks[t] \in {"running", "quitting"}

-----------------------------------------------------------------------------
(* hook_proc, for a text key.  Windows hands keys to it one at a time.     *)

NextKey == keyTally.typed + 1

\* What the focused window makes of a key nobody swallowed: the search box
\* takes it when the clipboard window has the focus, another program
\* otherwise.
LandsIn(k) == IF clip.front THEN Append(search, k) ELSE search

\* A key that arrives while a replay is due (the buffer was taken but not
\* yet sent) overtakes it.
ReplayDue == \E s \in Session : tasks[s] = "replaying"

\* The user types a key while the window is shown (the others are for other
\* programs).  Without a hook, or with nav off, it goes straight
\* to the focused window.
TypeKey ==
  /\ NextKey <= MaxKeys /\ inHook = NoKey /\ clip.visible
  /\ IF Hooked /\ nav
     THEN /\ inHook' = [key |-> NextKey, at |-> "buffering", sawNav |-> FALSE]
          /\ keyTally' = [keyTally EXCEPT !.typed = NextKey]
          /\ UNCHANGED search
     ELSE /\ search' = LandsIn(NextKey)
          /\ keyTally' = [keyTally EXCEPT !.typed = NextKey,
                                          !.raced = @ \/ ReplayDue \/ ~Hooked]
          /\ UNCHANGED inHook
  /\ UNCHANGED <<nav, hookId, hooks, handoff, replay, clip, call, tasks, undo,
                 edit>>

HasRoom == Len(handoff.keys) < HandoffCapacity /\ ~handoff.overflowed

\* buffer_active_handoff: a key of an active handoff is appended to it, or
\* dropped once the buffer has overflowed.  The overflow starts a thread that
\* cancels a session later (DropOverflowed).
BufferKey ==
  /\ inHook.at = "buffering" /\ handoff.session # 0
  /\ inHook' = NoKey
  /\ handoff' = IF HasRoom
                THEN [handoff EXCEPT !.keys = Append(@, inHook.key)]
                ELSE [handoff EXCEPT !.overflowed = TRUE]
  /\ call' = [call EXCEPT !.overflow = @ \/ (handoff'.overflowed
                                              /\ ~handoff.overflowed)]
  /\ UNCHANGED <<nav, hookId, hooks, search, replay, clip, tasks, undo, edit,
                 keyTally>>

\* Mutant: the second look is left out.
MayRouteAlways == TRUE

\* The second look at NAV_ENABLED: a confirmation may just have suspended
\* the hook, and then the key belongs to the focused page.
MayRoute == nav

\* No handoff is active: the key is looked at as the start of one...
RouteKey ==
  /\ inHook.at = "buffering" /\ handoff.session = 0
  /\ IF MayRoute
     THEN /\ inHook' = [inHook EXCEPT !.at = "routing", !.sawNav = nav]
          /\ UNCHANGED <<search, keyTally>>
     ELSE /\ inHook' = NoKey
          /\ search' = LandsIn(inHook.key)
          /\ keyTally' = [keyTally EXCEPT !.raced = @ \/ ReplayDue]
  /\ UNCHANGED <<nav, hookId, hooks, handoff, replay, clip, call, tasks, undo,
                 edit>>

\* ... and begin_search_handoff begins a session with it and tells the page.
\* Only the buffer's lock is taken: the hook may have been suspended since
\* the second look.
BeginHandoff ==
  /\ inHook.at = "routing"
  /\ keyTally.begun < Cardinality(Session)
  /\ LET s == keyTally.begun + 1
     IN /\ handoff' = [session |-> s, keys |-> <<inHook.key>>,
                       overflowed |-> FALSE]
        /\ tasks' = [tasks EXCEPT ![s] = "asked"]
        /\ keyTally' = [keyTally EXCEPT !.begun = s,
                                 !.raced = @ \/ (inHook.sawNav /\ ~nav)]
  /\ inHook' = NoKey
  /\ UNCHANGED <<nav, hookId, hooks, search, replay, clip, call, undo, edit>>

-----------------------------------------------------------------------------
(* The page's task of a session (SearchInput.tsx), one command at a time.  *)

Active(s) == handoff.session = s

\* prepare_clipboard_search_handoff: the active session of a visible window
\* gives it the focus; one of a hidden window is cancelled.
Prepare(s) ==
  /\ tasks[s] = "asked"
  /\ tasks' = [tasks EXCEPT ![s] = IF Active(s) /\ clip.visible
                                   THEN "prepared" ELSE "done"]
  /\ handoff' = IF Active(s) /\ ~clip.visible THEN NoHandoff ELSE handoff
  /\ clip' = [clip EXCEPT !.front = @ \/ (Active(s) /\ clip.visible)]
  /\ UNCHANGED <<nav, hookId, hooks, inHook, search, replay, call, undo, edit,
                 keyTally>>

\* cancel_search_handoff_and_suspend, the first half of a cancellation: the
\* buffer is dropped and the hook suspended under one lock.
DropAndSuspend(s) ==
  /\ handoff' = NoHandoff
  /\ nav' = FALSE
  /\ undo' = [undo EXCEPT ![s] = "looking"]

\* The page gives the session up: the input is gone or did not get the
\* focus, or confirm_clipboard_search_handoff found the window hidden or not
\* in front.
GiveUp(s) ==
  /\ tasks[s] = "prepared" /\ Active(s)
  /\ tasks' = [tasks EXCEPT ![s] = "done"]
  /\ DropAndSuspend(s)
  /\ UNCHANGED <<hookId, hooks, inHook, search, replay, clip, call, edit,
                 keyTally>>

\* confirm_clipboard_search_handoff: the session is active, the window is in
\* front ...
Confirm(s) ==
  /\ tasks[s] = "prepared"
  /\ ~Active(s) \/ (clip.visible /\ clip.front)
  /\ tasks' = [tasks EXCEPT ![s] = IF Active(s) THEN "confirming" ELSE "done"]
  /\ UNCHANGED <<nav, hookId, hooks, handoff, inHook, search, replay, clip,
                 call, undo, edit, keyTally>>

\* ... and confirm_search_handoff takes the buffer, if it is still there, and
\* suspends the hook under the same lock.
Take(s) ==
  /\ tasks[s] = "confirming"
  /\ tasks' = [tasks EXCEPT ![s] = IF Active(s) THEN "replaying" ELSE "done"]
  /\ nav' = (nav /\ ~Active(s))
  /\ replay' = IF Active(s) THEN [replay EXCEPT ![s] = handoff.keys] ELSE replay
  /\ handoff' = IF Active(s) THEN NoHandoff ELSE handoff
  /\ keyTally' = [keyTally EXCEPT !.raced = @ \/ (Active(s) /\ ReplayDue)]
  /\ UNCHANGED <<hookId, hooks, inHook, search, clip, call, undo, edit>>

\* replay_buffered_events: the keys are sent in order, marked so that the
\* hook passes them on; the page is editing from then on.
Replay(s) ==
  /\ tasks[s] = "replaying"
  /\ tasks' = [tasks EXCEPT ![s] = "done"]
  /\ search' = IF clip.front THEN search \o replay[s] ELSE search
  /\ edit' = [edit EXCEPT !.on = TRUE]
  /\ UNCHANGED <<nav, hookId, hooks, handoff, inHook, replay, clip, call, undo,
                 keyTally>>

-----------------------------------------------------------------------------
(* Cancellations.                                                          *)

\* The session's timer: SEARCH_HANDOFF_TIMEOUT passed and it is active still.
Expired(s) == Active(s)

TimeOut(s) ==
  /\ Expired(s)
  /\ DropAndSuspend(s)
  /\ UNCHANGED <<hookId, hooks, inHook, search, replay, clip, call, tasks,
                 edit, keyTally>>

\* The thread an overflow started cancels whichever session is active when
\* it runs.
DropOverflowed ==
  /\ call.overflow
  /\ call' = [call EXCEPT !.overflow = FALSE]
  /\ IF handoff.session # 0 THEN DropAndSuspend(handoff.session)
     ELSE UNCHANGED <<handoff, nav, undo>>
  /\ UNCHANGED <<hookId, hooks, inHook, search, replay, clip, tasks, edit,
                 keyTally>>

\* The second half, cancel_clipboard_search_handoff: the window can no longer
\* be focused, and if it is visible ...
LookAfterCancel(s) ==
  /\ undo[s] = "looking"
  /\ undo' = [undo EXCEPT ![s] = IF clip.visible THEN "enabling" ELSE "done"]
  /\ clip' = [clip EXCEPT !.front = @ /\ clip.visible]
  /\ UNCHANGED <<nav, hookId, hooks, handoff, inHook, search, replay, call,
                 tasks, edit, keyTally>>

\* ... the list gets its keys back, and the earlier program the focus.
EnableAfterCancel(s) ==
  /\ undo[s] = "enabling"
  /\ EnableNavigation
  /\ undo' = [undo EXCEPT ![s] = "done"]
  /\ clip' = [clip EXCEPT !.front = FALSE]
  /\ keyTally' = [keyTally EXCEPT !.overlapped = @ \/ ~clip.visible]
  /\ UNCHANGED <<hookId, handoff, inHook, search, replay, call, tasks, edit>>

-----------------------------------------------------------------------------
(* set_clipboard_window_editing, which the page calls when an input gets or *)
(* loses the focus; one call at a time.                                     *)

\* Editing starts: an active session is dropped, the hook suspended and the
\* window focused.
StartEditing ==
  /\ ~edit.on /\ edit.step = "no" /\ clip.visible
  /\ edit' = [edit EXCEPT !.on = TRUE]
  /\ nav' = FALSE
  /\ handoff' = NoHandoff
  /\ clip' = [clip EXCEPT !.front = TRUE]
  /\ keyTally.calls < MaxWindowCalls
  /\ keyTally' = [keyTally EXCEPT !.calls = @ + 1,
                    !.overlapped = @ \/ call.show # "no" \/ call.hide # "no"
                                     \/ \E s \in Session :
                                          undo[s] \in {"looking", "enabling"}]
  /\ UNCHANGED <<hookId, hooks, inHook, search, replay, call, tasks, undo>>

\* Editing ends: the window is looked at ...
LookAfterEditing ==
  /\ edit.on /\ edit.step = "no"
  /\ edit' = [on |-> FALSE, step |-> IF clip.visible THEN "enabling" ELSE "no"]
  /\ UNCHANGED <<nav, hookId, hooks, handoff, inHook, search, replay, clip,
                 call, tasks, undo, keyTally>>

\* ... and, visible, gets its keys back and returns the focus.
EnableAfterEditing ==
  /\ edit.step = "enabling"
  /\ EnableNavigation
  /\ edit' = [edit EXCEPT !.step = "no"]
  /\ clip' = [clip EXCEPT !.front = FALSE]
  /\ keyTally' = [keyTally EXCEPT !.overlapped = @ \/ ~clip.visible]
  /\ UNCHANGED <<hookId, handoff, inHook, search, replay, call, tasks, undo>>

-----------------------------------------------------------------------------
(* show_window and hide_window, from the shortcut, the mouse hook, the tray *)
(* or a command; each of them at most once at a time.                       *)

Shows ==
  /\ call.show = "no" /\ keyTally.calls < MaxWindowCalls
  /\ clip' = [clip EXCEPT !.visible = TRUE]
  /\ call' = [call EXCEPT !.show = "enabling"]
  /\ keyTally' = [keyTally EXCEPT !.calls = @ + 1,
                                  !.overlapped = @ \/ call.hide # "no"]
  /\ UNCHANGED <<nav, hookId, hooks, handoff, inHook, search, replay, tasks,
                 undo, edit>>

ShowEnables ==
  /\ call.show = "enabling"
  /\ EnableNavigation
  /\ call' = [call EXCEPT !.show = "no"]
  /\ keyTally' = [keyTally EXCEPT !.overlapped = @ \/ call.hide # "no"
                                                   \/ edit.on]
  /\ UNCHANGED <<hookId, handoff, inHook, search, replay, clip, tasks, undo,
                 edit>>

Hides ==
  /\ call.hide = "no" /\ clip.visible
  /\ keyTally.calls < MaxWindowCalls
  /\ clip' = [visible |-> FALSE, front |-> FALSE]
  /\ call' = [call EXCEPT !.hide = "cancelling"]
  /\ keyTally' = [keyTally EXCEPT !.calls = @ + 1,
                                  !.overlapped = @ \/ call.show # "no"]
  /\ UNCHANGED <<nav, hookId, hooks, handoff, inHook, search, replay, tasks,
                 undo, edit>>

\* hide_window drops the session, then disable_navigation_keys suspends.
HideCancels ==
  /\ call.hide = "cancelling"
  /\ handoff' = NoHandoff
  /\ call' = [call EXCEPT !.hide = "suspending"]
  /\ UNCHANGED <<nav, hookId, hooks, inHook, search, replay, clip, tasks, undo,
                 edit, keyTally>>

HideSuspends ==
  /\ call.hide = "suspending"
  /\ nav' = FALSE
  /\ call' = [call EXCEPT !.hide = "quitting"]
  /\ UNCHANGED <<hookId, hooks, handoff, inHook, search, replay, clip, tasks,
                 undo, edit, keyTally>>

\* disable_navigation_keys takes the registration as it tells the thread to
\* quit.
RegisteredAfterQuit == 0

\* disable_navigation_keys: a session begun meanwhile is dropped and the
\* registered thread, if any, told to quit.
HideQuits ==
  /\ call.hide = "quitting"
  /\ handoff' = NoHandoff
  /\ hooks' = IF hookId = 0 THEN hooks ELSE [hooks EXCEPT ![hookId] = "quitting"]
  /\ hookId' = RegisteredAfterQuit
  /\ call' = [call EXCEPT !.hide = "no"]
  /\ UNCHANGED <<nav, inHook, search, replay, clip, tasks, undo, edit, keyTally>>

-----------------------------------------------------------------------------
SearchKeysNext ==
  \/ TypeKey \/ BufferKey \/ RouteKey \/ BeginHandoff
  \/ \E t \in HookThread : HookStarts(t) \/ HookEnds(t)
  \/ \E s \in Session : Prepare(s) \/ GiveUp(s) \/ Confirm(s) \/ Take(s)
                        \/ Replay(s) \/ TimeOut(s) \/ LookAfterCancel(s)
                        \/ EnableAfterCancel(s)
  \/ DropOverflowed \/ StartEditing \/ LookAfterEditing \/ EnableAfterEditing
  \/ Shows \/ ShowEnables \/ Hides \/ HideCancels \/ HideSuspends \/ HideQuits

SearchKeysSpec == SearchKeysInit /\ [][SearchKeysNext]_keyVars

-----------------------------------------------------------------------------
SearchKeysTypeOK ==
  /\ nav \in BOOLEAN /\ hookId \in HookThread \cup {0}
  /\ hooks \in [HookThread -> {"none", "starting", "running", "quitting", "gone"}]
  /\ handoff \in [session : Session \cup {0}, keys : Seq(1..MaxKeys),
                  overflowed : BOOLEAN]
  /\ Len(handoff.keys) <= HandoffCapacity
  /\ inHook \in [key : 0..MaxKeys, at : {"idle", "buffering", "routing"},
                 sawNav : BOOLEAN]
  /\ search \in Seq(1..MaxKeys)
  /\ replay \in [Session -> Seq(1..MaxKeys)]
  /\ clip \in [visible : BOOLEAN, front : BOOLEAN]
  /\ call \in [show : {"no", "enabling"},
               hide : {"no", "cancelling", "suspending", "quitting"},
               overflow : BOOLEAN]
  /\ tasks \in [Session -> {"none", "asked", "prepared", "confirming",
                            "replaying", "done"}]
  /\ undo \in [Session -> {"no", "looking", "enabling", "done"}]
  /\ edit \in [on : BOOLEAN, step : {"no", "enabling"}]
  /\ keyTally \in [typed : 0..MaxKeys, begun : 0..Cardinality(Session),
                   calls : 0..MaxWindowCalls, raced : BOOLEAN,
                   overlapped : BOOLEAN]

\* The text the user types while the page is still getting the focus reaches
\* the search box in the order it was typed, no key twice: whatever is
\* replayed comes before what is typed after it.  Left out are (raced) a key
\* or a session that passes while a taken buffer waits to be sent or before the hook runs,
\* and a key that begins a session although the hook was suspended after its second
\* look; so are calls that overlap (hook_proc, confirm_search_handoff).
KeysInOrder ==
  ~keyTally.raced /\ ~keyTally.overlapped =>
    \A i, j \in 1..Len(search) : i < j => search[i] < search[j]

\* Nothing is in progress any more.
KeysAtRest ==
  /\ call = [show |-> "no", hide |-> "no", overflow |-> FALSE]
  /\ edit.step = "no" /\ inHook = NoKey /\ handoff.session = 0
  /\ \A s \in Session : tasks[s] \in {"none", "done"} /\ undo[s] \in {"no", "done"}
  /\ \A t \in HookThread : hooks[t] # "starting"

\* While the window is visible and nothing is edited the list has its keys:
\* the hook is enabled and a thread runs it, whatever was cancelled, timed
\* out, hidden and shown before (enable_navigation_keys,
\* disable_navigation_keys).  A call that overlaps another one that decides
\* the same thing is left out (overlapped).
NavigationServed ==
  KeysAtRest /\ clip.visible /\ ~edit.on /\ ~keyTally.overlapped =>
    nav /\ \E t \in HookThread : hooks[t] = "running"

\* A hidden window captures no key: docs and code say the navigation keys are
\* captured while the clipboard window is visible.
HiddenReleases == KeysAtRest /\ ~clip.visible => ~nav

\* Every session ends: none holds the keyboard for ever
\* (SEARCH_HANDOFF_TIMEOUT).
HandoffEnds == handoff.session = 0

SearchKeysSound == KeysInOrder /\ NavigationServed

=============================================================================
