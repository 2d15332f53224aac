----------------------------- MODULE Lifecycle -----------------------------
(* A window that is destroyed when it has been hidden for a while and built again when it is shown,  *)
(* and the requests that open it with something to show: a backup that the system opened, a setting *)
(* to highlight. Commands show and hide it on their own threads; timers and the destruction run on  *)
(* the main thread.                                                                                  *)
EXTENDS Integers, FiniteSets

CONSTANTS
    Thread,          \* threads of commands
    Request,         \* requests to show something, in the order they are made
    MaxShows,        \* bound: shows without a request
    MaxHides,        \* bound: hides
    MaxMarks         \* bound: changes of the settings and of the page's protection

ASSUME LifecycleAssumption ==
    /\ Request \subseteq Nat \ {0}
    /\ MaxShows \in Nat /\ MaxHides \in Nat /\ MaxMarks \in Nat

Timer == {"idle", "deadline"}

VARIABLES
    window,     \* the web view: none, built, or with its page mounted
    shown,      \* the system shows it
    phase,      \* LifecyclePhase
    generation,
    guarded,    \* the page has a draft or a lease that keeps the window
    light,      \* the setting: destroy idle windows
    timers,     \* of every kind, the generation it was started for, or NoTimer
    due,        \* timers that went off and wait for the main thread
    main,       \* a destruction on the main thread
    calls,      \* the command of every thread
    slot,       \* the pending request
    asked, arrived,
    risky,      \* requests whose window was neither gone nor mounted, or changed meanwhile
    crossed,    \* two commands were under way at once
    done        \* shows, hides and marks so far

lifecycleVars == <<window, shown, phase, generation, guarded, light, timers, due, main, calls, slot,
                   asked, arrived, risky, crossed, done>>

NoTimer == -1
NoCall == [at |-> "idle", kind |-> "none", request |-> 0, exists |-> FALSE, first |-> FALSE]
NoMain == [at |-> "idle", generation |-> 0, calm |-> FALSE]

LifecycleInit ==
    /\ window = "none" /\ shown = FALSE /\ phase = "Created" /\ generation = 0
    /\ guarded = FALSE /\ light = TRUE
    /\ timers = [k \in Timer |-> NoTimer] /\ due = {} /\ main = NoMain
    /\ calls = [t \in Thread |-> NoCall] /\ slot = 0
    /\ asked = {} /\ arrived = {} /\ risky = {} /\ crossed = FALSE
    /\ done = [shows |-> 0, hides |-> 0, marks |-> 0]

Do(what, bound) == done[what] < bound /\ done' = [done EXCEPT ![what] = @ + 1]

Busy(t) == \E o \in Thread \ {t} : calls[o].at # "idle"

\* A command that shows the window, or one of the page, between the last check and the destruction.
Disturbed == main' = [main EXCEPT !.calm = FALSE]

At(t, stage) == calls[t].at = stage
Go(t, stage) == calls' = [calls EXCEPT ![t].at = stage]
Return(t) == calls' = [calls EXCEPT ![t] = NoCall]

----------------------------------------------------------------------------
\* The timers of a phase that was left are cancelled; what went off already is not.
Cancel(kinds) == timers' = [k \in Timer |-> IF k \in kinds THEN NoTimer ELSE timers[k]]

EnterVisible ==
    /\ phase' = "Visible" /\ generation' = IF phase = "Visible" THEN generation ELSE generation + 1

----------------------------------------------------------------------------
\* A request, or the user, opens the window. If it exists the request is sent to its page later;
\* otherwise it waits for the page, in place of one that waits already.
BeginShow(t, q) ==
    /\ At(t, "idle")
    /\ IF q = 0 THEN Do("shows", MaxShows) /\ UNCHANGED <<asked, slot, risky>>
       ELSE /\ q \notin asked /\ \A o \in Request : o < q => o \in asked
            /\ asked' = asked \cup {q} /\ UNCHANGED done
            /\ slot' = IF window = "none" THEN q ELSE slot
            /\ risky' = risky \cup (IF window = "built" \/ main.at # "idle" \/ Busy(t) THEN {q} ELSE {})
                              \cup (IF window = "none" /\ slot # 0 THEN {slot} ELSE {})
    /\ calls' = [calls EXCEPT ![t] =
                    [NoCall EXCEPT !.at = "building", !.kind = "show", !.request = q,
                                   !.exists = (window # "none")]]
    /\ crossed' = (crossed \/ Busy(t))
    /\ UNCHANGED <<window, shown, phase, generation, guarded, light, timers, due, main, arrived>>

\* The window is built if it is gone.
Build(t) ==
    /\ At(t, "building") /\ Go(t, "showing")
    /\ window' = IF window = "none" THEN "built" ELSE window
    /\ UNCHANGED <<shown, phase, generation, guarded, light, timers, due, main, slot, asked, arrived,
                   risky, crossed, done>>

\* The system shows it. If it was destroyed in between the command fails, or nobody notices.
Show(t) ==
    /\ At(t, "showing")
    /\ IF window = "none" THEN /\ calls' \in {[calls EXCEPT ![t] = NoCall], [calls EXCEPT ![t].at = "entering"]}
                               /\ risky' = risky \cup ({calls[t].request} \ {0}) /\ UNCHANGED shown
       ELSE Go(t, "entering") /\ shown' = TRUE /\ UNCHANGED risky
    /\ Disturbed
    /\ UNCHANGED <<window, phase, generation, guarded, light, timers, due, slot, asked, arrived, crossed, done>>

Enter(t) ==
    /\ At(t, "entering") /\ calls[t].kind = "show"
    /\ EnterVisible /\ Go(t, "cancelling")
    /\ UNCHANGED <<window, shown, guarded, light, timers, due, main, slot, asked, arrived, risky, crossed, done>>

CancelAll(t) ==
    /\ At(t, "cancelling") /\ Cancel(Timer)
    /\ IF calls[t].exists /\ calls[t].request # 0 THEN Go(t, "sending") ELSE Return(t)
    /\ UNCHANGED <<window, shown, phase, generation, guarded, light, due, main, slot, asked, arrived,
                   risky, crossed, done>>

\* An event reaches the listeners of the page, if it has mounted.
Send(t) ==
    /\ At(t, "sending") /\ Return(t)
    /\ arrived' = IF window = "mounted" THEN arrived \cup {calls[t].request} ELSE arrived
    /\ UNCHANGED <<window, shown, phase, generation, guarded, light, timers, due, main, slot, asked,
                   risky, crossed, done>>

\* The page listens, and takes what waits for it.
Mount ==
    /\ window = "built" /\ window' = "mounted"
    /\ slot' = 0 /\ arrived' = arrived \cup ({slot} \ {0})
    /\ phase' = IF phase \in {"Created", "Destroyed"} THEN "Ready" ELSE phase
    /\ UNCHANGED <<shown, generation, guarded, light, timers, due, main, calls, asked, risky, crossed, done>>

----------------------------------------------------------------------------
\* The window is hidden, by a command or its close button.
BeginHide(t) ==
    /\ At(t, "idle") /\ shown /\ Do("hides", MaxHides)
    /\ shown' = FALSE
    /\ calls' = [calls EXCEPT ![t] = [NoCall EXCEPT !.at = "leaving", !.kind = "hide"]]
    /\ crossed' = (crossed \/ Busy(t))
    /\ UNCHANGED <<window, phase, generation, guarded, light, timers, due, main, slot, asked, arrived, risky>>

Leave(t) ==
    /\ At(t, "leaving") /\ phase' = "HiddenWarm"
    /\ calls' = [calls EXCEPT ![t].at = "starting", ![t].first = (phase # "HiddenWarm")]
    /\ UNCHANGED <<window, shown, generation, guarded, light, timers, due, main, slot, asked, arrived,
                   risky, crossed, done>>

\* The first time the idle timer is started for this generation.
StartIdle(t) ==
    /\ At(t, "starting") /\ Return(t)
    /\ timers' = [timers EXCEPT !["deadline"] = NoTimer,
                                !["idle"] = IF calls[t].first /\ light THEN generation ELSE @]
    /\ UNCHANGED <<window, shown, phase, generation, guarded, light, due, main, slot, asked, arrived,
                   risky, crossed, done>>

----------------------------------------------------------------------------
\* A timer goes off, and its action waits for the main thread.
GoesOff(k) ==
    /\ timers[k] # NoTimer
    /\ due' = due \cup {[kind |-> k, generation |-> timers[k]]} /\ timers' = [timers EXCEPT ![k] = NoTimer]
    /\ UNCHANGED <<window, shown, phase, generation, guarded, light, main, calls, slot, asked, arrived,
                   risky, crossed, done>>

\* What a timer was started for is still so.
Still(d, expected) == light /\ d.generation = generation /\ phase = expected

MainTakes(d) == due' = due \ {d} /\ main.at = "idle"

\* The window was idle: it is announced to the page, which may protect itself until the deadline, or
\* it is protected and the time starts again.
IdleOver(d) ==
    /\ d \in due /\ d.kind = "idle" /\ MainTakes(d)
    /\ IF ~Still(d, "HiddenWarm") THEN UNCHANGED <<timers, main>>
       ELSE IF guarded THEN timers' = [timers EXCEPT !["idle"] = d.generation] /\ UNCHANGED main
       ELSE main' = [at |-> "announcing", generation |-> d.generation, calm |-> FALSE] /\ UNCHANGED timers
    /\ UNCHANGED <<window, shown, phase, generation, guarded, light, calls, slot, asked, arrived, risky, crossed, done>>

Announce ==
    /\ main.at = "announcing" /\ phase' = "DestroyPending" /\ main' = NoMain
    /\ timers' = [idle |-> NoTimer, deadline |-> main.generation]
    /\ UNCHANGED <<window, shown, generation, guarded, light, due, calls, slot, asked, arrived, risky, crossed, done>>

\* The deadline: the window goes unless it was shown or is protected.
Deadline(d) ==
    /\ d \in due /\ d.kind = "deadline" /\ MainTakes(d)
    /\ IF ~Still(d, "DestroyPending") THEN UNCHANGED <<phase, timers, main>>
       ELSE IF guarded THEN /\ phase' = "HiddenWarm" /\ timers' = [idle |-> generation, deadline |-> NoTimer]
                            /\ UNCHANGED main
       ELSE /\ main' = [at |-> "destroying", generation |-> d.generation,
                        calm |-> \A t \in Thread : calls[t].kind # "show"]
            /\ UNCHANGED <<phase, timers>>
    /\ UNCHANGED <<window, shown, generation, guarded, light, calls, slot, asked, arrived, risky, crossed, done>>

Destroy ==
    /\ main.at = "destroying" /\ window' = "none" /\ shown' = FALSE
    /\ main' = [main EXCEPT !.at = "entering"]
    /\ risky' = risky \cup (({slot} \cup {calls[t].request : t \in Thread}) \ {0})
    /\ UNCHANGED <<phase, generation, guarded, light, timers, due, calls, slot, asked, arrived, crossed, done>>

\* Its state is cleared with it.
EnterDestroyed ==
    /\ main.at = "entering" /\ phase' = "Destroyed" /\ guarded' = FALSE /\ Cancel(Timer) /\ main' = NoMain
    /\ UNCHANGED <<window, shown, generation, light, due, calls, slot, asked, arrived, risky, crossed, done>>

----------------------------------------------------------------------------
\* The page declares a draft or takes a lease, or gives them up; a lease also runs out.
SetGuarded(to) ==
    /\ window = "mounted" /\ guarded # to /\ guarded' = to
    /\ IF to THEN Do("marks", MaxMarks) /\ Disturbed ELSE UNCHANGED <<done, main>>
    /\ UNCHANGED <<window, shown, phase, generation, light, timers, due, calls, slot, asked, arrived,
                   risky, crossed>>

\* The mode is switched off. Switching it on does not start the timers of windows that are hidden
\* already, and is not explored.
SwitchOff ==
    /\ light /\ light' = FALSE /\ Do("marks", MaxMarks)
    /\ UNCHANGED <<window, shown, phase, generation, guarded, timers, due, main, calls, slot, asked,
                   arrived, risky, crossed>>

CallStep(t) ==
    Build(t) \/ Show(t) \/ Enter(t) \/ CancelAll(t) \/ Send(t) \/ Leave(t) \/ StartIdle(t)

TimerStep ==
    \/ \E k \in Timer : GoesOff(k)
    \/ \E d \in due : IdleOver(d) \/ Deadline(d)
    \/ Announce \/ Destroy \/ EnterDestroyed

LifecycleNext ==
    \/ \E t \in Thread : (\E q \in Request \cup {0} : BeginShow(t, q)) \/ BeginHide(t) \/ CallStep(t)
    \/ Mount \/ TimerStep
    \/ \E to \in BOOLEAN : SetGuarded(to)
    \/ SwitchOff

----------------------------------------------------------------------------
\* A window that is shown, or whose page has something to keep, is not destroyed, however old timers
\* and a new command cross: a show that falls into a destruction that was decided on only counts by its
\* generation. Excepted are commands that cross each other, and what happens between the last check
\* and the destruction.
DestroyedIdle == window # "none" /\ window' = "none" /\ main.calm /\ ~crossed => ~shown /\ ~guarded

\* A window that is hidden for good is destroyed in the end, unless its page keeps it or the setting
\* does. Commands that cross excepted: a show that cancels late takes the timer of the next hide.
IdleIsDestroyed == phase # "HiddenWarm" \/ guarded \/ ~light \/ crossed

\* What a request asks for reaches the page, at once or when it has mounted, unless the page was
\* between built and mounted, or the window changed meanwhile.
RequestsArrived == asked \subseteq arrived \cup risky

LifecycleTypeOK ==
    /\ window \in {"none", "built", "mounted"} /\ (shown => window # "none")
    /\ phase \in {"Created", "Ready", "Visible", "HiddenWarm", "DestroyPending", "Destroyed"}
    /\ \A k \in Timer : timers[k] \in NoTimer .. generation
    /\ \A d \in due : d.kind \in Timer /\ d.generation \in 0 .. generation
    /\ arrived \cup risky \subseteq asked /\ asked \subseteq Request /\ slot \in asked \cup {0}
=============================================================================
