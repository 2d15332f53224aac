------------------------------- MODULE Paging -------------------------------
(* The list of the Hub's records that a user scrolls through. The Hub answers ListEvents outside   *)
(* the group's lock: it reads one row more than the page holds, newest first, counts in a second   *)
(* query, and cuts what does not fit in a frame. Meanwhile other devices append and the cleanup    *)
(* removes. The drawer appends the next page, starts over on refresh, and drops late answers. A    *)
(* page is the set of its cursors, since every list of cursors here is ordered newest first.       *)
EXTENDS Integers, FiniteSets, Sequences

CONSTANTS
    MaxRecords,     \* bound: events the group ever gets
    MaxLoads,       \* bound: pages asked for
    PageSize        \* CLOUD_RECORD_PAGE_SIZE

ASSUME PagingAssumption == PageSize \in Nat \ {0} /\ MaxRecords \in Nat /\ MaxLoads \in Nat

Kinds == {"content", "state", "unreadable"}     \* unreadable: content that does not decrypt

VARIABLES
    events,     \* the kind of each retained event, by cursor
    newest,     \* the last cursor given out
    asks,       \* requests on their way, by generation
    drawer      \* what CloudRecordsDrawer holds

pagingVars == <<events, newest, asks, drawer>>

None == 0       \* no cursor: null in the drawer, None in the request

\* top stands for the newest record when the list was begun; it is the model's own.
Empty == [open |-> FALSE, generation |-> 0, loading |-> FALSE, shown |-> <<>>, next |-> None,
          top |-> 0]

PagingInit ==
    /\ events = <<>> /\ newest = 0 /\ asks = {}
    /\ drawer = Empty

----------------------------------------------------------------------------
\* The Hub.

\* Another device's event.
Record(kind) ==
    /\ newest < MaxRecords
    /\ newest' = newest + 1
    /\ events' = [c \in DOMAIN events \cup {newest + 1} |->
                      IF c = newest + 1 THEN kind ELSE events[c]]
    /\ UNCHANGED <<asks, drawer>>

\* Age, count, quota or a superseding state takes an event out of the log.
Prune(c) ==
    /\ c \in DOMAIN events
    /\ events' = [d \in DOMAIN events \ {c} |-> events[d]]
    /\ UNCHANGED <<newest, asks, drawer>>

Listed == {c \in DOMAIN events : events[c] # "state"}      \* include_states is false

\* The rows before a cursor.
Rows(before) == {c \in Listed : before # None => c < before}

\* The newest of them, as many as the page may hold.
FirstRows(rows) == {c \in rows : Cardinality({d \in rows : d > c}) < PageSize}

\* What of a page fits in one frame: the newest, and at least one, since each came in one frame.
Fitting(page) ==
    {cut \in SUBSET page :
        /\ cut = {} => page = {}
        /\ \A c \in cut, d \in page : d > c => d \in cut}

\* The next page begins after the last event returned, which is not that of the uncut page.
NextCursors(cut, rows) ==
    IF cut = rows THEN {None} ELSE {c \in cut : \A d \in cut : c <= d}

\* list_events_before reads the rows, which settles the answer. The count that goes with it is only
\* displayed and is left out.
Answer(a) ==
    /\ a \in asks /\ a.at = "asked"
    /\ LET rows == Rows(a.before) IN
       \E cut \in Fitting(FirstRows(rows)) : \E next \in NextCursors(cut, rows) :
           asks' = (asks \ {a}) \cup
               {[a EXCEPT !.at = "answered", !.rows = cut, !.next = next,
                          !.skip = {c \in cut : events[c] = "unreadable"},
                          !.top = newest]}
    /\ UNCHANGED <<events, newest, drawer>>

----------------------------------------------------------------------------
\* The drawer.

Asked(generation, reset) ==
    [generation |-> generation, reset |-> reset, at |-> "asked", rows |-> {}, skip |-> {},
     before |-> IF reset THEN None ELSE drawer.next, next |-> None, top |-> 0]

Load(reset, held) ==
    /\ drawer.generation < MaxLoads
    /\ drawer' = [held EXCEPT !.generation = @ + 1, !.loading = TRUE]
    /\ asks' = asks \cup {Asked(drawer.generation + 1, reset)}
    /\ UNCHANGED <<events, newest>>

\* handleOpenChange empties the list before the first page is asked for.
Open == ~drawer.open /\ Load(TRUE, [drawer EXCEPT !.open = TRUE, !.shown = <<>>, !.next = None,
                                                  !.top = 0])

\* A page may be on its way: its answer will belong to a generation that has passed.
Refresh == drawer.open /\ Load(TRUE, drawer)

\* Not while a page is on its way, and not past the last one.
Scroll ==
    /\ drawer.open /\ ~drawer.loading /\ drawer.next # None
    /\ Load(FALSE, drawer)

Close ==
    /\ drawer.open /\ drawer.generation < MaxLoads
    /\ drawer' = [Empty EXCEPT !.generation = drawer.generation + 1]
    /\ UNCHANGED <<events, newest, asks>>

Current(a) == a.generation = drawer.generation

\* cloud_records leaves out what it cannot decrypt; the page's cursor is the Hub's.
Show(a) ==
    /\ a \in asks /\ a.at = "answered"
    /\ LET readable == a.rows \ a.skip IN
           drawer' = IF Current(a)
                     THEN [drawer EXCEPT
                              !.shown = IF a.reset THEN <<readable>> ELSE Append(@, readable),
                              !.next = a.next, !.loading = FALSE,
                              !.top = IF a.reset THEN a.top ELSE @]
                     ELSE drawer
    /\ asks' = asks \ {a}
    /\ UNCHANGED <<events, newest>>

\* The request fails: what was shown and the cursor to go on from stay.
LoadFails(a) ==
    /\ a \in asks
    /\ asks' = asks \ {a}
    /\ drawer' = IF Current(a) THEN [drawer EXCEPT !.loading = FALSE] ELSE drawer
    /\ UNCHANGED <<events, newest>>

PagingNext ==
    \/ \E kind \in Kinds : Record(kind)
    \/ \E c \in 1..MaxRecords : Prune(c)
    \/ Open \/ Refresh \/ Scroll \/ Close
    \/ \E a \in asks : Answer(a) \/ Show(a) \/ LoadFails(a)

PagingSpec == PagingInit /\ [][PagingNext]_pagingVars

----------------------------------------------------------------------------

Cursors == 0..MaxRecords

PagingTypeOK ==
    /\ newest \in Cursors /\ DOMAIN events \subseteq 1..newest
    /\ \A c \in DOMAIN events : events[c] \in Kinds
    /\ drawer.open \in BOOLEAN /\ drawer.loading \in BOOLEAN
    /\ drawer.generation \in 0..MaxLoads /\ drawer.next \in Cursors /\ drawer.top \in Cursors
    /\ drawer.shown \in Seq(SUBSET (1..newest))
    /\ \A a \in asks : a.at \in {"asked", "answered"} /\ a.generation \in 1..MaxLoads

\* Pages that are read one by one from a log that changes under them make one list: each begins
\* below the one before it, nothing comes twice, and nothing is left out that the Hub still retains
\* and the device can read (CloudRecordsDrawer's load, list_events_before, limit_events_page).
PagesJoin ==
    /\ \A i, j \in DOMAIN drawer.shown :
           i < j => \A c \in drawer.shown[i], d \in drawer.shown[j] : c > d
    /\ \A c \in DOMAIN events :
           events[c] = "content" /\ c <= drawer.top /\ (drawer.next # None => c >= drawer.next)
               => \E i \in DOMAIN drawer.shown : c \in drawer.shown[i]
=============================================================================
