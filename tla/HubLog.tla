-------------------------------- MODULE HubLog --------------------------------
(***************************************************************************)
(* What the Hub promises to a client that reads a group's event log by     *)
(* cursor (sync-server/src/repository.rs): an event gets a cursor above    *)
(* every cursor the group was given before, and an event leaves the log    *)
(* only by pruning, which moves the pruned floor up to it.  HubStore, with *)
(* its blobs, quota, uploads and crashes, implements this module; Delivery *)
(* composes it with the clients.                                           *)
(***************************************************************************)
EXTENDS Integers, FiniteSets

CONSTANTS
    Event,      \* event ids
    MaxCursor   \* bound on the AUTOINCREMENT cursor, for TLC only

ASSUME CursorAssumption == MaxCursor \in Nat

VARIABLES
    cursorOf,   \* the cursor of each retained event, 0 when not stored
    issued,     \* the last cursor handed out to the group
    assigned,   \* history: every cursor the group's events ever had
    pruned      \* sync_groups.pruned_through_cursor

logVars == <<cursorOf, issued, assigned, pruned>>

Retained == {e \in Event : cursorOf[e] # 0}

LogInit ==
    /\ cursorOf = [e \in Event |-> 0]
    /\ issued = 0 /\ assigned = {} /\ pruned = 0

\* The cursors a set of accepted events may get: AUTOINCREMENT is shared by all
\* groups, so the numbers grow but are not consecutive.
Cursors(S) == {at \in [S -> (issued + 1)..MaxCursor] : \A e, f \in S : at[e] = at[f] => e = f}

\* Repository::insert_events.
Append(new, at) ==
    /\ new # {} /\ new \cap Retained = {}
    /\ cursorOf' = [e \in Event |-> IF e \in new THEN at[e] ELSE cursorOf[e]]
    /\ issued' \in {at[e] : e \in new} /\ \A e \in new : at[e] <= issued'
    /\ assigned' = assigned \cup {at[e] : e \in new}
    /\ UNCHANGED pruned

\* Repository::cleanup_group: the floor reaches the last deleted event, unless
\* it was above it already.
Prune(gone) ==
    /\ gone # {} /\ gone \subseteq Retained
    /\ cursorOf' = [e \in Event |-> IF e \in gone THEN 0 ELSE cursorOf[e]]
    /\ pruned' \in {pruned} \cup {cursorOf[e] : e \in gone}
    /\ pruned' >= pruned /\ \A e \in gone : cursorOf[e] <= pruned'
    /\ UNCHANGED <<issued, assigned>>

LogNext ==
    \/ \E new \in SUBSET Event : \E at \in Cursors(new) : Append(new, at)
    \/ \E gone \in SUBSET Event : Prune(gone)

LogSpec == LogInit /\ [][LogNext]_logVars
===============================================================================
