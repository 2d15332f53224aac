------------------------------- MODULE MCHub -------------------------------
(* Instances of the parts of the Hub process beside its store. They share no state, so a behaviour *)
(* of the run is one of either.                                                                    *)
EXTENDS HubQuota, Watch, Paging, Directory

CONSTANTS g1, u1, u2, a, b

MCGroupOf == [u \in Upload |-> g1]
MCSize == [u \in Upload |-> IF u = u1 THEN 2 ELSE 1]

VARIABLE part

HubInit ==
    /\ part \in {"quota", "watch", "paging", "directory"}
    /\ QuotaInit /\ WatchInit /\ PagingInit /\ DirInit

HubNext ==
    \/ /\ part = "quota" /\ QuotaNext
       /\ UNCHANGED <<part, watchVars, pagingVars, dirVars>>
    \/ /\ part = "watch" /\ WatchNext
       /\ UNCHANGED <<part, quotaVars, pagingVars, dirVars>>
    \/ /\ part = "paging" /\ PagingNext
       /\ UNCHANGED <<part, quotaVars, watchVars, dirVars>>
    \/ /\ part = "directory" /\ DirNext
       /\ UNCHANGED <<part, quotaVars, watchVars, pagingVars>>

\* The worker's task runs, and sleeps only seconds after a failure; the hourly interval is not
\* counted on. Clients try again and finish their uploads.
QuotaFairness ==
    /\ WF_quotaVars(part = "quota" /\ WorkerStep)
    /\ WF_quotaVars(part = "quota" /\ worker.retry /\ TimeUp)
    /\ \A u \in Upload :
        WF_quotaVars(part = "quota" /\ Reserve(u)) /\ WF_quotaVars(part = "quota" /\ Store(u))

\* The handlers of the Hub and the workers of the client run.
WatchFairness ==
    /\ WF_watchVars(part = "watch" /\ Announce)
    /\ WF_watchVars(part = "watch" /\ StartSession)
    /\ \A i \in Stream : WF_watchVars(part = "watch" /\ HubStep(i))
    /\ \A s \in Slot : WF_watchVars(part = "watch" /\ ClientStep(s))
    /\ WF_watchVars(part = "watch" /\ TransferStep)

HubSpec ==
    /\ HubInit /\ [][HubNext]_<<part, quotaVars, watchVars, pagingVars, dirVars>>
    /\ QuotaFairness /\ WatchFairness

\* The cells of all parts keep their shape.
HubTypeOK == QuotaTypeOK /\ WatchTypeOK /\ PagingTypeOK /\ DirTypeOK

\* A watch never believes it is up to date when it is not (NoMissedChange), a served stream is the
\* registered one, the pages of the record list join without a gap (PagesJoin), no device's cursor
\* passes an event it was not given (NothingPassed), and the counter that holds the cleanup back
\* counts the active uploads (UploadsCounted).
HubSound == WatchesSound /\ PagesJoin /\ NothingPassed /\ UploadsCounted

\* Neither a cleanup that was put off nor a stricter target is forgotten (HubQuota), and a removed
\* device stores nothing and is given nothing from the moment the Hub has the removal (Directory).
HubSteps ==
    [][/\ PutOffUntilUploadsEnd' /\ StricterTargetStays
       /\ MembersOnlyStep]_<<quotaVars, dirVars>>

\* Every upload there is room for is stored in the end, and every change is pulled.
EventuallyServed == []<>(UploadsStored /\ AllPulled)
=============================================================================
