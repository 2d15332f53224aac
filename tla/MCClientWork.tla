---------------------------- MODULE MCClientWork ----------------------------
(* Instances of what a client does beside its log and its connections: the payloads of its events, *)
(* the outbox they come from, the flags of its items and the icons of its source applications,     *)
(* sent and fetched; updating itself, the preview, keys caught while the clipboard window shows,   *)
(* the history of the old version, and backups carried between computers. Each has a state of its  *)
(* own; the icons are two parts, one of a device that sends and one of a device that receives.     *)
EXTENDS Transfer, Outbox, Retention, Icons, Updates, Preview, SearchKeys, LegacyImport, Backups

CONSTANTS key, lock, editor, browser, small, large, file, secret,
          note, img, base, moved, store, window, old, memo

MCItemOf == [e \in Sending |-> IF e = 3 THEN 2 ELSE 1]
MCNeeds == [e \in Sending |-> CASE e = 1 -> {small, large} [] e = 2 -> {} [] OTHER -> {large}]
MCKeyAt == [e \in OldEvent |-> IF e = 1 THEN key ELSE lock]
MCIconOf == [e \in SourceEvent |-> IF e = 2 THEN browser ELSE editor]

MCVersionOf == [a \in Artefact |-> IF a = 3 THEN 2 ELSE 1]
MCAnchorOf == [i \in Previewed |-> IF i = 1 THEN [left |-> 2, top |-> 30, width |-> 8, height |-> 4]
                                            ELSE [left |-> 30, top |-> 2, width |-> 8, height |-> 4]]
MCScreen == [left |-> 0, top |-> 0, width |-> 40, height |-> 40]
MCPanel == [width |-> 12, height |-> 10]

\* Rows of the old version: an image, a favourite text, a secret, and the text again.
LegacyRow(kind, content, favorite) == [kind |-> kind, content |-> content, favorite |-> favorite, blank |-> FALSE]
MCOldItem == <<LegacyRow("image", img, FALSE), LegacyRow("text", note, TRUE), LegacyRow("text", key, FALSE), LegacyRow("text", note, FALSE)>>
MCRowsIn == [d \in OldDatabase |-> IF d = old THEN OldRow ELSE {1}]
MCFolders == <<base, moved>>
MCFoundIn == [f \in {base, moved} |-> IF f = base THEN <<store, window>> ELSE <<old>>]
MCPicturesIn == [f \in {base, moved} |-> IF f = moved THEN {img} ELSE {}]
MCTextFormats == [c \in Copied |-> {"text", "html"}]
MCCaptureChoice ==
    {[order |-> <<"html", "text", "image">>, enabled |-> {"text", "html", "image"}, secrets |-> FALSE],
     [order |-> <<"text", "html", "image">>, enabled |-> {"html", "image"}, secrets |-> TRUE]}

\* A file the sender has by reference, and the same where it lies at another sender.
MCSentKey == [e \in Received |-> <<file, IF e = "shared" THEN Shared ELSE Outside>>]

\* A backup of another computer, and one of a version that named files by their paths, of a computer
\* whose data was moved and which had received the file.
MCOldArchive ==
    {[root |-> "there", encrypted |-> TRUE, whole |-> TRUE, files |-> {<<file, Shared>>},
      rows |-> <<RowOf(file, <<file, <<"there", "file">>>>, <<"there", "file">>),
                 RowOf(file, <<file, Outside>>, Outside), RowOf(memo, <<memo, Shared>>, Shared)>>],
     [root |-> "unknown", encrypted |-> FALSE, whole |-> TRUE,
      files |-> {<<file, Shared>>, <<file, <<"resource", "shared">>>>},
      rows |-> <<RowOf(file, MCSentKey["shared"], <<"old", "shared">>),
                 RowOf(file, <<file, <<"old", "file">>>>, <<"old", "file">>),
                 RowOf(file, <<file, <<"there", "file">>>>, <<"there", "file">>)>>]}

VARIABLE part

WorkInit ==
    /\ part \in {"transfer", "outbox", "retention", "icons_out", "icons_in",
                 "updates", "preview", "keys", "import", "backups"}
    /\ TransferInit /\ OutboxInit /\ RetentionClientInit /\ IconInit
    /\ UpdateInit /\ PreviewInit /\ SearchKeysInit /\ LegacyImportInit /\ BackupsInit
    /\ part # "retention" => favs = {}
    /\ part # "updates" => ~build.android
    /\ part # "import" => ~capture.secrets

SendingVars == <<transferVars, outboxVars, retentionClientVars, iconVars>>
DesktopVars == <<updateVars, previewVars, keyVars, importVars, backupVars>>

WorkNext ==
    \/ /\ part = "transfer" /\ TransferNext
       /\ UNCHANGED <<part, outboxVars, retentionClientVars, iconVars, DesktopVars>>
    \/ /\ part = "outbox" /\ OutboxNext
       /\ UNCHANGED <<part, transferVars, retentionClientVars, iconVars, DesktopVars>>
    \/ /\ part = "retention" /\ RetentionClientNext
       /\ UNCHANGED <<part, transferVars, outboxVars, iconVars, DesktopVars>>
    \/ /\ part = "icons_out" /\ IconOutNext
       /\ UNCHANGED <<part, transferVars, outboxVars, retentionClientVars, DesktopVars>>
    \/ /\ part = "icons_in" /\ IconInNext
       /\ UNCHANGED <<part, transferVars, outboxVars, retentionClientVars, DesktopVars>>
    \/ /\ part = "updates" /\ UpdateNext
       /\ UNCHANGED <<part, SendingVars, previewVars, keyVars, importVars, backupVars>>
    \/ /\ part = "preview" /\ PreviewNext
       /\ UNCHANGED <<part, SendingVars, updateVars, keyVars, importVars, backupVars>>
    \/ /\ part = "keys" /\ SearchKeysNext
       /\ UNCHANGED <<part, SendingVars, updateVars, previewVars, importVars, backupVars>>
    \/ /\ part = "import" /\ LegacyImportNext
       /\ UNCHANGED <<part, SendingVars, updateVars, previewVars, keyVars, backupVars>>
    \/ /\ part = "backups" /\ BackupsNext
       /\ UNCHANGED <<part, SendingVars, updateVars, previewVars, keyVars, importVars>>

\* A round and its uploads go on, the worker of the outbox runs when it was woken or a retry is due,
\* cycles fetch their plans, and a publisher that was woken publishes.
\* Updates are looked for and the wanted one is fetched, and a handoff of keys has its timeout.
WorkFairness ==
    /\ WF_transferVars(part = "transfer" /\ RoundStep)
    /\ \A p \in Payload : WF_transferVars(part = "transfer" /\ UploadStep(p))
    /\ WF_outboxVars(part = "outbox" /\ BatchStep) /\ WF_outboxVars(part = "outbox" /\ FillStep)
    /\ WF_outboxVars(part = "outbox" /\ RetryStep)
    /\ WF_retentionClientVars(part = "retention" /\ PlanStep)
    /\ WF_retentionClientVars(part = "retention" /\ RegisterStep)
    /\ WF_iconVars(part = "icons_out" /\ SendStep) /\ WF_iconVars(part = "icons_out" /\ PublishStep)
    /\ WF_updateVars(part = "updates" /\ CheckStep) /\ WF_updateVars(part = "updates" /\ WantedStep)
    /\ \A d \in DownloadSlot : WF_updateVars(part = "updates" /\ FetchStep(d))
    /\ \A s \in Session : WF_keyVars(part = "keys" /\ TimeOut(s))

WorkSpec == WorkInit /\ [][WorkNext]_<<part, SendingVars, DesktopVars>> /\ WorkFairness

\* The cells of the parts keep their shape.
WorkTypeOK ==
    /\ TransferTypeOK /\ OutboxTypeOK /\ RetentionClientTypeOK /\ IconTypeOK
    /\ UpdateTypeOK /\ PreviewTypeOK /\ SearchKeysTypeOK /\ LegacyImportTypeOK /\ BackupsTypeOK

\* What is shown or taken for sent is at the Hub, whatever was retried, given up or lost on the way:
\* payloads before their events, an item once, flags unless an answer was lost, icons or their entry.
FlowSound == TransferSound /\ OutboxSound /\ ReportedUnlessUnheard /\ IconsSound

\* What is installed is one package, a preview is of what was asked for last and beside it, keys reach
\* the search in their order, an import of the old history or of a backup takes everything once and
\* with its files, and an export that fails leaves the last one.
DesktopSound == InstalledIsWhole /\ PreviewSound /\ SearchKeysSound /\ ImportSound /\ BackupsSound

\* What waits is sent: payloads with their events, copies that may be sent, flags and icons.
\* A newer version is offered, and what is caught for the search is let go.
EventuallyFlows ==
    []<>(/\ part = "transfer" => AllUploaded
         /\ OutboxDrained
         /\ part = "retention" => FlagsRegistered
         /\ part = "icons_out" => IconsPublished
         /\ UpdateOffered /\ HandoffEnds)
=============================================================================
