----------------------------- MODULE ConfigFiles -----------------------------
(* The two files of the configuration directory, each with its copy in memory: the settings, which *)
(* an update merges under the lock of the copy while resets and imports replace them without it,   *)
(* and the identity, whose every writer holds the lock. Both are written to one temporary     *)
(* file and renamed; the process may die at any step, and a write may fail.                        *)
EXTENDS Integers, FiniteSets

CONSTANTS
    Setting,        \* what a patch of the settings may name
    Value,
    Reset,          \* the resets that may be under way at once
    MaxWrites,      \* bound: writes of either file
    MaxFileFaults   \* bound: crashes and failed writes

ASSUME ConfigAssumption ==
    /\ Setting # {} /\ 0 \in Value /\ Value \subseteq Nat /\ MaxWrites \in Nat /\ MaxFileFaults \in Nat
    /\ Reset \cap {"update", "import"} = {}

VARIABLES
    memory,     \* the settings the program works with
    mainFile, tempFile,  \* settings.json and settings.json.tmp
    settingsLock, \* the write lock of the copy in memory
    saver,      \* the update and the replacements under way
    identity,   \* the identity in memory, its file, whether its last write failed, a write under way
    met,        \* two of them were under way at once
    writes, faults

configVars == <<memory, mainFile, tempFile, settingsLock, saver, identity, met, writes, faults>>
settingsVars == <<memory, mainFile, tempFile, settingsLock, saver, met>>

Defaults == [f \in Setting |-> 0]
Torn == [f \in Setting |-> -1]           \* in a file: empty, cut, or one text over another
Absent == [f \in Setting |-> -2]         \* no such file
Settings == [Setting -> Value]

\* Updates wait for each other, and imports for the lock of the files.
FileWriter == {"update", "import"} \cup Reset
AtRest == [at |-> "none", value |-> Defaults, file |-> "none"]
IdentityAtRest == [at |-> "none", value |-> 0]

\* The first start has written the defaults and a new identity.
ConfigInit ==
    /\ memory = Defaults /\ mainFile = Defaults /\ tempFile = Absent /\ settingsLock = FALSE
    /\ saver = [w \in FileWriter |-> AtRest]
    /\ identity = [memory |-> 0, main |-> 0, failed |-> FALSE, write |-> IdentityAtRest]
    /\ met = FALSE /\ writes = 0 /\ faults = 0

Step(w, at) == saver' = [saver EXCEPT ![w].at = at]
Writing(w) == saver[w].at # "none"

----------------------------------------------------------------------------
\* The settings.

\* An update holds the lock from here to its end. Its patch is merged with what is in memory; what
\* validate_settings refuses goes no further.
BeginUpdate(f, v) ==
    /\ ~Writing("update") /\ ~settingsLock /\ writes < MaxWrites
    /\ settingsLock' = TRUE /\ writes' = writes + 1
    /\ saver' = [saver EXCEPT !["update"] =
                      [AtRest EXCEPT !.at = "create", !.value = [memory EXCEPT ![f] = v]]]
    /\ met' = (met \/ \E w \in FileWriter : Writing(w))
    /\ UNCHANGED <<memory, mainFile, tempFile, identity, faults>>

\* reset with the defaults, replace_from_file with the settings of a backup: neither holds the lock, and
\* a reset waits for nothing.
BeginReplacement(w, settings) ==
    /\ ~Writing(w) /\ writes < MaxWrites
    /\ writes' = writes + 1
    /\ saver' = [saver EXCEPT ![w] = [AtRest EXCEPT !.at = "create", !.value = settings]]
    /\ met' = (met \/ \E v \in FileWriter : Writing(v))
    /\ UNCHANGED <<memory, mainFile, tempFile, settingsLock, identity, faults>>

\* Mutant: the settings file is written in place.
CreateInPlace(w) ==
    /\ saver[w].at = "create"
    /\ mainFile' = Torn
    /\ saver' = [saver EXCEPT ![w].at = "write", ![w].file = "main"]
    /\ UNCHANGED <<memory, tempFile, settingsLock, identity, met, writes, faults>>

\* write_atomic: the temporary file is made, or emptied if it is there.
Create(w) ==
    /\ saver[w].at = "create"
    /\ tempFile' = Torn
    /\ saver' = [saver EXCEPT ![w].at = "write", ![w].file = "temp"]
    /\ UNCHANGED <<memory, mainFile, settingsLock, identity, met, writes, faults>>

\* The text goes to the file that was opened, wherever it was renamed to since. Over another text
\* it may leave that one's end.
Texts(old, new) == IF old \in {Torn, new} THEN {new} ELSE {new, Torn}

WriteText(w) ==
    /\ saver[w].at = "write"
    /\ \/ saver[w].file = "temp" /\ tempFile' \in Texts(tempFile, saver[w].value) /\ UNCHANGED mainFile
       \/ saver[w].file = "main" /\ mainFile' \in Texts(mainFile, saver[w].value) /\ UNCHANGED tempFile
       \/ saver[w].file = "gone" /\ UNCHANGED <<mainFile, tempFile>>
    /\ Step(w, "rename")
    /\ UNCHANGED <<memory, settingsLock, identity, met, writes, faults>>

Elsewhere(file) == CASE file = "temp" -> "main" [] file = "main" -> "gone" [] OTHER -> file

\* What is open as the temporary file is the settings file now.
Rename(w) ==
    /\ saver[w].at = "rename" /\ tempFile # Absent
    /\ mainFile' = tempFile /\ tempFile' = Absent
    /\ saver' = [v \in FileWriter |->
                      [saver[v] EXCEPT !.at = IF v = w THEN "set" ELSE @,
                                        !.file = Elsewhere(@)]]
    /\ UNCHANGED <<memory, settingsLock, identity, met, writes, faults>>

\* A replacement waits for the lock only here.
SetMemory(w) ==
    /\ saver[w].at = "set" /\ (w # "update" => ~settingsLock)
    /\ memory' = saver[w].value
    /\ settingsLock' = (settingsLock /\ w # "update")
    /\ saver' = [saver EXCEPT ![w] = AtRest]
    /\ UNCHANGED <<mainFile, tempFile, identity, met, writes, faults>>

GiveUpWriting(w) ==
    /\ saver' = [saver EXCEPT ![w] = AtRest]
    /\ settingsLock' = (settingsLock /\ w # "update")

\* The temporary file was renamed by another saver.
NothingToRename(w) ==
    /\ saver[w].at = "rename" /\ tempFile = Absent
    /\ GiveUpWriting(w)
    /\ UNCHANGED <<memory, mainFile, tempFile, identity, met, writes, faults>>

\* The disk is full or the file cannot be made; of the text, a part may be there.
WriteFails(w) ==
    /\ saver[w].at \in {"create", "write", "rename"} /\ faults < MaxFileFaults
    /\ faults' = faults + 1
    /\ GiveUpWriting(w)
    /\ UNCHANGED <<memory, mainFile, tempFile, identity, met, writes>>

----------------------------------------------------------------------------
\* The identity: set_group, update_device_name, set_cloud_relay_auth_token and the refreshed name
\* all change the copy in memory first, under the lock, and then write.

Goes(fields) == identity' = fields

ChangeIdentity(v) ==
    /\ identity.write.at = "none" /\ v # identity.memory /\ writes < MaxWrites
    /\ writes' = writes + 1
    /\ Goes([identity EXCEPT !.memory = v, !.write = [at |-> "create", value |-> v]])
    /\ UNCHANGED <<settingsVars, faults>>

\* The temporary file is made and written, then renamed.
WriteIdentity ==
    /\ \/ /\ identity.write.at = "create"
          /\ Goes([identity EXCEPT !.write.at = "rename"])
       \/ /\ identity.write.at = "rename"
          /\ Goes([identity EXCEPT !.main = identity.write.value, !.failed = FALSE,
                                   !.write = IdentityAtRest])
    /\ UNCHANGED <<settingsVars, writes, faults>>

\* The caller gets an error; what is in memory stays.
IdentityFails ==
    /\ identity.write.at # "none" /\ faults < MaxFileFaults
    /\ faults' = faults + 1
    /\ Goes([identity EXCEPT !.write = IdentityAtRest, !.failed = TRUE])
    /\ UNCHANGED <<settingsVars, writes>>

----------------------------------------------------------------------------
\* The process dies and starts again: settings that cannot be read count as the defaults, which
\* are not written. The identity is read as it is.
Loaded == IF mainFile = Torn THEN Defaults ELSE mainFile

Restart ==
    /\ faults < MaxFileFaults
    /\ faults' = faults + 1
    /\ memory' = Loaded /\ settingsLock' = FALSE
    /\ saver' = [w \in FileWriter |-> AtRest]
    /\ Goes([identity EXCEPT !.memory = identity.main, !.failed = FALSE, !.write = IdentityAtRest])
    /\ UNCHANGED <<mainFile, tempFile, met, writes>>

WriterStep(w) ==
    Create(w) \/ WriteText(w) \/ Rename(w) \/ SetMemory(w) \/ NothingToRename(w) \/ WriteFails(w)

ConfigNext ==
    \/ \E f \in Setting, v \in Value : BeginUpdate(f, v)
    \/ \E r \in Reset : BeginReplacement(r, Defaults)
    \/ \E settings \in Settings : BeginReplacement("import", settings)
    \/ \E w \in FileWriter : WriterStep(w)
    \/ \E v \in Value : ChangeIdentity(v)
    \/ WriteIdentity \/ IdentityFails
    \/ Restart

ConfigSpec == ConfigInit /\ [][ConfigNext]_configVars

----------------------------------------------------------------------------

ConfigTypeOK ==
    /\ memory \in Settings
    /\ mainFile \in Settings \cup {Torn} /\ tempFile \in Settings \cup {Torn, Absent}
    /\ identity.memory \in Value /\ identity.main \in Value
    /\ \A w \in FileWriter :
           /\ saver[w].at \in {"none", "create", "write", "rename", "set"}
           /\ saver[w].value \in Settings /\ saver[w].file \in {"none", "temp", "main", "gone"}
    /\ settingsLock \in BOOLEAN /\ met \in BOOLEAN /\ writes \in 0..MaxWrites /\ faults \in 0..MaxFileFaults

\* "First to settings.json.tmp, then atomically in place of the main file, so that no half JSON is
\* left when the power goes" (settings/store.rs:4). A replacement does not hold the lock of an
\* update, nor of another replacement, and all write the same temporary file.
FileWhole == mainFile # Torn

\* As long as no two writes of the settings met, the file is whole at every step, and what it holds is
\* what a restart should bring back: the settings in memory or those of the write under way
\* (write_atomic, update, reset, replace_from_file).
KeptWhole ==
    ~met =>
        /\ FileWhole
        /\ mainFile = memory \/ \E w \in FileWriter : saver[w].at = "set" /\ mainFile = saver[w].value

\* The identity decides what group the device takes itself to be in: its file is what is in memory
\* unless a write is under way or the last one failed (set_group, write_identity).
IdentityKept ==
    identity.main # identity.memory => identity.write.at # "none" \/ identity.failed

ConfigSound == KeptWhole /\ IdentityKept
=============================================================================
