-------------------------------- MODULE Updates --------------------------------
(* The application's own updates (update.rs): checks of the release server, the candidate that    *)
(* UpdateState keeps, downloads - into memory on a desktop, into the cache directory on Android -     *)
(* the version the user skips, and the installation. Checks and downloads wait for the network       *)
(* without holding the state, and go on when the candidate was replaced meanwhile.                   *)
EXTENDS Naturals, FiniteSets

CONSTANTS
    Artefact,       \* packages in the order they are published (0 is none), each with its address
    VersionOf,      \* [Artefact -> Nat]: a version may be published again, at another address
    DownloadSlot,   \* downloads that run at once (numbers)
    MaxPublished,   \* bounds: what the release server publishes,
    MaxUpdateFaults, \* failures and restarts
    MaxWishes       \* and what the user does

ASSUME ArtefactAssumption ==
    /\ Artefact \subseteq Nat \ {0} /\ VersionOf \in [Artefact -> Nat \ {0}]
    /\ DownloadSlot \subseteq Nat \ {0}

VARIABLES
    build,          \* "android" or "desktop", and the version that is installed
    release,        \* the manifest of the release server
    candidate,      \* UpdateState.current
    checks,         \* checks on their way: of the timer and of the user
    skipped,        \* update.skippedVersion of the settings
    wanted,         \* versions for which start_android_update was called
    fetches,        \* the downloads that run
    temporary,      \* the .apk.download and
    packages,       \* the .apk files of the cache directory, by version
    opened,         \* history: what the last installation got
    replaced,       \* history: was a candidate replaced while its download ran?
    dealings        \* history: the numbers of steps taken against the bounds

updateVars == <<build, release, candidate, checks, skipped, wanted, fetches, temporary,
                packages, opened, replaced, dealings>>

Version == {VersionOf[a] : a \in Artefact}
Checker == {"timer", "user"}
NoFile == [by |-> 0, of |-> 0, whole |-> FALSE]
NoCandidate == [of |-> 0, has |-> 0, downloading |-> FALSE]
NoCheck == [at |-> "idle", skipped |-> 0, found |-> 0]
NoFetch == [at |-> "idle", of |-> 0, installs |-> FALSE]
Mixed == 0

UpdateTypeOK ==
    /\ build.android \in BOOLEAN /\ build.version \in Version \cup {0}
    /\ release \in Artefact \cup {0} /\ candidate.of \in Artefact \cup {0}
    /\ \A c \in Checker : checks[c].at \in {"idle", "asked", "answered"} /\ checks[c].found \in Artefact \cup {0}
    /\ \A d \in DownloadSlot : fetches[d].at \in {"idle", "fetching", "writing", "written", "renamed"}
    /\ wanted \subseteq Version
    /\ \A v \in Version : temporary[v].of \in Artefact \cup {Mixed} /\ packages[v].of \in Artefact \cup {Mixed}

UpdateInit ==
    /\ build \in [android : BOOLEAN, version : {0}]
    /\ release = 0 /\ candidate = NoCandidate
    /\ checks = [c \in Checker |-> NoCheck]
    /\ skipped = 0
    /\ wanted = {} /\ fetches = [d \in DownloadSlot |-> NoFetch]
    /\ temporary = [v \in Version |-> NoFile] /\ packages = [v \in Version |-> NoFile]
    /\ opened = [version |-> 0, of |-> 0, whole |-> TRUE]
    /\ replaced = FALSE
    /\ dealings = [published |-> 0, faults |-> 0, wishes |-> 0]

Dealing(field, bound) == dealings[field] < bound /\ dealings' = [dealings EXCEPT ![field] = @ + 1]

VersionNow(a) == IF a = 0 THEN 0 ELSE VersionOf[a]
IsFile(v) == packages[v] # NoFile

-----------------------------------------------------------------------------
(* Checks *)

Publish(a) ==
    /\ Dealing("published", MaxPublished)
    /\ a > release
    /\ release' = a
    /\ UNCHANGED <<build, candidate, checks, skipped, wanted, fetches, temporary, packages, opened, replaced>>

\* check reads the settings before it asks the server. The timer checks again and again, after the
\* time of the frequency or, when a check failed, soon.
StartCheck(c) ==
    /\ checks[c].at = "idle"
    /\ IF c = "timer" THEN UNCHANGED dealings ELSE Dealing("wishes", MaxWishes)
    /\ checks' = [checks EXCEPT ![c] = [at |-> "asked", skipped |-> skipped, found |-> 0]]
    /\ UNCHANGED <<build, release, candidate, skipped, wanted, fetches, temporary, packages, opened, replaced>>

ServerAnswers(c) ==
    /\ checks[c].at = "asked"
    /\ checks' = [checks EXCEPT ![c].at = "answered", ![c].found = release]
    /\ UNCHANGED <<build, release, candidate, skipped, wanted, fetches, temporary, packages, opened, replaced, dealings>>

CheckFails(c) ==
    /\ Dealing("faults", MaxUpdateFaults)
    /\ checks[c].at # "idle" /\ checks' = [checks EXCEPT ![c] = NoCheck]
    /\ UNCHANGED <<build, release, candidate, skipped, wanted, fetches, temporary, packages, opened, replaced>>

\* set_update keeps a candidate of the same version and address with what was downloaded for it.
Kept(a) == a # 0 /\ candidate.of = a

SetUpdate(a) ==
    /\ candidate' = IF Kept(a) THEN candidate
                    ELSE IF a = 0 THEN NoCandidate
                    ELSE [of |-> a, downloading |-> FALSE,
                          has |-> IF build.android /\ IsFile(VersionOf[a]) THEN a ELSE 0]
    /\ replaced' = (replaced \/ (candidate.downloading /\ candidate.of # a))

\* What the answer means by the settings the check began with. Android starts the download itself.
ApplyCheck(c) ==
    /\ checks[c].at = "answered"
    /\ LET a == checks[c].found
           newer == VersionNow(a) > build.version /\ VersionNow(a) # checks[c].skipped
       IN  /\ SetUpdate(IF newer THEN a ELSE 0)
           /\ wanted' = IF newer /\ build.android THEN wanted \cup {VersionOf[a]} ELSE wanted
    /\ checks' = [checks EXCEPT ![c] = NoCheck]
    /\ UNCHANGED <<build, release, skipped, fetches, temporary, packages, opened, dealings>>

-----------------------------------------------------------------------------
(* Downloads *)

\* begin_download.
MayBegin(v) == VersionNow(candidate.of) = v /\ ~candidate.downloading

\* Called by the user, or by a check on Android, which then also installs. A slot is free.
BeginDownload(d, v, automatic) ==
    /\ fetches[d].at = "idle" /\ \A o \in DownloadSlot : o < d => fetches[o].at # "idle"
    /\ IF automatic THEN v \in wanted /\ wanted' = wanted \ {v} /\ UNCHANGED dealings
                    ELSE VersionNow(candidate.of) = v /\ UNCHANGED wanted /\ Dealing("wishes", MaxWishes)
    /\ IF build.android
       THEN IF ~IsFile(v) /\ MayBegin(v)
            THEN /\ candidate' = [candidate EXCEPT !.downloading = TRUE]
                 /\ fetches' = [fetches EXCEPT ![d] = [at |-> "fetching", of |-> candidate.of, installs |-> automatic]]
            ELSE \* downloaded already, or begin_download refuses: an error is shown
                 /\ UNCHANGED <<candidate, fetches>>
       ELSE /\ fetches' = [fetches EXCEPT ![d] = [at |-> "fetching", of |-> candidate.of, installs |-> FALSE]]
            /\ UNCHANGED candidate
    /\ UNCHANGED <<build, release, checks, skipped, temporary, packages, opened, replaced>>

\* Desktop: the bytes are kept for the candidate if it still has the version.
DownloadedToMemory(d) ==
    /\ ~build.android /\ fetches[d].at = "fetching"
    /\ candidate' = IF VersionNow(candidate.of) = VersionOf[fetches[d].of]
                    THEN [candidate EXCEPT !.has = fetches[d].of] ELSE candidate
    /\ fetches' = [fetches EXCEPT ![d] = NoFetch]
    /\ UNCHANGED <<build, release, checks, skipped, wanted, temporary, packages, opened, replaced, dealings>>

\* Android: File::create, which truncates what another download of the version wrote.
CreateTemporary(d) ==
    /\ build.android /\ fetches[d].at = "fetching"
    /\ LET v == VersionOf[fetches[d].of]
           shared == \E o \in DownloadSlot \ {d} : /\ fetches[o].at = "writing" /\ temporary[v].by = o
                                                   /\ fetches[o].of # fetches[d].of
       IN  temporary' = [temporary EXCEPT ![v] =
                            [by |-> d, of |-> IF shared THEN Mixed ELSE fetches[d].of, whole |-> FALSE]]
    /\ fetches' = [fetches EXCEPT ![d].at = "writing"]
    /\ UNCHANGED <<build, release, candidate, checks, skipped, wanted, packages, opened, replaced, dealings>>

\* All bytes are written and their digest is the expected one: the digest is of what arrived, not
\* of what is in the file.
WriteTemporary(d) ==
    /\ fetches[d].at = "writing"
    /\ LET v == VersionOf[fetches[d].of]
           Done(f) == IF f.by = d THEN [f EXCEPT !.whole = TRUE] ELSE f
       IN  /\ temporary' = [temporary EXCEPT ![v] = Done(@)]
           /\ packages' = [packages EXCEPT ![v] = Done(@)]
    /\ fetches' = [fetches EXCEPT ![d].at = "written"]
    /\ UNCHANGED <<build, release, candidate, checks, skipped, wanted, opened, replaced, dealings>>

\* The file is renamed and the packages of other versions are removed.
RenamePackage(d) ==
    /\ fetches[d].at = "written"
    /\ LET v == VersionOf[fetches[d].of]
       IN  /\ temporary[v] # NoFile
           /\ packages' = [w \in Version |-> IF w = v THEN [temporary[v] EXCEPT !.by = IF @ = d THEN 0 ELSE @]
                                             ELSE NoFile]
           /\ temporary' = [temporary EXCEPT ![v] = NoFile]
    /\ fetches' = [fetches EXCEPT ![d].at = "renamed"]
    /\ UNCHANGED <<build, release, candidate, checks, skipped, wanted, opened, replaced, dealings>>

\* mark_downloaded; start_android_update goes on with the installer.
MarkDownloaded(d) ==
    /\ fetches[d].at = "renamed"
    /\ LET v == VersionOf[fetches[d].of]
       IN  /\ VersionNow(candidate.of) = v
           /\ candidate' = [candidate EXCEPT !.has = candidate.of, !.downloading = FALSE]
           /\ opened' = IF fetches[d].installs /\ IsFile(v)
                        THEN [version |-> v, of |-> packages[v].of, whole |-> packages[v].whole] ELSE opened
    /\ fetches' = [fetches EXCEPT ![d] = NoFetch]
    /\ UNCHANGED <<build, release, checks, skipped, wanted, temporary, packages, replaced, dealings>>

\* mark_download_failed, by version.
MarkedAfterFailure(v) == candidate.downloading /\ VersionNow(candidate.of) # v

\* The network, the disk, a temporary file another download took, or a candidate that is no longer
\* current: the flag and the temporary file of the version are cleared, whoever they belong to.
DownloadFails(d) ==
    /\ fetches[d].at # "idle"
    /\ LET v == VersionOf[fetches[d].of]
           gone == \/ fetches[d].at = "written" /\ temporary[v] = NoFile
                   \/ fetches[d].at = "renamed" /\ VersionNow(candidate.of) # v
       IN  /\ IF gone THEN UNCHANGED dealings ELSE Dealing("faults", MaxUpdateFaults)
           /\ fetches[d].at = "renamed" => gone
           /\ candidate' = IF build.android THEN [candidate EXCEPT !.downloading = MarkedAfterFailure(v)]
                           ELSE candidate
           /\ temporary' = IF build.android THEN [temporary EXCEPT ![v] = NoFile] ELSE temporary
    /\ fetches' = [fetches EXCEPT ![d] = NoFetch]
    /\ UNCHANGED <<build, release, checks, skipped, wanted, packages, opened, replaced>>

-----------------------------------------------------------------------------
(* The user *)

\* The candidate goes, downloads and checks on their way do not.
SkipVersion ==
    /\ Dealing("wishes", MaxWishes)
    /\ candidate.of # 0
    /\ skipped' = VersionOf[candidate.of]
    /\ SetUpdate(0)
    /\ UNCHANGED <<build, release, checks, wanted, fetches, temporary, packages, opened>>

\* Whatever ran is gone, the files and the settings stay; an installation is followed by a restart.
Restarted(version) ==
    /\ build' = [build EXCEPT !.version = version]
    /\ candidate' = NoCandidate /\ checks' = [c \in Checker |-> NoCheck]
    /\ wanted' = {} /\ fetches' = [d \in DownloadSlot |-> NoFetch]

\* install: on a desktop the bytes of the candidate, on Android whatever file has its name.
Install ==
    /\ Dealing("wishes", MaxWishes)
    /\ candidate.has # 0
    /\ LET v == VersionOf[candidate.of]
       IN  /\ build.android => IsFile(v)
           /\ opened' = IF build.android THEN [version |-> v, of |-> packages[v].of, whole |-> packages[v].whole]
                        ELSE [version |-> v, of |-> candidate.has, whole |-> TRUE]
           /\ Restarted(v)
    /\ UNCHANGED <<release, skipped, temporary, packages, replaced>>

RestartApp ==
    /\ Dealing("faults", MaxUpdateFaults)
    /\ Restarted(build.version)
    /\ UNCHANGED <<release, skipped, temporary, packages, opened, replaced>>

-----------------------------------------------------------------------------
CheckStep == StartCheck("timer") \/ \E c \in Checker : ServerAnswers(c) \/ ApplyCheck(c)

WantedStep == \E d \in DownloadSlot, v \in Version : BeginDownload(d, v, TRUE)

FetchStep(d) ==
    \/ DownloadedToMemory(d) \/ CreateTemporary(d) \/ WriteTemporary(d) \/ RenamePackage(d) \/ MarkDownloaded(d)
    \/ fetches[d].at \in {"written", "renamed"} /\ DownloadFails(d)

UpdateNext ==
    \/ CheckStep \/ WantedStep
    \/ \E a \in Artefact : Publish(a)
    \/ StartCheck("user") \/ \E c \in Checker : CheckFails(c)
    \/ \E d \in DownloadSlot : FetchStep(d) \/ DownloadFails(d) \/ \E v \in Version : BeginDownload(d, v, FALSE)
    \/ SkipVersion \/ Install \/ RestartApp

-----------------------------------------------------------------------------
(* Properties *)

\* What is installed is one package, whole, of the version it is shown as, although downloads of a
\* version share their files and fail, or outlive their candidate; unless a candidate was replaced
\* while its download ran, when two downloads may write the same file.
InstalledIsWhole ==
    opened.version # 0 /\ ~replaced => opened.whole /\ opened.of # Mixed /\ VersionOf[opened.of] = opened.version

\* The newest release is offered, and Android has it downloaded, unless the user skipped it.
UpdateOffered ==
    VersionNow(release) \notin {0, skipped} /\ VersionNow(release) > build.version
        => /\ VersionNow(candidate.of) = VersionNow(release)
           /\ build.android => IsFile(VersionNow(release))
=============================================================================
