--------------------------- MODULE DesktopProofs ---------------------------
(***************************************************************************)
(* What holds of updates, the preview, caught keys, the import of the old  *)
(* history and backups, by an inductive invariant of each: UpdateInv,      *)
(* PreviewInv, KeyInv, ImportInv and BackupInv. The theorems about the     *)
(* client as a whole are in WorkProofs.                                    *)
(***************************************************************************)
EXTENDS Updates, Preview, SearchKeys, LegacyImport, Backups,
        FiniteSetTheorems, SequenceTheorems, WellFoundedInduction, TLAPS

\* Of a finite set, some element has the greatest value.
LEMMA GreatestOf ==
  ASSUME NEW S, IsFiniteSet(S), S # {}, NEW f \in [S -> Nat]
  PROVE  \E m \in S : \A e \in S : f[e] =< f[m]
  <1> DEFINE Above(m) == {e \in S : f[e] > f[m]}
             Sets == {Above(m) : m \in S}
  <1>1. IsWellFoundedOn(StrictSubsetOrdering(S), FiniteSubsetsOf(S))
    BY FS_StrictSubsetOrderingWellFounded
  <1>2. Sets \subseteq FiniteSubsetsOf(S) /\ Sets # {}
    <2>1. ASSUME NEW m \in S PROVE Above(m) \in FiniteSubsetsOf(S)
      BY FS_Subset DEF FiniteSubsetsOf
    <2>2. PICK m \in S : TRUE
      OBVIOUS
    <2>3. Above(m) \in Sets
      OBVIOUS
    <2>4. Sets \subseteq FiniteSubsetsOf(S)
      <3> HIDE DEF Above
      <3> QED  BY <2>1
    <2> HIDE DEF Sets
    <2> QED  BY <2>3, <2>4
  <1>3. PICK U \in Sets : \A V \in Sets : ~(<<V, U>> \in StrictSubsetOrdering(S))
    <2> HIDE DEF Sets
    <2> QED  BY <1>1, <1>2, WFMin
  <1>4. PICK m \in S : U = Above(m)
    BY <1>3
  <1>5. ASSUME NEW e \in S, f[e] > f[m] PROVE FALSE
    <2>1. \A x \in S : f[x] \in Nat
      OBVIOUS
    <2>2. Above(e) \subseteq Above(m) /\ e \in Above(m) /\ e \notin Above(e)
      <3>1. ASSUME NEW x \in Above(e) PROVE x \in Above(m)
        <4>1. f[x] \in Nat /\ f[e] \in Nat /\ f[m] \in Nat /\ x \in S /\ f[x] > f[e]
          OBVIOUS
        <4> QED  BY <4>1, <1>5
      <3>2. ~(f[e] > f[e])
        BY <2>1
      <3> QED  BY <3>1, <3>2, <1>5
    <2>3. Above(e) \in Sets /\ Above(m) \in Sets
      OBVIOUS
    <2>4. <<Above(e), Above(m)>> \in StrictSubsetOrdering(S)
      BY <2>2, <2>3 DEF StrictSubsetOrdering
    <2> QED  BY <2>3, <2>4, <1>3, <1>4
  <1>6. \A e \in S : f[e] \in Nat
    OBVIOUS
  <1> QED  BY <1>5, <1>4, <1>6

\* A finite set of numbers has a greatest one.
LEMMA Greatest ==
  ASSUME NEW S, S \subseteq Nat, IsFiniteSet(S), S # {}
  PROVE  \E m \in S : \A e \in S : e =< m
  <1> DEFINE number == [e \in S |-> e]
  <1>1. number \in [S -> Nat]
    OBVIOUS
  <1> HIDE DEF number
  <1>2. PICK m \in S : \A e \in S : number[e] =< number[m]
    BY <1>1, GreatestOf
  <1> QED  BY <1>2 DEF number

-----------------------------------------------------------------------------
(* Updates: on a desktop what is kept for the candidate is a package of its version.  On Android,  *)
(* unless a candidate was replaced while its download ran, the one download that runs is of the    *)
(* candidate, which is marked, and the temporary file is its own.                                  *)

Release == Artefact \cup {0}
Candidate == [of : Release, has : Release, downloading : BOOLEAN]
CheckCell == [at : {"idle", "asked", "answered"}, skipped : Nat, found : Release]
FetchCell == [at : {"idle", "fetching", "writing", "written", "renamed"}, of : Release, installs : BOOLEAN]
FileCell == [by : DownloadSlot \cup {0}, of : Release, whole : BOOLEAN]

UpdateShape ==
    /\ build \in [android : BOOLEAN, version : Version \cup {0}]
    /\ release \in Release /\ candidate \in Candidate
    /\ checks \in [Checker -> CheckCell] /\ skipped \in Nat
    /\ wanted \in SUBSET Version /\ fetches \in [DownloadSlot -> FetchCell]
    /\ temporary \in [Version -> FileCell] /\ packages \in [Version -> FileCell]
    /\ opened \in [version : Version \cup {0}, of : Release, whole : BOOLEAN] /\ replaced \in BOOLEAN

Runs(d) == fetches[d].at # "idle"

\* What downloads are of, and what was downloaded for the candidate.
FetchesRight ==
    /\ \A d \in DownloadSlot : Runs(d) => fetches[d].of \in Artefact
    /\ candidate.has # 0 => candidate.of # 0 /\ VersionOf[candidate.has] = VersionOf[candidate.of]
    /\ ~build.android => wanted = {} /\ \A d \in DownloadSlot : fetches[d].at \in {"idle", "fetching"}

\* Android: the one download is the candidate's.
OneDownload ==
    /\ \A d, o \in DownloadSlot : Runs(d) /\ Runs(o) => d = o
    /\ \A d \in DownloadSlot : Runs(d) => candidate.downloading /\ candidate.of = fetches[d].of

\* Its temporary copy is its own.
TemporaryRight ==
    \A d \in DownloadSlot :
        LET copy == temporary[VersionOf[fetches[d].of]]
        IN  /\ fetches[d].at \in {"writing", "written"} => copy.by = d /\ copy.of = fetches[d].of
            /\ fetches[d].at = "written" => copy.whole

PackageRight(v) == packages[v] # NoFile =>
    packages[v].by = 0 /\ packages[v].whole /\ packages[v].of # 0 /\ VersionOf[packages[v].of] = v

FilesRight == OneDownload /\ TemporaryRight /\ \A v \in Version : PackageRight(v)

UpdateInv ==
    /\ UpdateShape /\ FetchesRight /\ InstalledIsWhole
    /\ build.android /\ ~replaced => FilesRight

LEMMA VersionsAre ==
  /\ \A a \in Artefact : VersionOf[a] \in Version /\ a # 0
  /\ \A v \in Version : v \in Nat /\ v # 0
  /\ \A d \in DownloadSlot : d # 0
  BY ArtefactAssumption DEF Version

LEMMA CellsAre ==
  /\ NoCandidate \in Candidate /\ NoCheck \in CheckCell /\ NoFetch \in FetchCell /\ NoFile \in FileCell
  /\ NoFetch.at = "idle" /\ NoCandidate.has = 0 /\ NoCandidate.of = 0 /\ NoFile.by = 0
  BY DEF NoCandidate, NoCheck, NoFetch, NoFile, Candidate, CheckCell, FetchCell, FileCell, Release

LEMMA UpdatesStart == UpdateInit => UpdateInv
  <1> SUFFICES ASSUME UpdateInit PROVE UpdateInv
    OBVIOUS
  <1>1. UpdateShape
    BY CellsAre DEF UpdateInit, UpdateShape, Release
  <1>2. FetchesRight /\ FilesRight
    BY CellsAre DEF UpdateInit, FetchesRight, FilesRight, OneDownload, TemporaryRight, PackageRight, Runs
  <1>3. InstalledIsWhole
    BY DEF UpdateInit, InstalledIsWhole
  <1> QED  BY <1>1, <1>2, <1>3 DEF UpdateInv

\* The checks, the server and the settings: only the cells of the checks change.
LEMMA ChecksStay ==
  ASSUME UpdateInv,
         \/ \E a \in Artefact : Publish(a)
         \/ \E c \in Checker : StartCheck(c) \/ ServerAnswers(c) \/ CheckFails(c)
  PROVE  UpdateInv'
  <1>1. UNCHANGED <<build, candidate, skipped, wanted, fetches, temporary, packages, opened, replaced>>
    BY DEF Publish, StartCheck, ServerAnswers, CheckFails
  <1>2. release' \in Release /\ checks' \in [Checker -> CheckCell]
    <2>1. CASE \E a \in Artefact : Publish(a)
      BY <2>1 DEF Publish, UpdateInv, UpdateShape, Release
    <2>2. CASE \E c \in Checker : StartCheck(c) \/ ServerAnswers(c) \/ CheckFails(c)
      <3>1. PICK c \in Checker : StartCheck(c) \/ ServerAnswers(c) \/ CheckFails(c)
        BY <2>2
      <3>2. checks[c] \in CheckCell /\ release \in Release /\ skipped \in Nat
        BY DEF UpdateInv, UpdateShape
      <3>3. [at |-> "asked", skipped |-> skipped, found |-> 0] \in CheckCell
        BY <3>2 DEF CheckCell, Release
      <3>4. [[checks[c] EXCEPT !.at = "answered"] EXCEPT !.found = release] \in CheckCell
        BY <3>2 DEF CheckCell
      <3>5. release' = release /\ \E x \in CheckCell : checks' = [checks EXCEPT ![c] = x]
        <4>1. CASE StartCheck(c)
          BY <4>1, <3>3 DEF StartCheck
        <4>2. CASE ServerAnswers(c)
          <5>1. checks' = [checks EXCEPT ![c] = [[checks[c] EXCEPT !.at = "answered"] EXCEPT !.found = release]]
            BY <4>2 DEF ServerAnswers, UpdateInv, UpdateShape
          <5> QED  BY <4>2, <5>1, <3>4 DEF ServerAnswers
        <4>3. CASE CheckFails(c)
          BY <4>3, CellsAre DEF CheckFails
        <4> QED  BY <3>1, <4>1, <4>2, <4>3
      <3> QED  BY <3>5, <3>2 DEF UpdateInv, UpdateShape
    <2> QED  BY <2>1, <2>2
  <1> QED  BY <1>1, <1>2 DEF UpdateInv, UpdateShape, FetchesRight, FilesRight, OneDownload, TemporaryRight,
                             PackageRight, Runs, InstalledIsWhole

\* A candidate is set: one whose download runs is kept, or was replaced.
LEMMA CandidateSet ==
  ASSUME UpdateInv, NEW a \in Release, SetUpdate(a), UNCHANGED <<build, fetches, packages>>
  PROVE  /\ candidate' \in Candidate /\ replaced' \in BOOLEAN /\ (~replaced' => ~replaced)
         /\ candidate'.has # 0 => candidate'.of # 0 /\ VersionOf[candidate'.has] = VersionOf[candidate'.of]
         /\ build.android /\ ~replaced' => OneDownload'
  <1>1. candidate \in Candidate /\ replaced \in BOOLEAN /\ FetchesRight
    BY DEF UpdateInv, UpdateShape
  <1> DEFINE fresh == [of |-> a, downloading |-> FALSE, has |-> IF build.android /\ IsFile(VersionOf[a]) THEN a ELSE 0]
  <1>2. fresh \in Candidate /\ fresh.of = a /\ fresh.has \in {a, 0}
    BY DEF Candidate, Release
  <1>3. candidate' = IF Kept(a) THEN candidate ELSE IF a = 0 THEN NoCandidate ELSE fresh
    BY DEF SetUpdate
  <1>4. replaced' = (replaced \/ (candidate.downloading /\ candidate.of # a))
    BY DEF SetUpdate
  <1> HIDE DEF fresh
  <1>5. ASSUME build.android, ~replaced' PROVE OneDownload'
    <2>1. ~replaced /\ (candidate.downloading => candidate.of = a)
      BY <1>4, <1>5
    <2>2. OneDownload
      BY <2>1, <1>5 DEF UpdateInv, FilesRight
    <2>3. ASSUME NEW d \in DownloadSlot, Runs(d) PROVE candidate'.downloading /\ candidate'.of = fetches[d].of
      <3>1. candidate.downloading /\ candidate.of = fetches[d].of /\ fetches[d].of \in Artefact
        BY <2>2, <2>3, <1>1 DEF OneDownload, FetchesRight
      <3>2. Kept(a)
        BY <3>1, <2>1, VersionsAre DEF Kept
      <3> QED  BY <3>1, <3>2, <1>3
    <2> QED  BY <2>2, <2>3 DEF OneDownload, Runs
  <1> QED  BY <1>1, <1>2, <1>3, <1>4, <1>5, CellsAre DEF FetchesRight

LEMMA SettingStays ==
  ASSUME UpdateInv, (\E c \in Checker : ApplyCheck(c)) \/ SkipVersion
  PROVE  UpdateInv'
  <1>1. PICK a \in Release : SetUpdate(a)
    <2>1. CASE \E c \in Checker : ApplyCheck(c)
      <3>1. PICK c \in Checker : ApplyCheck(c)
        BY <2>1
      <3>2. checks[c].found \in Release /\ 0 \in Release
        BY DEF UpdateInv, UpdateShape, CheckCell, Release
      <3> QED  BY <3>1, <3>2 DEF ApplyCheck
    <2>2. CASE SkipVersion
      BY <2>2 DEF SkipVersion, Release
    <2> QED  BY <2>1, <2>2
  <1>2. UNCHANGED <<build, release, fetches, temporary, packages, opened>>
    BY DEF ApplyCheck, SkipVersion
  <1>3. checks' \in [Checker -> CheckCell] /\ skipped' \in Nat /\ wanted' \in SUBSET Version
        /\ (~build.android => wanted' = wanted)
    <2>1. CASE \E c \in Checker : ApplyCheck(c)
      <3>1. PICK c \in Checker : ApplyCheck(c)
        BY <2>1
      <3>2. checks[c].found \in Release
        BY DEF UpdateInv, UpdateShape, CheckCell
      <3>3. VersionNow(checks[c].found) > build.version => checks[c].found \in Artefact
        BY <3>2, VersionsAre DEF VersionNow, Release, UpdateInv, UpdateShape
      <3>4. wanted' \in SUBSET Version /\ (~build.android => wanted' = wanted)
        BY <3>1, <3>3, VersionsAre DEF ApplyCheck, UpdateInv, UpdateShape
      <3> QED  BY <3>1, <3>4, CellsAre DEF ApplyCheck, UpdateInv, UpdateShape
    <2>2. CASE SkipVersion
      BY <2>2, VersionsAre DEF SkipVersion, UpdateInv, UpdateShape, Candidate, Release
    <2> QED  BY <2>1, <2>2
  <1>4. UpdateShape'
    BY <1>1, <1>2, <1>3, CandidateSet DEF UpdateInv, UpdateShape
  <1>5. FetchesRight'
    BY <1>1, <1>2, <1>3, CandidateSet DEF UpdateInv, FetchesRight, Runs
  <1>6. InstalledIsWhole'
    BY <1>1, <1>2, CandidateSet DEF UpdateInv, InstalledIsWhole
  <1>7. build'.android /\ ~replaced' => FilesRight'
    BY <1>1, <1>2, CandidateSet DEF UpdateInv, FilesRight, TemporaryRight, PackageRight
  <1> QED  BY <1>4, <1>5, <1>6, <1>7 DEF UpdateInv

LEMMA BeginStays ==
  ASSUME UpdateInv, NEW d \in DownloadSlot, NEW v \in Version, NEW automatic \in BOOLEAN, BeginDownload(d, v, automatic)
  PROVE  UpdateInv'
  <1>1. UNCHANGED <<build, release, checks, skipped, temporary, packages, opened, replaced>>
    BY DEF BeginDownload
  <1>2. wanted' \subseteq wanted
    BY DEF BeginDownload
  <1>3. UpdateShape /\ FetchesRight /\ candidate \in Candidate
    BY DEF UpdateInv, UpdateShape
  <1>4. CASE UNCHANGED <<candidate, fetches>>
    BY <1>1, <1>2, <1>3, <1>4 DEF UpdateInv, UpdateShape, FetchesRight, FilesRight, OneDownload, TemporaryRight,
                             PackageRight, Runs, InstalledIsWhole
  <1>5. CASE ~UNCHANGED <<candidate, fetches>>
    <2>1. VersionNow(candidate.of) = v
      BY <1>3, <1>5 DEF BeginDownload, MayBegin, FetchesRight
    <2>2. candidate.of \in Artefact
      BY <2>1, <1>3, VersionsAre DEF VersionNow, Candidate, Release
    <2>3. PICK cell \in FetchCell : /\ cell.at = "fetching" /\ cell.of = candidate.of
                                    /\ fetches' = [fetches EXCEPT ![d] = cell]
      <3>1. [at |-> "fetching", of |-> candidate.of, installs |-> automatic] \in FetchCell
        BY <2>2 DEF FetchCell, Release
      <3>2. [at |-> "fetching", of |-> candidate.of, installs |-> FALSE] \in FetchCell
        BY <2>2 DEF FetchCell, Release
      <3> QED  BY <3>1, <3>2, <1>5 DEF BeginDownload
    <2>4. candidate' \in Candidate /\ candidate'.of = candidate.of /\ candidate'.has = candidate.has
          /\ (build.android => ~candidate.downloading /\ candidate'.downloading)
      BY <1>3, <1>5 DEF BeginDownload, MayBegin, Candidate
    <2>5. fetches' \in [DownloadSlot -> FetchCell] /\ fetches'[d] = cell
          /\ \A o \in DownloadSlot \ {d} : fetches'[o] = fetches[o]
      BY <2>3, <1>3 DEF UpdateShape
    <2>6. UpdateShape'
      BY <1>1, <1>2, <1>3, <2>4, <2>5 DEF UpdateShape
    <2>7. FetchesRight'
      BY <1>1, <1>2, <1>3, <2>2, <2>3, <2>4, <2>5 DEF FetchesRight, Runs
    <2>8. ASSUME build.android, ~replaced PROVE FilesRight'
      <3>1. FilesRight
        BY <2>8 DEF UpdateInv
      <3>2. \A o \in DownloadSlot : ~Runs(o)
        BY <3>1, <2>4, <2>8 DEF FilesRight, OneDownload
      <3>3. OneDownload' /\ TemporaryRight'
        BY <3>2, <2>3, <2>4, <2>5, <2>8 DEF OneDownload, TemporaryRight, Runs
      <3> QED  BY <3>1, <3>3, <1>1 DEF FilesRight, PackageRight
    <2>9. InstalledIsWhole'
      BY <1>1 DEF UpdateInv, InstalledIsWhole
    <2> QED  BY <1>1, <2>6, <2>7, <2>8, <2>9 DEF UpdateInv
  <1> QED  BY <1>4, <1>5

\* Of a download that goes on or ends, the others keep their cells.
LEMMA OneFetch ==
  ASSUME UpdateInv, NEW d \in DownloadSlot, NEW cell \in FetchCell, fetches' = [fetches EXCEPT ![d] = cell],
         Runs(d), cell.at = "idle" \/ cell.of = fetches[d].of
  PROVE  /\ fetches' \in [DownloadSlot -> FetchCell] /\ fetches'[d] = cell
         /\ \A o \in DownloadSlot \ {d} : fetches'[o] = fetches[o]
         /\ fetches[d] \in FetchCell /\ fetches[d].of \in Artefact /\ VersionOf[fetches[d].of] \in Version
         /\ \A o \in DownloadSlot : Runs(o)' => fetches'[o].of \in Artefact
         /\ build.android /\ ~replaced =>
               /\ \A o \in DownloadSlot \ {d} : ~Runs(o) /\ ~Runs(o)'
               /\ candidate.downloading /\ candidate.of = fetches[d].of
  BY VersionsAre DEF UpdateInv, UpdateShape, FetchesRight, FilesRight, OneDownload, Runs

LEMMA FetchStays ==
  ASSUME UpdateInv, NEW d \in DownloadSlot, FetchStep(d) \/ DownloadFails(d)
  PROVE  UpdateInv'
  <1>1. UNCHANGED <<build, release, checks, skipped, wanted, replaced>>
    BY DEF FetchStep, DownloadedToMemory, CreateTemporary, WriteTemporary, RenamePackage, MarkDownloaded, DownloadFails
  <1> DEFINE mine == fetches[d]
             v == VersionOf[fetches[d].of]
  <1>2. UpdateShape /\ FetchesRight /\ candidate \in Candidate /\ Runs(d)
    BY DEF UpdateInv, UpdateShape, FetchStep, DownloadedToMemory, CreateTemporary, WriteTemporary, RenamePackage,
           MarkDownloaded, DownloadFails, Runs
  <1>3. mine \in FetchCell /\ mine.of \in Artefact /\ v \in Version
    BY <1>2, VersionsAre DEF UpdateShape, FetchesRight
  <1>4. CASE DownloadedToMemory(d)
    <2>1. fetches' = [fetches EXCEPT ![d] = NoFetch] /\ ~build.android
          /\ UNCHANGED <<temporary, packages, opened>>
      BY <1>4 DEF DownloadedToMemory
    <2>2. candidate' \in Candidate /\ candidate'.of = candidate.of
      BY <1>4, <1>2, <1>3 DEF DownloadedToMemory, Candidate, Release
    <2>3. candidate'.has # 0 => candidate'.of # 0 /\ VersionOf[candidate'.has] = VersionOf[candidate'.of]
      <3>1. candidate' = candidate \/ (candidate'.has = mine.of /\ VersionNow(candidate.of) = v)
        BY <1>4, <1>2 DEF DownloadedToMemory, Candidate
      <3>2. VersionNow(candidate.of) = v => candidate.of # 0 /\ VersionOf[candidate.of] = v
        BY <1>3, VersionsAre DEF VersionNow
      <3> QED  BY <3>1, <3>2, <2>2, <1>2 DEF FetchesRight
    <2>4. UpdateShape'
      BY <1>1, <1>2, <2>1, <2>2, OneFetch, CellsAre DEF UpdateShape
    <2>5. FetchesRight'
      BY <1>1, <1>2, <2>1, <2>3, OneFetch, CellsAre DEF FetchesRight, Runs
    <2> QED  BY <1>1, <2>1, <2>4, <2>5 DEF UpdateInv, InstalledIsWhole
  <1>5. CASE CreateTemporary(d)
    <2> DEFINE cell == [mine EXCEPT !.at = "writing"]
    <2>1. cell \in FetchCell /\ cell.of = mine.of /\ cell.at = "writing" /\ cell.installs = mine.installs
      BY <1>3 DEF FetchCell
    <2>2. fetches' = [fetches EXCEPT ![d] = cell]
      BY <1>5, <1>2 DEF CreateTemporary, UpdateShape
    <2> HIDE DEF cell
    <2>3. build.android /\ UNCHANGED <<candidate, packages, opened>>
      BY <1>5 DEF CreateTemporary
    <2>4. PICK copy \in FileCell :
             /\ temporary' = [temporary EXCEPT ![v] = copy] /\ copy.by = d
             /\ (\A o \in DownloadSlot \ {d} : ~Runs(o)) => copy.of = mine.of
      <3>1. PICK of \in {Mixed, mine.of} :
               /\ temporary' = [temporary EXCEPT ![v] = [by |-> d, of |-> of, whole |-> FALSE]]
               /\ (\A o \in DownloadSlot \ {d} : ~Runs(o)) => of = mine.of
        BY <1>5 DEF CreateTemporary, Runs
      <3>2. [by |-> d, of |-> of, whole |-> FALSE] \in FileCell
        BY <1>3 DEF FileCell, Release, Mixed
      <3> QED  BY <3>1, <3>2
    <2>5. temporary' \in [Version -> FileCell] /\ temporary'[v] = copy
      BY <2>4, <1>2, <1>3 DEF UpdateShape
    <2>6. UpdateShape'
      BY <1>1, <1>2, <2>1, <2>2, <2>3, <2>5, OneFetch DEF UpdateShape
    <2>7. FetchesRight'
      BY <1>1, <1>2, <2>1, <2>2, <2>3, OneFetch DEF FetchesRight
    <2>8. ~replaced => FilesRight'
      <3> SUFFICES ASSUME ~replaced PROVE FilesRight'
        OBVIOUS
      <3>1. OneDownload'
        BY <1>2, <2>1, <2>2, <2>3, OneFetch DEF OneDownload
      <3>2. TemporaryRight'
        <4>1. fetches'[d] = cell /\ \A o \in DownloadSlot \ {d} : fetches[o].at = "idle" /\ fetches'[o].at = "idle"
          BY <1>2, <2>1, <2>2, <2>3, OneFetch DEF Runs
        <4>2. copy.by = d /\ copy.of = mine.of
          BY <4>1, <2>4 DEF Runs
        <4> QED  BY <2>1, <2>5, <4>1, <4>2 DEF TemporaryRight
      <3> QED  BY <3>1, <3>2, <2>3 DEF UpdateInv, FilesRight, PackageRight
    <2> QED  BY <1>1, <2>3, <2>6, <2>7, <2>8 DEF UpdateInv, InstalledIsWhole
  <1>6. CASE WriteTemporary(d)
    <2> DEFINE cell == [mine EXCEPT !.at = "written"]
               Done(f) == IF f.by = d THEN [f EXCEPT !.whole = TRUE] ELSE f
    <2>1. cell \in FetchCell /\ cell.of = mine.of /\ cell.at = "written" /\ cell.installs = mine.installs
      BY <1>3 DEF FetchCell
    <2>2. fetches' = [fetches EXCEPT ![d] = cell] /\ mine.at = "writing"
      BY <1>6, <1>2 DEF WriteTemporary, UpdateShape
    <2> HIDE DEF cell
    <2>3. UNCHANGED <<candidate, opened>>
      BY <1>6 DEF WriteTemporary
    <2>4. temporary' = [temporary EXCEPT ![v] = Done(temporary[v])] /\ packages' = [packages EXCEPT ![v] = Done(packages[v])]
      BY <1>6, <1>2 DEF WriteTemporary, UpdateShape
    <2>5. ASSUME NEW f \in FileCell
          PROVE  Done(f) \in FileCell /\ (f.by = d => Done(f).by = d /\ Done(f).of = f.of /\ Done(f).whole)
                 /\ (f.by # d => Done(f) = f)
      BY DEF FileCell
    <2> HIDE DEF Done
    <2>6. temporary[v] \in FileCell /\ packages[v] \in FileCell
      BY <1>2, <1>3 DEF UpdateShape
    <2>7. /\ temporary' \in [Version -> FileCell] /\ temporary'[v] = Done(temporary[v])
          /\ packages' \in [Version -> FileCell] /\ packages'[v] = Done(packages[v])
          /\ \A w \in Version \ {v} : packages'[w] = packages[w]
      BY <2>4, <2>5, <2>6, <1>2, <1>3 DEF UpdateShape
    <2>8. UpdateShape'
      BY <1>1, <1>2, <2>1, <2>2, <2>3, <2>7, OneFetch DEF UpdateShape
    <2>9. FetchesRight'
      BY <1>1, <1>2, <2>1, <2>2, <2>3, OneFetch DEF FetchesRight
    <2>10. build.android /\ ~replaced => FilesRight'
      <3> SUFFICES ASSUME build.android, ~replaced PROVE FilesRight'
        OBVIOUS
      <3>0. FilesRight
        BY DEF UpdateInv
      <3>1. OneDownload'
        BY <1>2, <2>1, <2>2, <2>3, OneFetch DEF OneDownload
      <3>2. temporary[v].by = d /\ temporary[v].of = mine.of
        BY <3>0, <2>2 DEF FilesRight, TemporaryRight
      <3>3. TemporaryRight'
        <4>1. fetches'[d] = cell /\ \A o \in DownloadSlot \ {d} : fetches'[o].at = "idle"
          BY <1>2, <2>1, <2>2, OneFetch DEF Runs
        <4>2. temporary'[v].by = d /\ temporary'[v].of = mine.of /\ temporary'[v].whole
          BY <2>5, <2>6, <2>7, <3>2
        <4> QED  BY <2>1, <4>1, <4>2 DEF TemporaryRight
      <3>4. packages[v].by # d
        BY <3>0, <1>3, VersionsAre, CellsAre DEF FilesRight, PackageRight
      <3>5. \A w \in Version : packages'[w] = packages[w]
        BY <3>4, <2>5, <2>6, <2>7
      <3> QED  BY <3>0, <3>1, <3>3, <3>5 DEF FilesRight, PackageRight
    <2> QED  BY <1>1, <2>3, <2>8, <2>9, <2>10 DEF UpdateInv, InstalledIsWhole
  <1>7. CASE RenamePackage(d)
    <2> DEFINE cell == [mine EXCEPT !.at = "renamed"]
               copy == [temporary[v] EXCEPT !.by = IF temporary[v].by = d THEN 0 ELSE temporary[v].by]
    <2>1. cell \in FetchCell /\ cell.of = mine.of /\ cell.at = "renamed" /\ cell.installs = mine.installs
      BY <1>3 DEF FetchCell
    <2>2. fetches' = [fetches EXCEPT ![d] = cell] /\ mine.at = "written"
      BY <1>7, <1>2 DEF RenamePackage, UpdateShape
    <2> HIDE DEF cell
    <2>3. UNCHANGED <<candidate, opened>>
      BY <1>7 DEF RenamePackage
    <2>4. temporary[v] \in FileCell
      BY <1>2, <1>3 DEF UpdateShape
    <2>5. copy \in FileCell /\ copy.of = temporary[v].of /\ copy.whole = temporary[v].whole
          /\ (temporary[v].by = d => copy.by = 0)
      BY <2>4 DEF FileCell
    <2>6. packages' = [w \in Version |-> IF w = v THEN copy ELSE NoFile] /\ temporary' = [temporary EXCEPT ![v] = NoFile]
      BY <1>7 DEF RenamePackage
    <2> HIDE DEF copy
    <2>7. UpdateShape'
      BY <1>1, <1>2, <2>1, <2>2, <2>3, <2>5, <2>6, OneFetch, CellsAre DEF UpdateShape
    <2>8. FetchesRight'
      BY <1>1, <1>2, <2>1, <2>2, <2>3, OneFetch DEF FetchesRight
    <2>9. build.android /\ ~replaced => FilesRight'
      <3> SUFFICES ASSUME build.android, ~replaced PROVE FilesRight'
        OBVIOUS
      <3>1. OneDownload'
        BY <1>2, <2>1, <2>2, <2>3, OneFetch DEF OneDownload
      <3>2. temporary[v].by = d /\ temporary[v].of = mine.of /\ temporary[v].whole
        BY <2>2 DEF UpdateInv, FilesRight, TemporaryRight
      <3>3. TemporaryRight'
        BY <1>2, <2>1, <2>2, OneFetch DEF TemporaryRight, Runs
      <3>4. \A w \in Version : PackageRight(w)'
        BY <3>2, <2>5, <2>6, <1>3, VersionsAre DEF PackageRight
      <3> QED  BY <3>1, <3>3, <3>4 DEF FilesRight
    <2> QED  BY <1>1, <2>3, <2>7, <2>8, <2>9 DEF UpdateInv, InstalledIsWhole
  <1>8. CASE MarkDownloaded(d)
    <2>1. fetches' = [fetches EXCEPT ![d] = NoFetch] /\ UNCHANGED <<temporary, packages>> /\ mine.at = "renamed"
      BY <1>8 DEF MarkDownloaded
    <2>2. candidate' \in Candidate /\ candidate'.of = candidate.of /\ candidate'.has = candidate.of
      BY <1>8, <1>2 DEF MarkDownloaded, Candidate
    <2>3. build.android
      BY <2>1, <1>2 DEF FetchesRight
    <2>4. packages[v] \in FileCell
      BY <1>2, <1>3 DEF UpdateShape
    <2>5. opened' = opened \/ (/\ packages[v] # NoFile /\ opened'.version = v
                               /\ opened'.of = packages[v].of /\ opened'.whole = packages[v].whole
                               /\ opened' = [version |-> v, of |-> packages[v].of, whole |-> packages[v].whole])
      BY <1>8 DEF MarkDownloaded, IsFile
    <2>6. opened' \in [version : Version \cup {0}, of : Release, whole : BOOLEAN]
      BY <2>4, <2>5, <1>2, <1>3 DEF UpdateShape, FileCell
    <2>7. UpdateShape'
      BY <1>1, <1>2, <2>1, <2>2, <2>6, OneFetch, CellsAre DEF UpdateShape
    <2>8. FetchesRight'
      BY <1>1, <1>2, <2>1, <2>2, <2>3, OneFetch, CellsAre DEF FetchesRight
    <2>9. ~replaced => FilesRight' /\ InstalledIsWhole'
      <3> SUFFICES ASSUME ~replaced PROVE FilesRight' /\ InstalledIsWhole'
        OBVIOUS
      <3>1. OneDownload' /\ TemporaryRight'
        BY <1>2, <2>1, <2>3, OneFetch, CellsAre DEF OneDownload, TemporaryRight, Runs
      <3>2. FilesRight
        BY <2>3 DEF UpdateInv
      <3>3. InstalledIsWhole'
        BY <3>2, <2>5, <1>1, <1>3 DEF UpdateInv, InstalledIsWhole, FilesRight, PackageRight, Mixed
      <3> QED  BY <2>1, <3>1, <3>2, <3>3 DEF FilesRight, PackageRight
    <2> QED  BY <1>1, <2>7, <2>8, <2>9 DEF UpdateInv, InstalledIsWhole
  <1>9. CASE DownloadFails(d)
    <2>1. fetches' = [fetches EXCEPT ![d] = NoFetch] /\ UNCHANGED <<packages, opened>>
      BY <1>9 DEF DownloadFails
    <2>2. candidate' \in Candidate /\ candidate'.of = candidate.of /\ candidate'.has = candidate.has
      BY <1>9, <1>2 DEF DownloadFails, Candidate, MarkedAfterFailure
    <2>3. temporary' \in [Version -> FileCell]
      BY <1>9, <1>2, <1>3, CellsAre DEF DownloadFails, UpdateShape
    <2>4. UpdateShape'
      BY <1>1, <1>2, <2>1, <2>2, <2>3, OneFetch, CellsAre DEF UpdateShape
    <2>5. FetchesRight'
      BY <1>1, <1>2, <2>1, <2>2, OneFetch, CellsAre DEF FetchesRight, Runs
    <2>6. build.android /\ ~replaced => FilesRight'
      <3> SUFFICES ASSUME build.android, ~replaced PROVE FilesRight'
        OBVIOUS
      <3>1. \A o \in DownloadSlot : fetches'[o].at = "idle"
        BY <1>2, <2>1, OneFetch, CellsAre DEF Runs
      <3>2. OneDownload' /\ TemporaryRight'
        BY <3>1 DEF OneDownload, TemporaryRight, Runs
      <3> QED  BY <2>1, <3>2 DEF UpdateInv, FilesRight, PackageRight
    <2> QED  BY <1>1, <2>1, <2>4, <2>5, <2>6 DEF UpdateInv, InstalledIsWhole
  <1> QED  BY <1>4, <1>5, <1>6, <1>7, <1>8, <1>9 DEF FetchStep

LEMMA RestartStays ==
  ASSUME UpdateInv, Install \/ RestartApp
  PROVE  UpdateInv'
  <1>1. UNCHANGED <<release, skipped, temporary, packages, replaced>> /\ build'.android = build.android
    BY DEF Install, RestartApp, Restarted, UpdateInv, UpdateShape
  <1>2. candidate' = NoCandidate /\ checks' = [c \in Checker |-> NoCheck] /\ wanted' = {}
        /\ fetches' = [d \in DownloadSlot |-> NoFetch]
    BY DEF Install, RestartApp, Restarted
  <1>3. UpdateShape /\ FetchesRight /\ candidate \in Candidate
    BY DEF UpdateInv, UpdateShape
  <1>4. /\ build' \in [android : BOOLEAN, version : Version \cup {0}]
        /\ opened' \in [version : Version \cup {0}, of : Release, whole : BOOLEAN]
        /\ InstalledIsWhole'
    <2>1. CASE RestartApp
      <3>1. opened' = opened /\ build' = [build EXCEPT !.version = build.version]
        BY <2>1 DEF RestartApp, Restarted
      <3> QED  BY <3>1, <1>1, <1>3 DEF UpdateShape, UpdateInv, InstalledIsWhole
    <2>2. CASE Install
      <3> DEFINE v == VersionOf[candidate.of]
      <3>1. candidate.of \in Artefact /\ candidate.has \in Artefact /\ VersionOf[candidate.has] = v /\ v \in Version
        BY <2>2, <1>3, VersionsAre DEF Install, FetchesRight, Candidate, Release
      <3>2. build' = [build EXCEPT !.version = v]
        BY <2>2 DEF Install, Restarted
      <3>3. packages[v] \in FileCell
        BY <1>3, <3>1 DEF UpdateShape
      <3>4. CASE build.android
        <4>1. packages[v] # NoFile /\ opened' = [version |-> v, of |-> packages[v].of, whole |-> packages[v].whole]
          BY <2>2, <3>4 DEF Install, IsFile
        <4>2. ~replaced => packages[v].whole /\ packages[v].of # 0 /\ VersionOf[packages[v].of] = v
          BY <4>1, <3>1, <3>4 DEF UpdateInv, FilesRight, PackageRight
        <4> QED  BY <1>1, <1>3, <3>1, <3>2, <3>3, <4>1, <4>2 DEF InstalledIsWhole, UpdateShape, FileCell, Mixed
      <3>5. CASE ~build.android
        <4>1. opened' = [version |-> v, of |-> candidate.has, whole |-> TRUE]
          BY <2>2, <3>5 DEF Install
        <4> QED  BY <1>3, <3>1, <3>2, <4>1, VersionsAre DEF InstalledIsWhole, UpdateShape, Mixed, Release
      <3> QED  BY <3>4, <3>5
    <2> QED  BY <2>1, <2>2
  <1>5. UpdateShape'
    BY <1>1, <1>2, <1>3, <1>4, CellsAre DEF UpdateShape
  <1>6. FetchesRight' /\ OneDownload' /\ TemporaryRight'
    BY <1>2, CellsAre DEF FetchesRight, OneDownload, TemporaryRight, Runs
  <1> QED  BY <1>1, <1>4, <1>5, <1>6 DEF UpdateInv, FilesRight, PackageRight

LEMMA UpdatesStay == UpdateInv /\ [UpdateNext]_updateVars => UpdateInv'
  <1> SUFFICES ASSUME UpdateInv, [UpdateNext]_updateVars PROVE UpdateInv'
    OBVIOUS
  <1>1. CASE UNCHANGED updateVars
    BY <1>1 DEF updateVars, UpdateInv, UpdateShape, FetchesRight, FilesRight, OneDownload, TemporaryRight,
                PackageRight, Runs, InstalledIsWhole
  <1>2. CASE UpdateNext
    BY <1>2, ChecksStay, SettingStays, BeginStays, FetchStays, RestartStays
       DEF UpdateNext, CheckStep, WantedStep, Checker
  <1> QED  BY <1>1, <1>2

LEMMA UpdatesServe == UpdateInv => InstalledIsWhole /\ UpdateTypeOK
  BY DEF UpdateInv, UpdateShape, UpdateTypeOK, Candidate, CheckCell, FetchCell, FileCell, Release, Mixed


-----------------------------------------------------------------------------
(* The preview.  Of the threads that ask for it one is at work, unless requests overlapped; it alone *)
(* presents what it was asked for, and what it presents while the clipboard window goes, it or the   *)
(* hiding of that window takes back.                                                                *)

CallCell == [op : {"none", "show", "close", "closeNow", "hideClipboard", "showClipboard"},
             at : {"idle", "begin", "checked", "numbered", "prepared", "set", "emitted", "shown", "suppressed", "visible"},
             req : Nat, session : Nat, item : Previewed \cup {NoPreview}, content : BOOLEAN]

ClipWindows == [visible : BOOLEAN, suppressed : BOOLEAN]
Latests == [req : Nat, presented : Nat, session : Nat, caller : PreviewThread \cup {0}]
States == [req : Nat, session : Nat, item : Previewed \cup {NoPreview}]
HideTasks == [req : Nat, woken : Nat, late : BOOLEAN]
PreviewWindows == [here : BOOLEAN, mounted : BOOLEAN, visible : BOOLEAN, shows : Previewed \cup {NoPreview}]
PreviewTallies == [calls : Nat, faults : Nat, overlapped : BOOLEAN, slipped : BOOLEAN, halfway : BOOLEAN]

PreviewShape ==
    /\ clipWindow \in ClipWindows
    /\ latest \in Latests
    /\ previewState \in States
    /\ hideTask \in HideTasks
    /\ previewWindow \in PreviewWindows
    /\ previewCalls \in [PreviewThread -> CallCell]
    /\ panel \in Previewed \cup {NoPreview}
    /\ previewTally \in PreviewTallies

\* Requests are numbered one after the other, and a task is of a number that was given.
NumbersGiven ==
    /\ latest.presented =< latest.req /\ previewState.req =< latest.req
    /\ hideTask.req =< latest.req /\ hideTask.woken =< latest.req
    /\ hideTask.woken # 0 => ~hideTask.late
    /\ \A t \in PreviewThread : previewCalls[t].req =< latest.req
    /\ previewWindow.visible \/ previewWindow.mounted => previewWindow.here

Op(t) == previewCalls[t].op
At(t) == previewCalls[t].at
Numbered == {"numbered", "prepared", "set", "emitted", "shown"}
StepsOf(op) == CASE op = "none" -> {"idle"} [] op = "show" -> {"checked"} \cup Numbered
                 [] op \in {"close", "closeNow"} -> {"begin", "numbered", "emitted"}
                 [] op = "hideClipboard" -> {"begin", "numbered", "emitted", "suppressed"}
                 [] op = "showClipboard" -> {"begin", "visible"}
Windowing(t) == Op(t) \in {"hideClipboard", "showClipboard"}

\* The clipboard window is shown or hidden by one thread, and suppressed while it hides.
OneWindows ==
    /\ \A t \in PreviewThread : At(t) \in StepsOf(Op(t)) /\ (Op(t) = "none" => previewCalls[t] = NoCall)
    /\ \A t, o \in PreviewThread : Windowing(t) /\ Windowing(o) => t = o
    /\ (\E t \in PreviewThread : Op(t) = "hideClipboard") => clipWindow.suppressed
    /\ clipWindow.suppressed =>
          \/ ~clipWindow.visible
          \/ \E t \in PreviewThread : Op(t) = "hideClipboard" \/ (Op(t) = "showClipboard" /\ At(t) = "visible")

Orderly == ~previewTally.overlapped /\ ~previewTally.slipped
\* What is presented now will be taken back.
Doomed == clipWindow.suppressed \/ ~clipWindow.visible

\* What the thread that asks finds.
AskerFinds(t) ==
    Op(t) = "show" =>
      /\ (\E o \in PreviewThread : Op(o) = "showClipboard") => ~Doomed
      /\ previewCalls[t].item \in Previewed
      /\ At(t) \in Numbered =>
           /\ latest.caller = t /\ hideTask.req = 0 /\ ~hideTask.late
           /\ hideTask.woken < previewCalls[t].req /\ latest.presented < previewCalls[t].req
      /\ At(t) \in {"numbered", "prepared"} => previewState.req < previewCalls[t].req
      /\ At(t) \in {"set", "emitted", "shown"} /\ previewState # NoState =>
           previewState.item = previewCalls[t].item /\ previewState.req = previewCalls[t].req

OneAsks ==
    Orderly =>
      /\ \A t, o \in PreviewThread : Asking(t) /\ Asking(o) => t = o
      /\ \A t \in PreviewThread : AskerFinds(t)
      /\ hideTask.late => previewState = NoState
      /\ previewState # NoState => previewState.item \in Previewed

WillHide == \E t \in PreviewThread : Op(t) \in {"closeNow", "hideClipboard"} /\ At(t) \in {"begin", "numbered", "emitted"}
LastOne(n) == n # 0 /\ n = latest.req /\ previewState = NoState
Closing ==
    \/ \E t \in PreviewThread : Op(t) = "close" /\ (At(t) = "begin" \/ LastOne(previewCalls[t].req))
    \/ LastOne(hideTask.req) \/ LastOne(hideTask.woken) \/ hideTask.late
    \/ \E t \in PreviewThread : Op(t) = "show" /\ At(t) = "shown"
Leaving == ~clipWindow.visible \/ \E t \in PreviewThread : Op(t) = "hideClipboard" /\ At(t) = "suppressed"

\* The clipboard window goes: the preview is about to be hidden.
TakenBack ==
    Orderly /\ Leaving /\ previewWindow.visible =>
      \/ WillHide
      \/ Closing /\ \A t \in PreviewThread : Op(t) = "show" => At(t) = "shown"

Shown(item) == previewWindow.mounted => previewWindow.shows = item
Served ==
    /\ previewWindow.visible /\ Shown(previewState.item)
    /\ \A t \in PreviewThread : Op(t) \in {"close", "closeNow", "hideClipboard"} => At(t) \notin {"numbered", "emitted"}

Unserved ==
    \E t \in PreviewThread : \/ Op(t) = "show" /\ At(t) \in {"set", "emitted", "shown"}
                             \/ Op(t) = "close" /\ At(t) = "begin"

\* A request on its way: the content is there when it is its turn, unless it will be taken back.
OnItsWay(t) ==
    /\ At(t) = "prepared" /\ ~previewCalls[t].content =>
          previewWindow.visible /\ Shown(previewCalls[t].item) /\ previewState # NoState /\ previewState.item = previewCalls[t].item
    /\ At(t) = "set" => previewCalls[t].content \/ (previewWindow.visible /\ Shown(previewCalls[t].item))
    /\ At(t) = "emitted" => Shown(previewCalls[t].item)
    /\ At(t) = "shown" => previewWindow.visible /\ Shown(previewCalls[t].item)
    /\ At(t) \in {"set", "emitted", "shown"} => previewState # NoState

Presented ==
    Orderly =>
      /\ \A t \in PreviewThread : Op(t) = "show" /\ ~Doomed => OnItsWay(t)
      /\ previewTally.halfway /\ previewState # NoState => previewState.req # latest.presented
      /\ previewTally.halfway => \A t \in PreviewThread : Op(t) = "show" => At(t) \notin {"set", "emitted", "shown"}
      /\ ~previewTally.halfway /\ previewState # NoState => Served \/ Unserved

PreviewInv == PreviewShape /\ NumbersGiven /\ OneWindows /\ OneAsks /\ TakenBack /\ Presented

LEMMA CallsMove ==
  /\ NoCall \in CallCell /\ NoCall.req = 0 /\ NoCall.op = "none" /\ NoCall.at = "idle"
  /\ NoState \in States /\ NoState.req = 0
  BY DEF NoCall, CallCell, NoState, States

LEMMA CallShowStays == ASSUME PreviewInv, NEW t \in PreviewThread, NEW item \in Previewed, CallShow(t, item) PROVE PreviewInv'
  <1>0. PreviewShape /\ NumbersGiven /\ OneWindows /\ OneAsks /\ TakenBack /\ Presented
    BY DEF PreviewInv
  <1>b. /\ latest.req \in Nat /\ latest.presented \in Nat /\ latest.session \in Nat /\ latest.req + 1 \in Nat /\ latest.session + 1 \in Nat
        /\ previewState.req \in Nat /\ hideTask.req \in Nat /\ hideTask.woken \in Nat /\ \A o \in PreviewThread : previewCalls[o] \in CallCell /\ previewCalls[o].req \in Nat
    BY <1>0 DEF PreviewShape, Latests, States, HideTasks, CallCell
  <1>c. NoCall \in CallCell /\ NoState \in States /\ NoCall.req = 0 /\ NoState.req = 0 /\ previewCalls[t] \in CallCell
    BY <1>0, CallsMove DEF PreviewShape
  <1>a. UNCHANGED <<clipWindow, latest, previewState, hideTask, previewWindow, panel>>
    BY DEF CallShow, Calling, NoCall
  <1>previewCalls. previewCalls' \in [PreviewThread -> CallCell]
    BY <1>0, <1>b, <1>c, CallsMove DEF CallShow, Calling, NoCall, PreviewShape, CallCell
  <1>previewTally. previewTally' \in PreviewTallies
    <2>1. previewTally \in PreviewTallies
      BY <1>0 DEF PreviewShape
    <2>2. (previewTally.overlapped \/ \E o \in PreviewThread : Asking(o)) \in BOOLEAN
      OBVIOUS
    <2>3. \A k \in PreviewTallies, b \in BOOLEAN, n \in Nat : [k EXCEPT !.calls = n, !.overlapped = b] \in PreviewTallies
      BY DEF PreviewTallies
    <2>4. previewTally.calls + 1 \in Nat /\ (IF previewWindow.here THEN previewTally.faults + 1 ELSE previewTally.faults) \in Nat
      BY <2>1 DEF PreviewTallies
    <2> QED  BY <2>1, <2>2, <2>3, <2>4 DEF CallShow
  <1>f0. previewCalls[t] = NoCall /\ Op(t) = "none"
    BY <1>0 DEF CallShow, Calling, NoCall, PreviewShape, Op, At, CallCell
  <1>f1. Op(t)' = (IF Doomed THEN "closeNow" ELSE "show") /\ At(t)' = (IF Doomed THEN "begin" ELSE "checked")
    BY <1>0 DEF CallShow, Calling, NoCall, PreviewShape, Op, At, CallCell, Doomed
  <1>f2. previewCalls'[t].req = 0 /\ previewCalls'[t].session = 0
    BY <1>0 DEF CallShow, Calling, NoCall, PreviewShape, Op, At, CallCell
  <1>f3. previewCalls'[t].item = item /\ previewCalls'[t].content = FALSE
    BY <1>0 DEF CallShow, Calling, NoCall, PreviewShape, Op, At, CallCell
  <1>f4. (previewTally'.overlapped <=> (previewTally.overlapped \/ \E o \in PreviewThread : Asking(o)))
    BY <1>0 DEF CallShow, Calling, NoCall, PreviewShape, Op, At, PreviewTallies
  <1>f5. previewTally'.slipped = previewTally.slipped /\ previewTally'.halfway = previewTally.halfway
    BY <1>0 DEF CallShow, Calling, NoCall, PreviewShape, Op, At, PreviewTallies
  <1>o. \A o \in PreviewThread : o # t => 
          /\ previewCalls'[o] = previewCalls[o] /\ Op(o)' = Op(o) /\ At(o)' = At(o)
          /\ (Windowing(o)' <=> Windowing(o)) /\ (Asking(o)' <=> Asking(o))
    BY <1>0 DEF CallShow, Calling, NoCall, PreviewShape, Op, At, Windowing, Asking
  <1>s. PreviewShape'
    BY <1>0, <1>a, <1>previewCalls, <1>previewTally DEF PreviewShape
  <1>n. NumbersGiven'
    BY <1>b, <1>c, <1>0, <1>a, <1>f0, <1>f1, <1>f2, <1>f3, <1>f4, <1>f5, <1>o DEF NumbersGiven
  <1>w. OneWindows'
    <2>1. ASSUME NEW o \in PreviewThread
          PROVE  (At(o) \in StepsOf(Op(o)))' /\ (Op(o)' = "none" => previewCalls'[o] = NoCall)
      <3>1. CASE o = t
        BY <3>1, <1>0, <1>a, <1>f0, <1>f1, <1>f2, <1>f3, <1>f4, <1>f5, <1>o DEF StepsOf, Numbered, OneWindows
      <3>2. CASE o # t
        BY <3>2, <1>0, <1>o DEF OneWindows
      <3> QED  BY <3>1, <3>2
    <2>2. \A r, o \in PreviewThread : Windowing(r)' /\ Windowing(o)' => r = o
      BY <1>0, <1>a, <1>f0, <1>f1, <1>f2, <1>f3, <1>f4, <1>f5, <1>o DEF OneWindows, Windowing
    <2>3. (\E o \in PreviewThread : Op(o)' = "hideClipboard") => clipWindow'.suppressed
      BY <1>0, <1>a, <1>f0, <1>f1, <1>f2, <1>f3, <1>f4, <1>f5, <1>o DEF OneWindows, Windowing
    <2>4. clipWindow'.suppressed => \/ ~clipWindow'.visible
                                   \/ \E o \in PreviewThread : Op(o)' = "hideClipboard" \/ (Op(o)' = "showClipboard" /\ At(o)' = "visible")
      BY <1>0, <1>a, <1>f0, <1>f1, <1>f2, <1>f3, <1>f4, <1>f5, <1>o DEF OneWindows, Windowing
    <2> QED  BY <2>1, <2>2, <2>3, <2>4 DEF OneWindows
  <1>k. OneAsks'
    <2> SUFFICES ASSUME Orderly'
                 PROVE  /\ \A r, o \in PreviewThread : Asking(r)' /\ Asking(o)' => r = o
                        /\ \A o \in PreviewThread : AskerFinds(o)'
                        /\ hideTask'.late => previewState' = NoState
                        /\ previewState' # NoState => previewState'.item \in Previewed
      BY DEF OneAsks
    <2>1. /\ \A r, o \in PreviewThread : Asking(r) /\ Asking(o) => r = o
          /\ \A o \in PreviewThread : AskerFinds(o)
          /\ hideTask.late => previewState = NoState
          /\ previewState # NoState => previewState.item \in Previewed
      BY <1>0, <1>a, <1>f0, <1>f1, <1>f2, <1>f3, <1>f4, <1>f5, <1>o DEF OneAsks, Orderly
    <2>2. \A r, o \in PreviewThread : Asking(r)' /\ Asking(o)' => r = o
      BY <1>0, <1>a, <1>f0, <1>f1, <1>f2, <1>f3, <1>f4, <1>f5, <1>o, <2>1 DEF Orderly, Asking, Op
    <2>3. ASSUME NEW o \in PreviewThread PROVE AskerFinds(o)'
      <3>1. CASE o = t
        BY <3>1, <1>b, <1>c, <1>0, <1>a, <1>f0, <1>f1, <1>f2, <1>f3, <1>f4, <1>f5, <1>o, <2>1 DEF AskerFinds, Doomed, Numbered, Orderly, SessionForShow, OneWindows, NumbersGiven, Windowing
      <3>2. CASE o # t
        BY <3>2, <1>b, <1>c, <1>0, <1>a, <1>f0, <1>f1, <1>f2, <1>f3, <1>f4, <1>f5, <1>o, <2>1 DEF AskerFinds, Doomed, Numbered, Orderly, Asking, Op, NumbersGiven
      <3> QED  BY <3>1, <3>2
    <2>4. hideTask'.late => previewState' = NoState
      BY <1>b, <1>c, <1>0, <1>a, <1>f0, <1>f1, <1>f2, <1>f3, <1>f4, <1>f5, <1>o, <2>1 DEF Orderly, NumbersGiven, AskerFinds, Numbered
    <2>5. previewState' # NoState => previewState'.item \in Previewed
      BY <1>b, <1>c, <1>0, <1>a, <1>f0, <1>f1, <1>f2, <1>f3, <1>f4, <1>f5, <1>o, <2>1 DEF Orderly, NumbersGiven, AskerFinds, Numbered
    <2> QED  BY <2>2, <2>3, <2>4, <2>5
  <1>t. TakenBack'
    <2> SUFFICES ASSUME Orderly', Leaving', previewWindow'.visible
                 PROVE  \/ WillHide'
                        \/ Closing' /\ \A o \in PreviewThread : Op(o)' = "show" => At(o)' = "shown"
      BY DEF TakenBack
    <2>1. /\ \A r, o \in PreviewThread : Asking(r) /\ Asking(o) => r = o
          /\ \A o \in PreviewThread : AskerFinds(o)
          /\ hideTask.late => previewState = NoState
          /\ Orderly
      BY <1>0, <1>a, <1>f0, <1>f1, <1>f2, <1>f3, <1>f4, <1>f5, <1>o DEF OneAsks, Orderly
    <2>2. Doomed
      <3>1. CASE ~clipWindow'.visible
        BY <3>1, <1>a DEF Doomed
      <3>2. ASSUME NEW o \in PreviewThread, Op(o)' = "hideClipboard" PROVE Doomed
        <4>1. Op(o) = "hideClipboard"
          BY <3>2, <1>f1, <1>o
        <4> QED  BY <4>1, <1>0 DEF OneWindows, Doomed
      <3> QED  BY <3>1, <3>2 DEF Leaving
    <2> QED  BY <2>2, <1>f1 DEF WillHide
  <1>q. Presented'
    <2> SUFFICES ASSUME Orderly'
                 PROVE  /\ \A o \in PreviewThread : Op(o)' = "show" /\ ~Doomed' => OnItsWay(o)'
                        /\ previewTally'.halfway /\ previewState' # NoState => previewState'.req # latest'.presented
                        /\ previewTally'.halfway => \A o \in PreviewThread : Op(o)' = "show" => At(o)' \notin {"set", "emitted", "shown"}
                        /\ ~previewTally'.halfway /\ previewState' # NoState => Served' \/ Unserved'
      BY DEF Presented
    <2>1. /\ \A r, o \in PreviewThread : Asking(r) /\ Asking(o) => r = o
          /\ \A o \in PreviewThread : AskerFinds(o)
          /\ hideTask.late => previewState = NoState
          /\ Orderly
      BY <1>0, <1>a, <1>f0, <1>f1, <1>f2, <1>f3, <1>f4, <1>f5, <1>o DEF OneAsks, Orderly
    <2>2. /\ \A o \in PreviewThread : Op(o) = "show" /\ ~Doomed => OnItsWay(o)
          /\ previewTally.halfway /\ previewState # NoState => previewState.req # latest.presented
          /\ previewTally.halfway => \A o \in PreviewThread : Op(o) = "show" => At(o) \notin {"set", "emitted", "shown"}
          /\ ~previewTally.halfway /\ previewState # NoState => Served \/ Unserved
      BY <1>0, <2>1 DEF Presented
    <2>3. ASSUME NEW o \in PreviewThread, Op(o)' = "show", ~Doomed' PROVE OnItsWay(o)'
      <3>1. CASE o = t
        BY <3>1, <1>b, <1>c, <1>0, <1>a, <1>f0, <1>f1, <1>f2, <1>f3, <1>f4, <1>f5, <1>o, <2>1, <2>2, <2>3 DEF Orderly, OnItsWay, AskerFinds, Numbered, Shown, Doomed, CanReuse, NumbersGiven, OneWindows, Windowing
      <3>2. CASE o # t
        BY <3>2, <1>b, <1>c, <1>0, <1>a, <1>f0, <1>f1, <1>f2, <1>f3, <1>f4, <1>f5, <1>o, <2>1, <2>2, <2>3 DEF Orderly, OnItsWay, AskerFinds, Numbered, Shown, Doomed, Asking, Op, OneWindows, Windowing
      <3> QED  BY <3>1, <3>2
    <2>4. previewTally'.halfway /\ previewState' # NoState => previewState'.req # latest'.presented
      BY <1>b, <1>c, <1>k, <1>n, <1>0, <1>a, <1>f0, <1>f1, <1>f2, <1>f3, <1>f4, <1>f5, <1>o, <2>1, <2>2 DEF Orderly, AskerFinds, Numbered, OnItsWay, NumbersGiven
    <2>5. ~previewTally'.halfway /\ previewState' # NoState => Served' \/ Unserved'
      BY <1>b, <1>c, <1>0, <1>a, <1>f0, <1>f1, <1>f2, <1>f3, <1>f4, <1>f5, <1>o, <2>1, <2>2 DEF Orderly, AskerFinds, Numbered, OnItsWay, Served, Unserved, Shown, NumbersGiven, Asking
    <2>6. previewTally'.halfway => \A o \in PreviewThread : Op(o)' = "show" => At(o)' \notin {"set", "emitted", "shown"}
      BY <1>0, <1>a, <1>f0, <1>f1, <1>f2, <1>f3, <1>f4, <1>f5, <1>o, <2>1, <2>2 DEF Orderly, Asking, Op
    <2> QED  BY <2>3, <2>4, <2>5, <2>6
  <1> QED  BY <1>s, <1>n, <1>w, <1>k, <1>t, <1>q DEF PreviewInv

LEMMA CallOtherStays == ASSUME PreviewInv, NEW t \in PreviewThread, NEW op \in {"close", "hideClipboard", "showClipboard"}, CallOther(t, op) PROVE PreviewInv'
  <1>0. PreviewShape /\ NumbersGiven /\ OneWindows /\ OneAsks /\ TakenBack /\ Presented
    BY DEF PreviewInv
  <1>b. /\ latest.req \in Nat /\ latest.presented \in Nat /\ latest.session \in Nat /\ latest.req + 1 \in Nat /\ latest.session + 1 \in Nat
        /\ previewState.req \in Nat /\ hideTask.req \in Nat /\ hideTask.woken \in Nat /\ \A o \in PreviewThread : previewCalls[o] \in CallCell /\ previewCalls[o].req \in Nat
    BY <1>0 DEF PreviewShape, Latests, States, HideTasks, CallCell
  <1>c. NoCall \in CallCell /\ NoState \in States /\ NoCall.req = 0 /\ NoState.req = 0 /\ previewCalls[t] \in CallCell
    BY <1>0, CallsMove DEF PreviewShape
  <1>a. UNCHANGED <<latest, previewState, hideTask, previewWindow, panel>>
    BY DEF CallOther, Calling, NoCall, Windowing
  <1>clipWindow. clipWindow' \in ClipWindows
    BY <1>0, <1>b, <1>c, CallsMove DEF CallOther, Calling, NoCall, Windowing, PreviewShape, ClipWindows
  <1>previewCalls. previewCalls' \in [PreviewThread -> CallCell]
    BY <1>0, <1>b, <1>c, CallsMove DEF CallOther, Calling, NoCall, Windowing, PreviewShape, CallCell
  <1>previewTally. previewTally' \in PreviewTallies
    <2>1. previewTally \in PreviewTallies
      BY <1>0 DEF PreviewShape
    <2>2. (previewTally.overlapped \/ (op # "hideClipboard" /\ \E o \in PreviewThread : Asking(o))) \in BOOLEAN
      OBVIOUS
    <2>3. \A k \in PreviewTallies, b \in BOOLEAN, n \in Nat : [k EXCEPT !.calls = n, !.overlapped = b] \in PreviewTallies
      BY DEF PreviewTallies
    <2>4. previewTally.calls + 1 \in Nat /\ (IF previewWindow.here THEN previewTally.faults + 1 ELSE previewTally.faults) \in Nat
      BY <2>1 DEF PreviewTallies
    <2> QED  BY <2>1, <2>2, <2>3, <2>4 DEF CallOther
  <1>f0. previewCalls[t] = NoCall /\ Op(t) = "none"
    BY <1>0 DEF CallOther, Calling, NoCall, Windowing, PreviewShape, Op, At, CallCell
  <1>f1. op \in {"close", "hideClipboard", "showClipboard"}
    BY <1>0 DEF CallOther, Calling, NoCall, Windowing, PreviewShape, Op, At
  <1>f2. op \in {"hideClipboard", "showClipboard"} => \A o \in PreviewThread : ~Windowing(o)
    BY <1>0 DEF CallOther, Calling, NoCall, Windowing, PreviewShape, Op, At
  <1>f3. clipWindow'.visible = clipWindow.visible /\ (clipWindow'.suppressed <=> (clipWindow.suppressed \/ op = "hideClipboard"))
    BY <1>0 DEF CallOther, Calling, NoCall, Windowing, PreviewShape, Op, At, ClipWindows
  <1>f4. Op(t)' = op /\ At(t)' = "begin"
    BY <1>0 DEF CallOther, Calling, NoCall, Windowing, PreviewShape, Op, At, CallCell
  <1>f5. previewCalls'[t].req = 0 /\ previewCalls'[t].session = 0
    BY <1>0 DEF CallOther, Calling, NoCall, Windowing, PreviewShape, Op, At, CallCell
  <1>f6. previewCalls'[t].item = NoPreview /\ previewCalls'[t].content = FALSE
    BY <1>0 DEF CallOther, Calling, NoCall, Windowing, PreviewShape, Op, At, CallCell
  <1>f7. (previewTally'.overlapped <=> (previewTally.overlapped \/ (op # "hideClipboard" /\ \E o \in PreviewThread : Asking(o))))
    BY <1>0 DEF CallOther, Calling, NoCall, Windowing, PreviewShape, Op, At, PreviewTallies
  <1>f8. previewTally'.slipped = previewTally.slipped /\ previewTally'.halfway = previewTally.halfway
    BY <1>0 DEF CallOther, Calling, NoCall, Windowing, PreviewShape, Op, At, PreviewTallies
  <1>o. \A o \in PreviewThread : o # t => 
          /\ previewCalls'[o] = previewCalls[o] /\ Op(o)' = Op(o) /\ At(o)' = At(o)
          /\ (Windowing(o)' <=> Windowing(o)) /\ (Asking(o)' <=> Asking(o))
    BY <1>0 DEF CallOther, Calling, NoCall, PreviewShape, Op, At, Windowing, Asking
  <1>s. PreviewShape'
    BY <1>0, <1>a, <1>clipWindow, <1>previewCalls, <1>previewTally DEF PreviewShape
  <1>n. NumbersGiven'
    BY <1>b, <1>c, <1>0, <1>a, <1>f0, <1>f1, <1>f2, <1>f3, <1>f4, <1>f5, <1>f6, <1>f7, <1>f8, <1>o DEF NumbersGiven
  <1>w. OneWindows'
    <2>1. ASSUME NEW o \in PreviewThread
          PROVE  (At(o) \in StepsOf(Op(o)))' /\ (Op(o)' = "none" => previewCalls'[o] = NoCall)
      <3>1. CASE o = t
        BY <3>1, <1>0, <1>a, <1>f0, <1>f1, <1>f2, <1>f3, <1>f4, <1>f5, <1>f6, <1>f7, <1>f8, <1>o DEF StepsOf, Numbered, OneWindows
      <3>2. CASE o # t
        BY <3>2, <1>0, <1>o DEF OneWindows
      <3> QED  BY <3>1, <3>2
    <2>2. \A r, o \in PreviewThread : Windowing(r)' /\ Windowing(o)' => r = o
      BY <1>0, <1>a, <1>f0, <1>f1, <1>f2, <1>f3, <1>f4, <1>f5, <1>f6, <1>f7, <1>f8, <1>o DEF OneWindows, Windowing
    <2>3. (\E o \in PreviewThread : Op(o)' = "hideClipboard") => clipWindow'.suppressed
      BY <1>0, <1>a, <1>f0, <1>f1, <1>f2, <1>f3, <1>f4, <1>f5, <1>f6, <1>f7, <1>f8, <1>o DEF OneWindows, Windowing
    <2>4. clipWindow'.suppressed => \/ ~clipWindow'.visible
                                   \/ \E o \in PreviewThread : Op(o)' = "hideClipboard" \/ (Op(o)' = "showClipboard" /\ At(o)' = "visible")
      BY <1>0, <1>a, <1>f0, <1>f1, <1>f2, <1>f3, <1>f4, <1>f5, <1>f6, <1>f7, <1>f8, <1>o DEF OneWindows, Windowing
    <2> QED  BY <2>1, <2>2, <2>3, <2>4 DEF OneWindows
  <1>k. OneAsks'
    <2> SUFFICES ASSUME Orderly'
                 PROVE  /\ \A r, o \in PreviewThread : Asking(r)' /\ Asking(o)' => r = o
                        /\ \A o \in PreviewThread : AskerFinds(o)'
                        /\ hideTask'.late => previewState' = NoState
                        /\ previewState' # NoState => previewState'.item \in Previewed
      BY DEF OneAsks
    <2>1. /\ \A r, o \in PreviewThread : Asking(r) /\ Asking(o) => r = o
          /\ \A o \in PreviewThread : AskerFinds(o)
          /\ hideTask.late => previewState = NoState
          /\ previewState # NoState => previewState.item \in Previewed
      BY <1>0, <1>a, <1>f0, <1>f1, <1>f2, <1>f3, <1>f4, <1>f5, <1>f6, <1>f7, <1>f8, <1>o DEF OneAsks, Orderly
    <2>2. \A r, o \in PreviewThread : Asking(r)' /\ Asking(o)' => r = o
      BY <1>0, <1>a, <1>f0, <1>f1, <1>f2, <1>f3, <1>f4, <1>f5, <1>f6, <1>f7, <1>f8, <1>o, <2>1 DEF Orderly, Asking, Op
    <2>3. ASSUME NEW o \in PreviewThread PROVE AskerFinds(o)'
      <3>1. CASE o = t
        BY <3>1, <1>b, <1>c, <1>0, <1>a, <1>f0, <1>f1, <1>f2, <1>f3, <1>f4, <1>f5, <1>f6, <1>f7, <1>f8, <1>o, <2>1 DEF AskerFinds, Doomed, Numbered, Orderly, SessionForShow, OneWindows, NumbersGiven, Windowing
      <3>2. CASE o # t
        <4>1. AskerFinds(o) /\ previewCalls'[o] = previewCalls[o] /\ Op(o)' = Op(o) /\ At(o)' = At(o)
          BY <3>2, <2>1, <1>o
        <4>2. Op(o) = "show" => op = "hideClipboard"
          BY <1>f1, <1>f7 DEF Orderly, Asking, Op
        <4>3. Op(o) = "show" => \A p \in PreviewThread : Op(p)' # "showClipboard"
          BY <4>2, <1>f2, <1>f4, <1>o DEF Windowing
        <4> QED  BY <4>1, <4>3, <1>a DEF AskerFinds
      <3> QED  BY <3>1, <3>2
    <2>4. hideTask'.late => previewState' = NoState
      BY <1>b, <1>c, <1>0, <1>a, <1>f0, <1>f1, <1>f2, <1>f3, <1>f4, <1>f5, <1>f6, <1>f7, <1>f8, <1>o, <2>1 DEF Orderly, NumbersGiven, AskerFinds, Numbered
    <2>5. previewState' # NoState => previewState'.item \in Previewed
      BY <1>b, <1>c, <1>0, <1>a, <1>f0, <1>f1, <1>f2, <1>f3, <1>f4, <1>f5, <1>f6, <1>f7, <1>f8, <1>o, <2>1 DEF Orderly, NumbersGiven, AskerFinds, Numbered
    <2> QED  BY <2>2, <2>3, <2>4, <2>5
  <1>t. TakenBack'
    <2> SUFFICES ASSUME Orderly', Leaving', previewWindow'.visible
                 PROVE  \/ WillHide'
                        \/ Closing' /\ \A o \in PreviewThread : Op(o)' = "show" => At(o)' = "shown"
      BY DEF TakenBack
    <2>1. /\ \A r, o \in PreviewThread : Asking(r) /\ Asking(o) => r = o
          /\ \A o \in PreviewThread : AskerFinds(o)
          /\ hideTask.late => previewState = NoState
          /\ Orderly
      BY <1>0, <1>a, <1>f0, <1>f1, <1>f2, <1>f3, <1>f4, <1>f5, <1>f6, <1>f7, <1>f8, <1>o DEF OneAsks, Orderly
    <2> QED  BY <1>0, <1>a, <1>f0, <1>f1, <1>f2, <1>f3, <1>f4, <1>f5, <1>f6, <1>f7, <1>f8, <1>o, <1>b, <1>c, <1>k, <1>w, <2>1 DEF TakenBack, Orderly, Leaving, WillHide, Closing, LastOne, NumbersGiven, OneWindows, Windowing
  <1>q. Presented'
    <2> SUFFICES ASSUME Orderly'
                 PROVE  /\ \A o \in PreviewThread : Op(o)' = "show" /\ ~Doomed' => OnItsWay(o)'
                        /\ previewTally'.halfway /\ previewState' # NoState => previewState'.req # latest'.presented
                        /\ previewTally'.halfway => \A o \in PreviewThread : Op(o)' = "show" => At(o)' \notin {"set", "emitted", "shown"}
                        /\ ~previewTally'.halfway /\ previewState' # NoState => Served' \/ Unserved'
      BY DEF Presented
    <2>1. /\ \A r, o \in PreviewThread : Asking(r) /\ Asking(o) => r = o
          /\ \A o \in PreviewThread : AskerFinds(o)
          /\ hideTask.late => previewState = NoState
          /\ Orderly
      BY <1>0, <1>a, <1>f0, <1>f1, <1>f2, <1>f3, <1>f4, <1>f5, <1>f6, <1>f7, <1>f8, <1>o DEF OneAsks, Orderly
    <2>2. /\ \A o \in PreviewThread : Op(o) = "show" /\ ~Doomed => OnItsWay(o)
          /\ previewTally.halfway /\ previewState # NoState => previewState.req # latest.presented
          /\ previewTally.halfway => \A o \in PreviewThread : Op(o) = "show" => At(o) \notin {"set", "emitted", "shown"}
          /\ ~previewTally.halfway /\ previewState # NoState => Served \/ Unserved
      BY <1>0, <2>1 DEF Presented
    <2>3. ASSUME NEW o \in PreviewThread, Op(o)' = "show", ~Doomed' PROVE OnItsWay(o)'
      <3>1. CASE o = t
        BY <3>1, <1>b, <1>c, <1>0, <1>a, <1>f0, <1>f1, <1>f2, <1>f3, <1>f4, <1>f5, <1>f6, <1>f7, <1>f8, <1>o, <2>1, <2>2, <2>3 DEF Orderly, OnItsWay, AskerFinds, Numbered, Shown, Doomed, CanReuse, NumbersGiven, OneWindows, Windowing
      <3>2. CASE o # t
        BY <3>2, <1>b, <1>c, <1>0, <1>a, <1>f0, <1>f1, <1>f2, <1>f3, <1>f4, <1>f5, <1>f6, <1>f7, <1>f8, <1>o, <2>1, <2>2, <2>3 DEF Orderly, OnItsWay, AskerFinds, Numbered, Shown, Doomed, Asking, Op, OneWindows, Windowing
      <3> QED  BY <3>1, <3>2
    <2>4. previewTally'.halfway /\ previewState' # NoState => previewState'.req # latest'.presented
      BY <1>b, <1>c, <1>k, <1>n, <1>0, <1>a, <1>f0, <1>f1, <1>f2, <1>f3, <1>f4, <1>f5, <1>f6, <1>f7, <1>f8, <1>o, <2>1, <2>2 DEF Orderly, AskerFinds, Numbered, OnItsWay, NumbersGiven
    <2>5. ~previewTally'.halfway /\ previewState' # NoState => Served' \/ Unserved'
      BY <1>b, <1>c, <1>0, <1>a, <1>f0, <1>f1, <1>f2, <1>f3, <1>f4, <1>f5, <1>f6, <1>f7, <1>f8, <1>o, <2>1, <2>2 DEF Orderly, AskerFinds, Numbered, OnItsWay, Served, Unserved, Shown, NumbersGiven, Asking
    <2>6. previewTally'.halfway => \A o \in PreviewThread : Op(o)' = "show" => At(o)' \notin {"set", "emitted", "shown"}
      BY <1>0, <1>a, <1>f0, <1>f1, <1>f2, <1>f3, <1>f4, <1>f5, <1>f6, <1>f7, <1>f8, <1>o, <2>1, <2>2 DEF Orderly, Asking, Op
    <2> QED  BY <2>3, <2>4, <2>5, <2>6
  <1> QED  BY <1>s, <1>n, <1>w, <1>k, <1>t, <1>q DEF PreviewInv

LEMMA NumberShowStays == ASSUME PreviewInv, NEW t \in PreviewThread, NumberShow(t) PROVE PreviewInv'
  <1>0. PreviewShape /\ NumbersGiven /\ OneWindows /\ OneAsks /\ TakenBack /\ Presented
    BY DEF PreviewInv
  <1>b. /\ latest.req \in Nat /\ latest.presented \in Nat /\ latest.session \in Nat /\ latest.req + 1 \in Nat /\ latest.session + 1 \in Nat
        /\ previewState.req \in Nat /\ hideTask.req \in Nat /\ hideTask.woken \in Nat /\ \A o \in PreviewThread : previewCalls[o] \in CallCell /\ previewCalls[o].req \in Nat
    BY <1>0 DEF PreviewShape, Latests, States, HideTasks, CallCell
  <1>c. NoCall \in CallCell /\ NoState \in States /\ NoCall.req = 0 /\ NoState.req = 0 /\ previewCalls[t] \in CallCell
    BY <1>0, CallsMove DEF PreviewShape
  <1>a. UNCHANGED <<clipWindow, previewState, previewWindow, panel>>
    BY DEF NumberShow, CancelTask, SessionForShow
  <1>latest. latest' \in Latests
    BY <1>0, <1>b, <1>c, CallsMove DEF NumberShow, CancelTask, SessionForShow, PreviewShape, Latests
  <1>hideTask. hideTask' \in HideTasks
    BY <1>0, <1>b, <1>c, CallsMove DEF NumberShow, CancelTask, SessionForShow, PreviewShape, HideTasks
  <1>previewCalls. previewCalls' \in [PreviewThread -> CallCell]
    BY <1>0, <1>b, <1>c, CallsMove DEF NumberShow, CancelTask, SessionForShow, PreviewShape, CallCell
  <1>previewTally. previewTally' \in PreviewTallies
    BY <1>0, <1>b, <1>c, CallsMove DEF NumberShow, CancelTask, SessionForShow, PreviewShape, PreviewTallies
  <1>f0. Op(t) = "show" /\ At(t) = "checked"
    BY <1>0 DEF NumberShow, CancelTask, SessionForShow, PreviewShape, Op, At, CallCell
  <1>f1. latest'.req = latest.req + 1 /\ latest'.presented = latest.presented /\ latest'.session = SessionForShow /\ latest'.caller = t
    BY <1>0 DEF NumberShow, CancelTask, SessionForShow, PreviewShape, Op, At, Latests
  <1>f2. hideTask'.req = 0 /\ hideTask'.woken = hideTask.woken /\ hideTask'.late = hideTask.late
    BY <1>0 DEF NumberShow, CancelTask, SessionForShow, PreviewShape, Op, At, HideTasks
  <1>f3. Op(t)' = Op(t) /\ At(t)' = "numbered"
    BY <1>0 DEF NumberShow, CancelTask, SessionForShow, PreviewShape, Op, At, CallCell
  <1>f4. previewCalls'[t].req = latest.req + 1 /\ previewCalls'[t].session = SessionForShow
    BY <1>0 DEF NumberShow, CancelTask, SessionForShow, PreviewShape, Op, At, CallCell
  <1>f5. previewCalls'[t].item = previewCalls[t].item /\ previewCalls'[t].content = previewCalls[t].content
    BY <1>0 DEF NumberShow, CancelTask, SessionForShow, PreviewShape, Op, At, CallCell
  <1>f6. previewTally'.overlapped = previewTally.overlapped /\ (previewTally'.slipped <=> (previewTally.slipped \/ hideTask.late)) /\ previewTally'.halfway = previewTally.halfway
    BY <1>0 DEF NumberShow, CancelTask, SessionForShow, PreviewShape, Op, At, PreviewTallies
  <1>o. \A o \in PreviewThread : o # t => 
          /\ previewCalls'[o] = previewCalls[o] /\ Op(o)' = Op(o) /\ At(o)' = At(o)
          /\ (Windowing(o)' <=> Windowing(o)) /\ (Asking(o)' <=> Asking(o))
    BY <1>0 DEF NumberShow, CancelTask, SessionForShow, PreviewShape, Op, At, Windowing, Asking
  <1>s. PreviewShape'
    BY <1>0, <1>a, <1>latest, <1>hideTask, <1>previewCalls, <1>previewTally DEF PreviewShape
  <1>n. NumbersGiven'
    BY <1>b, <1>c, <1>0, <1>a, <1>f0, <1>f1, <1>f2, <1>f3, <1>f4, <1>f5, <1>f6, <1>o DEF NumbersGiven
  <1>w. OneWindows'
    <2>1. ASSUME NEW o \in PreviewThread
          PROVE  (At(o) \in StepsOf(Op(o)))' /\ (Op(o)' = "none" => previewCalls'[o] = NoCall)
      <3>1. CASE o = t
        BY <3>1, <1>0, <1>a, <1>f0, <1>f1, <1>f2, <1>f3, <1>f4, <1>f5, <1>f6, <1>o DEF StepsOf, Numbered, OneWindows
      <3>2. CASE o # t
        BY <3>2, <1>0, <1>o DEF OneWindows
      <3> QED  BY <3>1, <3>2
    <2>2. \A r, o \in PreviewThread : Windowing(r)' /\ Windowing(o)' => r = o
      BY <1>0, <1>a, <1>f0, <1>f1, <1>f2, <1>f3, <1>f4, <1>f5, <1>f6, <1>o DEF OneWindows, Windowing
    <2>3. (\E o \in PreviewThread : Op(o)' = "hideClipboard") => clipWindow'.suppressed
      BY <1>0, <1>a, <1>f0, <1>f1, <1>f2, <1>f3, <1>f4, <1>f5, <1>f6, <1>o DEF OneWindows, Windowing
    <2>4. clipWindow'.suppressed => \/ ~clipWindow'.visible
                                   \/ \E o \in PreviewThread : Op(o)' = "hideClipboard" \/ (Op(o)' = "showClipboard" /\ At(o)' = "visible")
      BY <1>0, <1>a, <1>f0, <1>f1, <1>f2, <1>f3, <1>f4, <1>f5, <1>f6, <1>o DEF OneWindows, Windowing
    <2> QED  BY <2>1, <2>2, <2>3, <2>4 DEF OneWindows
  <1>k. OneAsks'
    <2> SUFFICES ASSUME Orderly'
                 PROVE  /\ \A r, o \in PreviewThread : Asking(r)' /\ Asking(o)' => r = o
                        /\ \A o \in PreviewThread : AskerFinds(o)'
                        /\ hideTask'.late => previewState' = NoState
                        /\ previewState' # NoState => previewState'.item \in Previewed
      BY DEF OneAsks
    <2>1. /\ \A r, o \in PreviewThread : Asking(r) /\ Asking(o) => r = o
          /\ \A o \in PreviewThread : AskerFinds(o)
          /\ hideTask.late => previewState = NoState
          /\ previewState # NoState => previewState.item \in Previewed
      BY <1>0, <1>a, <1>f0, <1>f1, <1>f2, <1>f3, <1>f4, <1>f5, <1>f6, <1>o DEF OneAsks, Orderly
    <2>2. \A r, o \in PreviewThread : Asking(r)' /\ Asking(o)' => r = o
      BY <1>0, <1>a, <1>f0, <1>f1, <1>f2, <1>f3, <1>f4, <1>f5, <1>f6, <1>o, <2>1 DEF Orderly, Asking, Op
    <2>3. ASSUME NEW o \in PreviewThread PROVE AskerFinds(o)'
      <3>1. CASE o = t
        <4>1. AskerFinds(t) /\ Op(t) = "show" /\ Op(o)' = "show"
          BY <3>1, <2>1, <1>f0, <1>f3
        <4>2. (\E p \in PreviewThread : Op(p)' = "showClipboard") => ~Doomed'
          <5>1. \A p \in PreviewThread : Op(p)' = Op(p)
            BY <1>o, <1>f3
          <5> QED  BY <4>1, <5>1, <1>a DEF AskerFinds, Doomed
        <4>3. previewCalls'[o].item \in Previewed
          BY <3>1, <4>1, <1>f5 DEF AskerFinds
        <4>4. latest'.caller = o /\ hideTask'.req = 0 /\ ~hideTask'.late /\ hideTask'.woken < previewCalls'[o].req /\ latest'.presented < previewCalls'[o].req
          BY <3>1, <1>b, <1>0, <1>f1, <1>f2, <1>f4, <1>f6 DEF NumbersGiven, Orderly
        <4>5. previewState'.req < previewCalls'[o].req
          BY <3>1, <1>a, <1>b, <1>0, <1>f4 DEF NumbersGiven
        <4> QED  BY <3>1, <4>2, <4>3, <4>4, <4>5, <1>f3 DEF AskerFinds
      <3>2. CASE o # t
        BY <3>2, <1>b, <1>c, <1>0, <1>a, <1>f0, <1>f1, <1>f2, <1>f3, <1>f4, <1>f5, <1>f6, <1>o, <2>1 DEF AskerFinds, Doomed, Numbered, Orderly, Asking, Op, NumbersGiven
      <3> QED  BY <3>1, <3>2
    <2>4. hideTask'.late => previewState' = NoState
      BY <1>b, <1>c, <1>0, <1>a, <1>f0, <1>f1, <1>f2, <1>f3, <1>f4, <1>f5, <1>f6, <1>o, <2>1 DEF Orderly, NumbersGiven, AskerFinds, Numbered
    <2>5. previewState' # NoState => previewState'.item \in Previewed
      BY <1>b, <1>c, <1>0, <1>a, <1>f0, <1>f1, <1>f2, <1>f3, <1>f4, <1>f5, <1>f6, <1>o, <2>1 DEF Orderly, NumbersGiven, AskerFinds, Numbered
    <2> QED  BY <2>2, <2>3, <2>4, <2>5
  <1>t. TakenBack'
    <2> SUFFICES ASSUME Orderly', Leaving', previewWindow'.visible
                 PROVE  \/ WillHide'
                        \/ Closing' /\ \A o \in PreviewThread : Op(o)' = "show" => At(o)' = "shown"
      BY DEF TakenBack
    <2>1. /\ \A r, o \in PreviewThread : Asking(r) /\ Asking(o) => r = o
          /\ \A o \in PreviewThread : AskerFinds(o)
          /\ hideTask.late => previewState = NoState
          /\ Orderly
      BY <1>0, <1>a, <1>f0, <1>f1, <1>f2, <1>f3, <1>f4, <1>f5, <1>f6, <1>o DEF OneAsks, Orderly
    <2> QED  BY <1>0, <1>a, <1>f0, <1>f1, <1>f2, <1>f3, <1>f4, <1>f5, <1>f6, <1>o, <1>b, <1>c, <1>k, <1>w, <2>1 DEF TakenBack, Orderly, Leaving, WillHide, Closing, LastOne, NumbersGiven, OneWindows, Windowing
  <1>q. Presented'
    <2> SUFFICES ASSUME Orderly'
                 PROVE  /\ \A o \in PreviewThread : Op(o)' = "show" /\ ~Doomed' => OnItsWay(o)'
                        /\ previewTally'.halfway /\ previewState' # NoState => previewState'.req # latest'.presented
                        /\ previewTally'.halfway => \A o \in PreviewThread : Op(o)' = "show" => At(o)' \notin {"set", "emitted", "shown"}
                        /\ ~previewTally'.halfway /\ previewState' # NoState => Served' \/ Unserved'
      BY DEF Presented
    <2>1. /\ \A r, o \in PreviewThread : Asking(r) /\ Asking(o) => r = o
          /\ \A o \in PreviewThread : AskerFinds(o)
          /\ hideTask.late => previewState = NoState
          /\ Orderly
      BY <1>0, <1>a, <1>f0, <1>f1, <1>f2, <1>f3, <1>f4, <1>f5, <1>f6, <1>o DEF OneAsks, Orderly
    <2>2. /\ \A o \in PreviewThread : Op(o) = "show" /\ ~Doomed => OnItsWay(o)
          /\ previewTally.halfway /\ previewState # NoState => previewState.req # latest.presented
          /\ previewTally.halfway => \A o \in PreviewThread : Op(o) = "show" => At(o) \notin {"set", "emitted", "shown"}
          /\ ~previewTally.halfway /\ previewState # NoState => Served \/ Unserved
      BY <1>0, <2>1 DEF Presented
    <2>3. ASSUME NEW o \in PreviewThread, Op(o)' = "show", ~Doomed' PROVE OnItsWay(o)'
      <3>1. CASE o = t
        BY <3>1, <1>b, <1>c, <1>0, <1>a, <1>f0, <1>f1, <1>f2, <1>f3, <1>f4, <1>f5, <1>f6, <1>o, <2>1, <2>2, <2>3 DEF Orderly, OnItsWay, AskerFinds, Numbered, Shown, Doomed, CanReuse, NumbersGiven, OneWindows, Windowing
      <3>2. CASE o # t
        BY <3>2, <1>b, <1>c, <1>0, <1>a, <1>f0, <1>f1, <1>f2, <1>f3, <1>f4, <1>f5, <1>f6, <1>o, <2>1, <2>2, <2>3 DEF Orderly, OnItsWay, AskerFinds, Numbered, Shown, Doomed, Asking, Op, OneWindows, Windowing
      <3> QED  BY <3>1, <3>2
    <2>4. previewTally'.halfway /\ previewState' # NoState => previewState'.req # latest'.presented
      BY <1>b, <1>c, <1>k, <1>n, <1>0, <1>a, <1>f0, <1>f1, <1>f2, <1>f3, <1>f4, <1>f5, <1>f6, <1>o, <2>1, <2>2 DEF Orderly, AskerFinds, Numbered, OnItsWay, NumbersGiven
    <2>5. ~previewTally'.halfway /\ previewState' # NoState => Served' \/ Unserved'
      BY <1>b, <1>c, <1>0, <1>a, <1>f0, <1>f1, <1>f2, <1>f3, <1>f4, <1>f5, <1>f6, <1>o, <2>1, <2>2 DEF Orderly, AskerFinds, Numbered, OnItsWay, Served, Unserved, Shown, NumbersGiven, Asking
    <2>6. previewTally'.halfway => \A o \in PreviewThread : Op(o)' = "show" => At(o)' \notin {"set", "emitted", "shown"}
      BY <1>0, <1>a, <1>f0, <1>f1, <1>f2, <1>f3, <1>f4, <1>f5, <1>f6, <1>o, <2>1, <2>2 DEF Orderly, Asking, Op
    <2> QED  BY <2>3, <2>4, <2>5, <2>6
  <1> QED  BY <1>s, <1>n, <1>w, <1>k, <1>t, <1>q DEF PreviewInv

LEMMA PrepareShowStays == ASSUME PreviewInv, NEW t \in PreviewThread, PrepareShow(t) PROVE PreviewInv'
  <1>0. PreviewShape /\ NumbersGiven /\ OneWindows /\ OneAsks /\ TakenBack /\ Presented
    BY DEF PreviewInv
  <1>b. /\ latest.req \in Nat /\ latest.presented \in Nat /\ latest.session \in Nat /\ latest.req + 1 \in Nat /\ latest.session + 1 \in Nat
        /\ previewState.req \in Nat /\ hideTask.req \in Nat /\ hideTask.woken \in Nat /\ \A o \in PreviewThread : previewCalls[o] \in CallCell /\ previewCalls[o].req \in Nat
    BY <1>0 DEF PreviewShape, Latests, States, HideTasks, CallCell
  <1>c. NoCall \in CallCell /\ NoState \in States /\ NoCall.req = 0 /\ NoState.req = 0 /\ previewCalls[t] \in CallCell
    BY <1>0, CallsMove DEF PreviewShape
  <1>a. UNCHANGED <<clipWindow, latest, previewState, hideTask, previewTally>>
    BY DEF PrepareShow, EnsureWindow
  <1>previewWindow. previewWindow' \in PreviewWindows
    BY <1>0, <1>b, <1>c, CallsMove DEF PrepareShow, EnsureWindow, PreviewShape, PreviewWindows
  <1>previewCalls. previewCalls' \in [PreviewThread -> CallCell]
    BY <1>0, <1>b, <1>c, CallsMove DEF PrepareShow, EnsureWindow, PreviewShape, CallCell
  <1>panel. panel' \in Previewed \cup {NoPreview}
    BY <1>0, <1>b, <1>c, CallsMove DEF PrepareShow, EnsureWindow, PreviewShape, CallCell
  <1>f0. Op(t) = "show" /\ At(t) = "numbered"
    BY <1>0 DEF PrepareShow, EnsureWindow, PreviewShape, Op, At, CallCell
  <1>f1. panel' = previewCalls[t].item
    BY <1>0 DEF PrepareShow, EnsureWindow, PreviewShape, Op, At, CallCell
  <1>f2. previewWindow'.here \in {TRUE, previewWindow.here} /\ previewWindow'.mounted = previewWindow.mounted /\ previewWindow'.visible = previewWindow.visible /\ previewWindow'.shows = previewWindow.shows
    BY <1>0 DEF PrepareShow, EnsureWindow, PreviewShape, Op, At, PreviewWindows
  <1>f3. previewWindow.here => previewWindow'.here
    BY <1>0 DEF PrepareShow, EnsureWindow, PreviewShape, Op, At, PreviewWindows
  <1>f4. Op(t)' = Op(t) /\ At(t)' = "prepared"
    BY <1>0 DEF PrepareShow, EnsureWindow, PreviewShape, Op, At, CallCell
  <1>f5. previewCalls'[t].req = previewCalls[t].req /\ previewCalls'[t].session = previewCalls[t].session
    BY <1>0 DEF PrepareShow, EnsureWindow, PreviewShape, Op, At, CallCell
  <1>f6. previewCalls'[t].item = previewCalls[t].item /\ previewCalls'[t].content = ~(CanReuse(previewCalls[t]) /\ previewWindow.visible)
    BY <1>0 DEF PrepareShow, EnsureWindow, PreviewShape, Op, At, CallCell
  <1>o. \A o \in PreviewThread : o # t => 
          /\ previewCalls'[o] = previewCalls[o] /\ Op(o)' = Op(o) /\ At(o)' = At(o)
          /\ (Windowing(o)' <=> Windowing(o)) /\ (Asking(o)' <=> Asking(o))
    BY <1>0 DEF PrepareShow, EnsureWindow, PreviewShape, Op, At, Windowing, Asking
  <1>s. PreviewShape'
    BY <1>0, <1>a, <1>previewWindow, <1>previewCalls, <1>panel DEF PreviewShape
  <1>n. NumbersGiven'
    BY <1>b, <1>c, <1>0, <1>a, <1>f0, <1>f1, <1>f2, <1>f3, <1>f4, <1>f5, <1>f6, <1>o DEF NumbersGiven
  <1>w. OneWindows'
    <2>1. ASSUME NEW o \in PreviewThread
          PROVE  (At(o) \in StepsOf(Op(o)))' /\ (Op(o)' = "none" => previewCalls'[o] = NoCall)
      <3>1. CASE o = t
        BY <3>1, <1>0, <1>a, <1>f0, <1>f1, <1>f2, <1>f3, <1>f4, <1>f5, <1>f6, <1>o DEF StepsOf, Numbered, OneWindows
      <3>2. CASE o # t
        BY <3>2, <1>0, <1>o DEF OneWindows
      <3> QED  BY <3>1, <3>2
    <2>2. \A r, o \in PreviewThread : Windowing(r)' /\ Windowing(o)' => r = o
      BY <1>0, <1>a, <1>f0, <1>f1, <1>f2, <1>f3, <1>f4, <1>f5, <1>f6, <1>o DEF OneWindows, Windowing
    <2>3. (\E o \in PreviewThread : Op(o)' = "hideClipboard") => clipWindow'.suppressed
      BY <1>0, <1>a, <1>f0, <1>f1, <1>f2, <1>f3, <1>f4, <1>f5, <1>f6, <1>o DEF OneWindows, Windowing
    <2>4. clipWindow'.suppressed => \/ ~clipWindow'.visible
                                   \/ \E o \in PreviewThread : Op(o)' = "hideClipboard" \/ (Op(o)' = "showClipboard" /\ At(o)' = "visible")
      BY <1>0, <1>a, <1>f0, <1>f1, <1>f2, <1>f3, <1>f4, <1>f5, <1>f6, <1>o DEF OneWindows, Windowing
    <2> QED  BY <2>1, <2>2, <2>3, <2>4 DEF OneWindows
  <1>k. OneAsks'
    <2> SUFFICES ASSUME Orderly'
                 PROVE  /\ \A r, o \in PreviewThread : Asking(r)' /\ Asking(o)' => r = o
                        /\ \A o \in PreviewThread : AskerFinds(o)'
                        /\ hideTask'.late => previewState' = NoState
                        /\ previewState' # NoState => previewState'.item \in Previewed
      BY DEF OneAsks
    <2>1. /\ \A r, o \in PreviewThread : Asking(r) /\ Asking(o) => r = o
          /\ \A o \in PreviewThread : AskerFinds(o)
          /\ hideTask.late => previewState = NoState
          /\ previewState # NoState => previewState.item \in Previewed
      BY <1>0, <1>a, <1>f0, <1>f1, <1>f2, <1>f3, <1>f4, <1>f5, <1>f6, <1>o DEF OneAsks, Orderly
    <2>2. \A r, o \in PreviewThread : Asking(r)' /\ Asking(o)' => r = o
      BY <1>0, <1>a, <1>f0, <1>f1, <1>f2, <1>f3, <1>f4, <1>f5, <1>f6, <1>o, <2>1 DEF Orderly, Asking, Op
    <2>3. ASSUME NEW o \in PreviewThread PROVE AskerFinds(o)'
      <3>1. CASE o = t
        BY <3>1, <1>b, <1>c, <1>0, <1>a, <1>f0, <1>f1, <1>f2, <1>f3, <1>f4, <1>f5, <1>f6, <1>o, <2>1 DEF AskerFinds, Doomed, Numbered, Orderly, SessionForShow, OneWindows, NumbersGiven, Windowing
      <3>2. CASE o # t
        BY <3>2, <1>b, <1>c, <1>0, <1>a, <1>f0, <1>f1, <1>f2, <1>f3, <1>f4, <1>f5, <1>f6, <1>o, <2>1 DEF AskerFinds, Doomed, Numbered, Orderly, Asking, Op, NumbersGiven
      <3> QED  BY <3>1, <3>2
    <2>4. hideTask'.late => previewState' = NoState
      BY <1>b, <1>c, <1>0, <1>a, <1>f0, <1>f1, <1>f2, <1>f3, <1>f4, <1>f5, <1>f6, <1>o, <2>1 DEF Orderly, NumbersGiven, AskerFinds, Numbered
    <2>5. previewState' # NoState => previewState'.item \in Previewed
      BY <1>b, <1>c, <1>0, <1>a, <1>f0, <1>f1, <1>f2, <1>f3, <1>f4, <1>f5, <1>f6, <1>o, <2>1 DEF Orderly, NumbersGiven, AskerFinds, Numbered
    <2> QED  BY <2>2, <2>3, <2>4, <2>5
  <1>t. TakenBack'
    <2> SUFFICES ASSUME Orderly', Leaving', previewWindow'.visible
                 PROVE  \/ WillHide'
                        \/ Closing' /\ \A o \in PreviewThread : Op(o)' = "show" => At(o)' = "shown"
      BY DEF TakenBack
    <2>1. /\ \A r, o \in PreviewThread : Asking(r) /\ Asking(o) => r = o
          /\ \A o \in PreviewThread : AskerFinds(o)
          /\ hideTask.late => previewState = NoState
          /\ Orderly
      BY <1>0, <1>a, <1>f0, <1>f1, <1>f2, <1>f3, <1>f4, <1>f5, <1>f6, <1>o DEF OneAsks, Orderly
    <2> QED  BY <1>0, <1>a, <1>f0, <1>f1, <1>f2, <1>f3, <1>f4, <1>f5, <1>f6, <1>o, <1>b, <1>c, <1>k, <1>w, <2>1 DEF TakenBack, Orderly, Leaving, WillHide, Closing, LastOne, NumbersGiven, OneWindows, Windowing
  <1>q. Presented'
    <2> SUFFICES ASSUME Orderly'
                 PROVE  /\ \A o \in PreviewThread : Op(o)' = "show" /\ ~Doomed' => OnItsWay(o)'
                        /\ previewTally'.halfway /\ previewState' # NoState => previewState'.req # latest'.presented
                        /\ previewTally'.halfway => \A o \in PreviewThread : Op(o)' = "show" => At(o)' \notin {"set", "emitted", "shown"}
                        /\ ~previewTally'.halfway /\ previewState' # NoState => Served' \/ Unserved'
      BY DEF Presented
    <2>1. /\ \A r, o \in PreviewThread : Asking(r) /\ Asking(o) => r = o
          /\ \A o \in PreviewThread : AskerFinds(o)
          /\ hideTask.late => previewState = NoState
          /\ Orderly
      BY <1>0, <1>a, <1>f0, <1>f1, <1>f2, <1>f3, <1>f4, <1>f5, <1>f6, <1>o DEF OneAsks, Orderly
    <2>2. /\ \A o \in PreviewThread : Op(o) = "show" /\ ~Doomed => OnItsWay(o)
          /\ previewTally.halfway /\ previewState # NoState => previewState.req # latest.presented
          /\ previewTally.halfway => \A o \in PreviewThread : Op(o) = "show" => At(o) \notin {"set", "emitted", "shown"}
          /\ ~previewTally.halfway /\ previewState # NoState => Served \/ Unserved
      BY <1>0, <2>1 DEF Presented
    <2>3. ASSUME NEW o \in PreviewThread, Op(o)' = "show", ~Doomed' PROVE OnItsWay(o)'
      <3>1. CASE o = t
        <4>1. At(o)' = "prepared" /\ previewCalls'[o].item = previewCalls[t].item
          BY <3>1, <1>f4, <1>f6
        <4>2. ASSUME ~previewCalls'[o].content
              PROVE  previewWindow'.visible /\ Shown(previewCalls[t].item)' /\ previewState' # NoState /\ previewState'.item = previewCalls[t].item
          <5>1. CanReuse(previewCalls[t]) /\ previewWindow.visible
            BY <3>1, <4>2, <1>f6
          <5>2. previewState # NoState /\ previewState.req = latest.presented /\ previewState.item = previewCalls[t].item
            BY <5>1 DEF CanReuse
          <5>3. ~previewTally.halfway
            BY <2>2, <5>2
          <5>4. ~Unserved
            BY <2>1, <1>f0 DEF Unserved, Asking, Op
          <5>5. Shown(previewState.item)
            BY <2>2, <5>2, <5>3, <5>4 DEF Served
          <5> QED  BY <5>1, <5>2, <5>5, <1>a, <1>f2, <1>f6 DEF Shown
        <4> QED  BY <3>1, <4>1, <4>2 DEF OnItsWay
      <3>2. CASE o # t
        BY <3>2, <1>b, <1>c, <1>0, <1>a, <1>f0, <1>f1, <1>f2, <1>f3, <1>f4, <1>f5, <1>f6, <1>o, <2>1, <2>2, <2>3 DEF Orderly, OnItsWay, AskerFinds, Numbered, Shown, Doomed, Asking, Op, OneWindows, Windowing
      <3> QED  BY <3>1, <3>2
    <2>4. previewTally'.halfway /\ previewState' # NoState => previewState'.req # latest'.presented
      BY <1>b, <1>c, <1>k, <1>n, <1>0, <1>a, <1>f0, <1>f1, <1>f2, <1>f3, <1>f4, <1>f5, <1>f6, <1>o, <2>1, <2>2 DEF Orderly, AskerFinds, Numbered, OnItsWay, NumbersGiven
    <2>5. ~previewTally'.halfway /\ previewState' # NoState => Served' \/ Unserved'
      BY <1>b, <1>c, <1>0, <1>a, <1>f0, <1>f1, <1>f2, <1>f3, <1>f4, <1>f5, <1>f6, <1>o, <2>1, <2>2 DEF Orderly, AskerFinds, Numbered, OnItsWay, Served, Unserved, Shown, NumbersGiven, Asking
    <2>6. previewTally'.halfway => \A o \in PreviewThread : Op(o)' = "show" => At(o)' \notin {"set", "emitted", "shown"}
      BY <1>0, <1>a, <1>f0, <1>f1, <1>f2, <1>f3, <1>f4, <1>f5, <1>f6, <1>o, <2>1, <2>2 DEF Orderly, Asking, Op
    <2> QED  BY <2>3, <2>4, <2>5, <2>6
  <1> QED  BY <1>s, <1>n, <1>w, <1>k, <1>t, <1>q DEF PreviewInv

LEMMA SetStateStays == ASSUME PreviewInv, NEW t \in PreviewThread, SetState(t) PROVE PreviewInv'
  <1>0. PreviewShape /\ NumbersGiven /\ OneWindows /\ OneAsks /\ TakenBack /\ Presented
    BY DEF PreviewInv
  <1>b. /\ latest.req \in Nat /\ latest.presented \in Nat /\ latest.session \in Nat /\ latest.req + 1 \in Nat /\ latest.session + 1 \in Nat
        /\ previewState.req \in Nat /\ hideTask.req \in Nat /\ hideTask.woken \in Nat /\ \A o \in PreviewThread : previewCalls[o] \in CallCell /\ previewCalls[o].req \in Nat
    BY <1>0 DEF PreviewShape, Latests, States, HideTasks, CallCell
  <1>c. NoCall \in CallCell /\ NoState \in States /\ NoCall.req = 0 /\ NoState.req = 0 /\ previewCalls[t] \in CallCell
    BY <1>0, CallsMove DEF PreviewShape
  <1>a. UNCHANGED <<clipWindow, latest, hideTask, previewWindow, panel>>
    BY DEF SetState, Step
  <1>previewState. previewState' \in States
    BY <1>0, <1>c DEF SetState, Step, CallCell, States
  <1>previewCalls. previewCalls' \in [PreviewThread -> CallCell]
    BY <1>0, <1>b, <1>c, CallsMove DEF SetState, Step, PreviewShape, CallCell
  <1>previewTally. previewTally' \in PreviewTallies
    BY <1>0, <1>b, <1>c, CallsMove DEF SetState, Step, PreviewShape, PreviewTallies
  <1>f0. Op(t) = "show" /\ At(t) = "prepared"
    BY <1>0 DEF SetState, Step, PreviewShape, Op, At, CallCell
  <1>f1. previewState'.req = previewCalls[t].req /\ previewState'.session = previewCalls[t].session /\ previewState'.item = previewCalls[t].item
    BY <1>0 DEF SetState, Step, PreviewShape, Op, At, CallCell, States
  <1>f2. previewTally'.overlapped = previewTally.overlapped /\ previewTally'.slipped = previewTally.slipped /\ ~previewTally'.halfway
    BY <1>0 DEF SetState, Step, PreviewShape, Op, At, PreviewTallies
  <1>f3. Op(t)' = Op(t) /\ At(t)' = "set"
    BY <1>0 DEF SetState, Step, PreviewShape, Op, At, CallCell
  <1>f4. previewCalls'[t].req = previewCalls[t].req /\ previewCalls'[t].session = previewCalls[t].session
    BY <1>0 DEF SetState, Step, PreviewShape, Op, At, CallCell
  <1>f5. previewCalls'[t].item = previewCalls[t].item /\ previewCalls'[t].content = previewCalls[t].content
    BY <1>0 DEF SetState, Step, PreviewShape, Op, At, CallCell
  <1>o. \A o \in PreviewThread : o # t => 
          /\ previewCalls'[o] = previewCalls[o] /\ Op(o)' = Op(o) /\ At(o)' = At(o)
          /\ (Windowing(o)' <=> Windowing(o)) /\ (Asking(o)' <=> Asking(o))
    BY <1>0 DEF SetState, Step, PreviewShape, Op, At, Windowing, Asking
  <1>s. PreviewShape'
    BY <1>0, <1>a, <1>previewState, <1>previewCalls, <1>previewTally DEF PreviewShape
  <1>n. NumbersGiven'
    BY <1>b, <1>c, <1>0, <1>a, <1>f0, <1>f1, <1>f2, <1>f3, <1>f4, <1>f5, <1>o DEF NumbersGiven
  <1>w. OneWindows'
    <2>1. ASSUME NEW o \in PreviewThread
          PROVE  (At(o) \in StepsOf(Op(o)))' /\ (Op(o)' = "none" => previewCalls'[o] = NoCall)
      <3>1. CASE o = t
        BY <3>1, <1>0, <1>a, <1>f0, <1>f1, <1>f2, <1>f3, <1>f4, <1>f5, <1>o DEF StepsOf, Numbered, OneWindows
      <3>2. CASE o # t
        BY <3>2, <1>0, <1>o DEF OneWindows
      <3> QED  BY <3>1, <3>2
    <2>2. \A r, o \in PreviewThread : Windowing(r)' /\ Windowing(o)' => r = o
      BY <1>0, <1>a, <1>f0, <1>f1, <1>f2, <1>f3, <1>f4, <1>f5, <1>o DEF OneWindows, Windowing
    <2>3. (\E o \in PreviewThread : Op(o)' = "hideClipboard") => clipWindow'.suppressed
      BY <1>0, <1>a, <1>f0, <1>f1, <1>f2, <1>f3, <1>f4, <1>f5, <1>o DEF OneWindows, Windowing
    <2>4. clipWindow'.suppressed => \/ ~clipWindow'.visible
                                   \/ \E o \in PreviewThread : Op(o)' = "hideClipboard" \/ (Op(o)' = "showClipboard" /\ At(o)' = "visible")
      BY <1>0, <1>a, <1>f0, <1>f1, <1>f2, <1>f3, <1>f4, <1>f5, <1>o DEF OneWindows, Windowing
    <2> QED  BY <2>1, <2>2, <2>3, <2>4 DEF OneWindows
  <1>k. OneAsks'
    <2> SUFFICES ASSUME Orderly'
                 PROVE  /\ \A r, o \in PreviewThread : Asking(r)' /\ Asking(o)' => r = o
                        /\ \A o \in PreviewThread : AskerFinds(o)'
                        /\ hideTask'.late => previewState' = NoState
                        /\ previewState' # NoState => previewState'.item \in Previewed
      BY DEF OneAsks
    <2>1. /\ \A r, o \in PreviewThread : Asking(r) /\ Asking(o) => r = o
          /\ \A o \in PreviewThread : AskerFinds(o)
          /\ hideTask.late => previewState = NoState
          /\ previewState # NoState => previewState.item \in Previewed
      BY <1>0, <1>a, <1>f0, <1>f1, <1>f2, <1>f3, <1>f4, <1>f5, <1>o DEF OneAsks, Orderly
    <2>2. \A r, o \in PreviewThread : Asking(r)' /\ Asking(o)' => r = o
      BY <1>0, <1>a, <1>f0, <1>f1, <1>f2, <1>f3, <1>f4, <1>f5, <1>o, <2>1 DEF Orderly, Asking, Op
    <2>3. ASSUME NEW o \in PreviewThread PROVE AskerFinds(o)'
      <3>1. CASE o = t
        BY <3>1, <1>b, <1>c, <1>0, <1>a, <1>f0, <1>f1, <1>f2, <1>f3, <1>f4, <1>f5, <1>o, <2>1 DEF AskerFinds, Doomed, Numbered, Orderly, SessionForShow, OneWindows, NumbersGiven, Windowing
      <3>2. CASE o # t
        BY <3>2, <1>b, <1>c, <1>0, <1>a, <1>f0, <1>f1, <1>f2, <1>f3, <1>f4, <1>f5, <1>o, <2>1 DEF AskerFinds, Doomed, Numbered, Orderly, Asking, Op, NumbersGiven
      <3> QED  BY <3>1, <3>2
    <2>4. hideTask'.late => previewState' = NoState
      BY <1>b, <1>c, <1>0, <1>a, <1>f0, <1>f1, <1>f2, <1>f3, <1>f4, <1>f5, <1>o, <2>1 DEF Orderly, NumbersGiven, AskerFinds, Numbered
    <2>5. previewState' # NoState => previewState'.item \in Previewed
      BY <1>b, <1>c, <1>0, <1>a, <1>f0, <1>f1, <1>f2, <1>f3, <1>f4, <1>f5, <1>o, <2>1 DEF Orderly, NumbersGiven, AskerFinds, Numbered
    <2> QED  BY <2>2, <2>3, <2>4, <2>5
  <1>t. TakenBack'
    <2> SUFFICES ASSUME Orderly', Leaving', previewWindow'.visible
                 PROVE  \/ WillHide'
                        \/ Closing' /\ \A o \in PreviewThread : Op(o)' = "show" => At(o)' = "shown"
      BY DEF TakenBack
    <2>1. /\ \A r, o \in PreviewThread : Asking(r) /\ Asking(o) => r = o
          /\ \A o \in PreviewThread : AskerFinds(o)
          /\ hideTask.late => previewState = NoState
          /\ Orderly
      BY <1>0, <1>a, <1>f0, <1>f1, <1>f2, <1>f3, <1>f4, <1>f5, <1>o DEF OneAsks, Orderly
    <2> QED  BY <1>0, <1>a, <1>f0, <1>f1, <1>f2, <1>f3, <1>f4, <1>f5, <1>o, <1>b, <1>c, <1>k, <1>w, <2>1 DEF TakenBack, Orderly, Leaving, WillHide, Closing, LastOne, NumbersGiven, OneWindows, Windowing
  <1>q. Presented'
    <2> SUFFICES ASSUME Orderly'
                 PROVE  /\ \A o \in PreviewThread : Op(o)' = "show" /\ ~Doomed' => OnItsWay(o)'
                        /\ previewTally'.halfway /\ previewState' # NoState => previewState'.req # latest'.presented
                        /\ previewTally'.halfway => \A o \in PreviewThread : Op(o)' = "show" => At(o)' \notin {"set", "emitted", "shown"}
                        /\ ~previewTally'.halfway /\ previewState' # NoState => Served' \/ Unserved'
      BY DEF Presented
    <2>1. /\ \A r, o \in PreviewThread : Asking(r) /\ Asking(o) => r = o
          /\ \A o \in PreviewThread : AskerFinds(o)
          /\ hideTask.late => previewState = NoState
          /\ Orderly
      BY <1>0, <1>a, <1>f0, <1>f1, <1>f2, <1>f3, <1>f4, <1>f5, <1>o DEF OneAsks, Orderly
    <2>2. /\ \A o \in PreviewThread : Op(o) = "show" /\ ~Doomed => OnItsWay(o)
          /\ previewTally.halfway /\ previewState # NoState => previewState.req # latest.presented
          /\ previewTally.halfway => \A o \in PreviewThread : Op(o) = "show" => At(o) \notin {"set", "emitted", "shown"}
          /\ ~previewTally.halfway /\ previewState # NoState => Served \/ Unserved
      BY <1>0, <2>1 DEF Presented
    <2>3. ASSUME NEW o \in PreviewThread, Op(o)' = "show", ~Doomed' PROVE OnItsWay(o)'
      <3>1. CASE o = t
        BY <3>1, <1>b, <1>c, <1>0, <1>a, <1>f0, <1>f1, <1>f2, <1>f3, <1>f4, <1>f5, <1>o, <2>1, <2>2, <2>3 DEF Orderly, OnItsWay, AskerFinds, Numbered, Shown, Doomed, CanReuse, NumbersGiven, OneWindows, Windowing
      <3>2. CASE o # t
        BY <3>2, <1>b, <1>c, <1>0, <1>a, <1>f0, <1>f1, <1>f2, <1>f3, <1>f4, <1>f5, <1>o, <2>1, <2>2, <2>3 DEF Orderly, OnItsWay, AskerFinds, Numbered, Shown, Doomed, Asking, Op, OneWindows, Windowing
      <3> QED  BY <3>1, <3>2
    <2>4. previewTally'.halfway /\ previewState' # NoState => previewState'.req # latest'.presented
      BY <1>b, <1>c, <1>k, <1>n, <1>0, <1>a, <1>f0, <1>f1, <1>f2, <1>f3, <1>f4, <1>f5, <1>o, <2>1, <2>2 DEF Orderly, AskerFinds, Numbered, OnItsWay, NumbersGiven
    <2>5. ~previewTally'.halfway /\ previewState' # NoState => Served' \/ Unserved'
      <3>1. Op(t)' = "show" /\ At(t)' = "set"
        BY <1>f0, <1>f3
      <3> QED  BY <3>1 DEF Unserved
    <2>6. previewTally'.halfway => \A o \in PreviewThread : Op(o)' = "show" => At(o)' \notin {"set", "emitted", "shown"}
      BY <1>0, <1>a, <1>f0, <1>f1, <1>f2, <1>f3, <1>f4, <1>f5, <1>o, <2>1, <2>2 DEF Orderly, Asking, Op
    <2> QED  BY <2>3, <2>4, <2>5, <2>6
  <1> QED  BY <1>s, <1>n, <1>w, <1>k, <1>t, <1>q DEF PreviewInv

LEMMA EmitStateStays == ASSUME PreviewInv, NEW t \in PreviewThread, EmitState(t) PROVE PreviewInv'
  <1>0. PreviewShape /\ NumbersGiven /\ OneWindows /\ OneAsks /\ TakenBack /\ Presented
    BY DEF PreviewInv
  <1>b. /\ latest.req \in Nat /\ latest.presented \in Nat /\ latest.session \in Nat /\ latest.req + 1 \in Nat /\ latest.session + 1 \in Nat
        /\ previewState.req \in Nat /\ hideTask.req \in Nat /\ hideTask.woken \in Nat /\ \A o \in PreviewThread : previewCalls[o] \in CallCell /\ previewCalls[o].req \in Nat
    BY <1>0 DEF PreviewShape, Latests, States, HideTasks, CallCell
  <1>c. NoCall \in CallCell /\ NoState \in States /\ NoCall.req = 0 /\ NoState.req = 0 /\ previewCalls[t] \in CallCell
    BY <1>0, CallsMove DEF PreviewShape
  <1>a. UNCHANGED <<clipWindow, latest, previewState, hideTask, panel, previewTally>>
    BY DEF EmitState, Step, EmitTo
  <1>previewWindow. previewWindow' \in PreviewWindows
    BY <1>0 DEF EmitState, Step, EmitTo, PreviewShape, PreviewWindows, CallCell
  <1>previewCalls. previewCalls' \in [PreviewThread -> CallCell]
    BY <1>0, <1>b, <1>c, CallsMove DEF EmitState, Step, EmitTo, PreviewShape, CallCell
  <1>f0. Op(t) = "show" /\ At(t) = "set"
    BY <1>0 DEF EmitState, Step, EmitTo, PreviewShape, Op, At, CallCell
  <1>f1. previewWindow'.here = previewWindow.here /\ previewWindow'.mounted = previewWindow.mounted /\ previewWindow'.visible = previewWindow.visible
    BY <1>0 DEF EmitState, Step, EmitTo, PreviewShape, Op, At, PreviewWindows
  <1>f2. previewWindow'.shows = IF previewCalls[t].content /\ previewWindow.mounted THEN previewCalls[t].item ELSE previewWindow.shows
    BY <1>0 DEF EmitState, Step, EmitTo, PreviewShape, Op, At, CallCell, PreviewWindows
  <1>f3. Op(t)' = Op(t) /\ At(t)' = "emitted"
    BY <1>0 DEF EmitState, Step, EmitTo, PreviewShape, Op, At, CallCell
  <1>f4. previewCalls'[t].req = previewCalls[t].req /\ previewCalls'[t].session = previewCalls[t].session
    BY <1>0 DEF EmitState, Step, EmitTo, PreviewShape, Op, At, CallCell
  <1>f5. previewCalls'[t].item = previewCalls[t].item /\ previewCalls'[t].content = previewCalls[t].content
    BY <1>0 DEF EmitState, Step, EmitTo, PreviewShape, Op, At, CallCell
  <1>o. \A o \in PreviewThread : o # t => 
          /\ previewCalls'[o] = previewCalls[o] /\ Op(o)' = Op(o) /\ At(o)' = At(o)
          /\ (Windowing(o)' <=> Windowing(o)) /\ (Asking(o)' <=> Asking(o))
    BY <1>0 DEF EmitState, Step, EmitTo, PreviewShape, Op, At, Windowing, Asking
  <1>s. PreviewShape'
    BY <1>0, <1>a, <1>previewWindow, <1>previewCalls DEF PreviewShape
  <1>n. NumbersGiven'
    BY <1>b, <1>c, <1>0, <1>a, <1>f0, <1>f1, <1>f2, <1>f3, <1>f4, <1>f5, <1>o DEF NumbersGiven
  <1>w. OneWindows'
    <2>1. ASSUME NEW o \in PreviewThread
          PROVE  (At(o) \in StepsOf(Op(o)))' /\ (Op(o)' = "none" => previewCalls'[o] = NoCall)
      <3>1. CASE o = t
        BY <3>1, <1>0, <1>a, <1>f0, <1>f1, <1>f2, <1>f3, <1>f4, <1>f5, <1>o DEF StepsOf, Numbered, OneWindows
      <3>2. CASE o # t
        BY <3>2, <1>0, <1>o DEF OneWindows
      <3> QED  BY <3>1, <3>2
    <2>2. \A r, o \in PreviewThread : Windowing(r)' /\ Windowing(o)' => r = o
      BY <1>0, <1>a, <1>f0, <1>f1, <1>f2, <1>f3, <1>f4, <1>f5, <1>o DEF OneWindows, Windowing
    <2>3. (\E o \in PreviewThread : Op(o)' = "hideClipboard") => clipWindow'.suppressed
      BY <1>0, <1>a, <1>f0, <1>f1, <1>f2, <1>f3, <1>f4, <1>f5, <1>o DEF OneWindows, Windowing
    <2>4. clipWindow'.suppressed => \/ ~clipWindow'.visible
                                   \/ \E o \in PreviewThread : Op(o)' = "hideClipboard" \/ (Op(o)' = "showClipboard" /\ At(o)' = "visible")
      BY <1>0, <1>a, <1>f0, <1>f1, <1>f2, <1>f3, <1>f4, <1>f5, <1>o DEF OneWindows, Windowing
    <2> QED  BY <2>1, <2>2, <2>3, <2>4 DEF OneWindows
  <1>k. OneAsks'
    <2> SUFFICES ASSUME Orderly'
                 PROVE  /\ \A r, o \in PreviewThread : Asking(r)' /\ Asking(o)' => r = o
                        /\ \A o \in PreviewThread : AskerFinds(o)'
                        /\ hideTask'.late => previewState' = NoState
                        /\ previewState' # NoState => previewState'.item \in Previewed
      BY DEF OneAsks
    <2>1. /\ \A r, o \in PreviewThread : Asking(r) /\ Asking(o) => r = o
          /\ \A o \in PreviewThread : AskerFinds(o)
          /\ hideTask.late => previewState = NoState
          /\ previewState # NoState => previewState.item \in Previewed
      BY <1>0, <1>a, <1>f0, <1>f1, <1>f2, <1>f3, <1>f4, <1>f5, <1>o DEF OneAsks, Orderly
    <2>2. \A r, o \in PreviewThread : Asking(r)' /\ Asking(o)' => r = o
      BY <1>0, <1>a, <1>f0, <1>f1, <1>f2, <1>f3, <1>f4, <1>f5, <1>o, <2>1 DEF Orderly, Asking, Op
    <2>3. ASSUME NEW o \in PreviewThread PROVE AskerFinds(o)'
      <3>1. CASE o = t
        BY <3>1, <1>b, <1>c, <1>0, <1>a, <1>f0, <1>f1, <1>f2, <1>f3, <1>f4, <1>f5, <1>o, <2>1 DEF AskerFinds, Doomed, Numbered, Orderly, SessionForShow, OneWindows, NumbersGiven, Windowing
      <3>2. CASE o # t
        BY <3>2, <1>b, <1>c, <1>0, <1>a, <1>f0, <1>f1, <1>f2, <1>f3, <1>f4, <1>f5, <1>o, <2>1 DEF AskerFinds, Doomed, Numbered, Orderly, Asking, Op, NumbersGiven
      <3> QED  BY <3>1, <3>2
    <2>4. hideTask'.late => previewState' = NoState
      BY <1>b, <1>c, <1>0, <1>a, <1>f0, <1>f1, <1>f2, <1>f3, <1>f4, <1>f5, <1>o, <2>1 DEF Orderly, NumbersGiven, AskerFinds, Numbered
    <2>5. previewState' # NoState => previewState'.item \in Previewed
      BY <1>b, <1>c, <1>0, <1>a, <1>f0, <1>f1, <1>f2, <1>f3, <1>f4, <1>f5, <1>o, <2>1 DEF Orderly, NumbersGiven, AskerFinds, Numbered
    <2> QED  BY <2>2, <2>3, <2>4, <2>5
  <1>t. TakenBack'
    <2> SUFFICES ASSUME Orderly', Leaving', previewWindow'.visible
                 PROVE  \/ WillHide'
                        \/ Closing' /\ \A o \in PreviewThread : Op(o)' = "show" => At(o)' = "shown"
      BY DEF TakenBack
    <2>1. /\ \A r, o \in PreviewThread : Asking(r) /\ Asking(o) => r = o
          /\ \A o \in PreviewThread : AskerFinds(o)
          /\ hideTask.late => previewState = NoState
          /\ Orderly
      BY <1>0, <1>a, <1>f0, <1>f1, <1>f2, <1>f3, <1>f4, <1>f5, <1>o DEF OneAsks, Orderly
    <2> QED  BY <1>0, <1>a, <1>f0, <1>f1, <1>f2, <1>f3, <1>f4, <1>f5, <1>o, <1>b, <1>c, <1>k, <1>w, <2>1 DEF TakenBack, Orderly, Leaving, WillHide, Closing, LastOne, NumbersGiven, OneWindows, Windowing
  <1>q. Presented'
    <2> SUFFICES ASSUME Orderly'
                 PROVE  /\ \A o \in PreviewThread : Op(o)' = "show" /\ ~Doomed' => OnItsWay(o)'
                        /\ previewTally'.halfway /\ previewState' # NoState => previewState'.req # latest'.presented
                        /\ previewTally'.halfway => \A o \in PreviewThread : Op(o)' = "show" => At(o)' \notin {"set", "emitted", "shown"}
                        /\ ~previewTally'.halfway /\ previewState' # NoState => Served' \/ Unserved'
      BY DEF Presented
    <2>1. /\ \A r, o \in PreviewThread : Asking(r) /\ Asking(o) => r = o
          /\ \A o \in PreviewThread : AskerFinds(o)
          /\ hideTask.late => previewState = NoState
          /\ Orderly
      BY <1>0, <1>a, <1>f0, <1>f1, <1>f2, <1>f3, <1>f4, <1>f5, <1>o DEF OneAsks, Orderly
    <2>2. /\ \A o \in PreviewThread : Op(o) = "show" /\ ~Doomed => OnItsWay(o)
          /\ previewTally.halfway /\ previewState # NoState => previewState.req # latest.presented
          /\ previewTally.halfway => \A o \in PreviewThread : Op(o) = "show" => At(o) \notin {"set", "emitted", "shown"}
          /\ ~previewTally.halfway /\ previewState # NoState => Served \/ Unserved
      BY <1>0, <2>1 DEF Presented
    <2>3. ASSUME NEW o \in PreviewThread, Op(o)' = "show", ~Doomed' PROVE OnItsWay(o)'
      <3>1. CASE o = t
        BY <3>1, <1>b, <1>c, <1>0, <1>a, <1>f0, <1>f1, <1>f2, <1>f3, <1>f4, <1>f5, <1>o, <2>1, <2>2, <2>3 DEF Orderly, OnItsWay, AskerFinds, Numbered, Shown, Doomed, CanReuse, NumbersGiven, OneWindows, Windowing
      <3>2. CASE o # t
        BY <3>2, <1>b, <1>c, <1>0, <1>a, <1>f0, <1>f1, <1>f2, <1>f3, <1>f4, <1>f5, <1>o, <2>1, <2>2, <2>3 DEF Orderly, OnItsWay, AskerFinds, Numbered, Shown, Doomed, Asking, Op, OneWindows, Windowing
      <3> QED  BY <3>1, <3>2
    <2>4. previewTally'.halfway /\ previewState' # NoState => previewState'.req # latest'.presented
      BY <1>b, <1>c, <1>k, <1>n, <1>0, <1>a, <1>f0, <1>f1, <1>f2, <1>f3, <1>f4, <1>f5, <1>o, <2>1, <2>2 DEF Orderly, AskerFinds, Numbered, OnItsWay, NumbersGiven
    <2>5. ~previewTally'.halfway /\ previewState' # NoState => Served' \/ Unserved'
      BY <1>b, <1>c, <1>0, <1>a, <1>f0, <1>f1, <1>f2, <1>f3, <1>f4, <1>f5, <1>o, <2>1, <2>2 DEF Orderly, AskerFinds, Numbered, OnItsWay, Served, Unserved, Shown, NumbersGiven, Asking
    <2>6. previewTally'.halfway => \A o \in PreviewThread : Op(o)' = "show" => At(o)' \notin {"set", "emitted", "shown"}
      BY <1>0, <1>a, <1>f0, <1>f1, <1>f2, <1>f3, <1>f4, <1>f5, <1>o, <2>1, <2>2 DEF Orderly, Asking, Op
    <2> QED  BY <2>3, <2>4, <2>5, <2>6
  <1> QED  BY <1>s, <1>n, <1>w, <1>k, <1>t, <1>q DEF PreviewInv

LEMMA ShowPreviewWindowStays == ASSUME PreviewInv, NEW t \in PreviewThread, ShowPreviewWindow(t) PROVE PreviewInv'
  <1>0. PreviewShape /\ NumbersGiven /\ OneWindows /\ OneAsks /\ TakenBack /\ Presented
    BY DEF PreviewInv
  <1>b. /\ latest.req \in Nat /\ latest.presented \in Nat /\ latest.session \in Nat /\ latest.req + 1 \in Nat /\ latest.session + 1 \in Nat
        /\ previewState.req \in Nat /\ hideTask.req \in Nat /\ hideTask.woken \in Nat /\ \A o \in PreviewThread : previewCalls[o] \in CallCell /\ previewCalls[o].req \in Nat
    BY <1>0 DEF PreviewShape, Latests, States, HideTasks, CallCell
  <1>c. NoCall \in CallCell /\ NoState \in States /\ NoCall.req = 0 /\ NoState.req = 0 /\ previewCalls[t] \in CallCell
    BY <1>0, CallsMove DEF PreviewShape
  <1>a. UNCHANGED <<clipWindow, latest, previewState, hideTask, panel, previewTally>>
    BY DEF ShowPreviewWindow, Step
  <1>previewWindow. previewWindow' \in PreviewWindows
    BY <1>0, <1>b, <1>c, CallsMove DEF ShowPreviewWindow, Step, PreviewShape, PreviewWindows
  <1>previewCalls. previewCalls' \in [PreviewThread -> CallCell]
    BY <1>0, <1>b, <1>c, CallsMove DEF ShowPreviewWindow, Step, PreviewShape, CallCell
  <1>f0. Op(t) = "show" /\ At(t) = "emitted"
    BY <1>0 DEF ShowPreviewWindow, Step, PreviewShape, Op, At, CallCell
  <1>f1. previewWindow.here /\ previewWindow'.here /\ previewWindow'.mounted = previewWindow.mounted /\ previewWindow'.visible /\ previewWindow'.shows = previewWindow.shows
    BY <1>0 DEF ShowPreviewWindow, Step, PreviewShape, Op, At, PreviewWindows
  <1>f2. Op(t)' = Op(t) /\ At(t)' = "shown"
    BY <1>0 DEF ShowPreviewWindow, Step, PreviewShape, Op, At, CallCell
  <1>f3. previewCalls'[t].req = previewCalls[t].req /\ previewCalls'[t].session = previewCalls[t].session
    BY <1>0 DEF ShowPreviewWindow, Step, PreviewShape, Op, At, CallCell
  <1>f4. previewCalls'[t].item = previewCalls[t].item /\ previewCalls'[t].content = previewCalls[t].content
    BY <1>0 DEF ShowPreviewWindow, Step, PreviewShape, Op, At, CallCell
  <1>o. \A o \in PreviewThread : o # t => 
          /\ previewCalls'[o] = previewCalls[o] /\ Op(o)' = Op(o) /\ At(o)' = At(o)
          /\ (Windowing(o)' <=> Windowing(o)) /\ (Asking(o)' <=> Asking(o))
    BY <1>0 DEF ShowPreviewWindow, Step, PreviewShape, Op, At, Windowing, Asking
  <1>s. PreviewShape'
    BY <1>0, <1>a, <1>previewWindow, <1>previewCalls DEF PreviewShape
  <1>n. NumbersGiven'
    BY <1>b, <1>c, <1>0, <1>a, <1>f0, <1>f1, <1>f2, <1>f3, <1>f4, <1>o DEF NumbersGiven
  <1>w. OneWindows'
    <2>1. ASSUME NEW o \in PreviewThread
          PROVE  (At(o) \in StepsOf(Op(o)))' /\ (Op(o)' = "none" => previewCalls'[o] = NoCall)
      <3>1. CASE o = t
        BY <3>1, <1>0, <1>a, <1>f0, <1>f1, <1>f2, <1>f3, <1>f4, <1>o DEF StepsOf, Numbered, OneWindows
      <3>2. CASE o # t
        BY <3>2, <1>0, <1>o DEF OneWindows
      <3> QED  BY <3>1, <3>2
    <2>2. \A r, o \in PreviewThread : Windowing(r)' /\ Windowing(o)' => r = o
      BY <1>0, <1>a, <1>f0, <1>f1, <1>f2, <1>f3, <1>f4, <1>o DEF OneWindows, Windowing
    <2>3. (\E o \in PreviewThread : Op(o)' = "hideClipboard") => clipWindow'.suppressed
      BY <1>0, <1>a, <1>f0, <1>f1, <1>f2, <1>f3, <1>f4, <1>o DEF OneWindows, Windowing
    <2>4. clipWindow'.suppressed => \/ ~clipWindow'.visible
                                   \/ \E o \in PreviewThread : Op(o)' = "hideClipboard" \/ (Op(o)' = "showClipboard" /\ At(o)' = "visible")
      BY <1>0, <1>a, <1>f0, <1>f1, <1>f2, <1>f3, <1>f4, <1>o DEF OneWindows, Windowing
    <2> QED  BY <2>1, <2>2, <2>3, <2>4 DEF OneWindows
  <1>k. OneAsks'
    <2> SUFFICES ASSUME Orderly'
                 PROVE  /\ \A r, o \in PreviewThread : Asking(r)' /\ Asking(o)' => r = o
                        /\ \A o \in PreviewThread : AskerFinds(o)'
                        /\ hideTask'.late => previewState' = NoState
                        /\ previewState' # NoState => previewState'.item \in Previewed
      BY DEF OneAsks
    <2>1. /\ \A r, o \in PreviewThread : Asking(r) /\ Asking(o) => r = o
          /\ \A o \in PreviewThread : AskerFinds(o)
          /\ hideTask.late => previewState = NoState
          /\ previewState # NoState => previewState.item \in Previewed
      BY <1>0, <1>a, <1>f0, <1>f1, <1>f2, <1>f3, <1>f4, <1>o DEF OneAsks, Orderly
    <2>2. \A r, o \in PreviewThread : Asking(r)' /\ Asking(o)' => r = o
      BY <1>0, <1>a, <1>f0, <1>f1, <1>f2, <1>f3, <1>f4, <1>o, <2>1 DEF Orderly, Asking, Op
    <2>3. ASSUME NEW o \in PreviewThread PROVE AskerFinds(o)'
      <3>1. CASE o = t
        BY <3>1, <1>b, <1>c, <1>0, <1>a, <1>f0, <1>f1, <1>f2, <1>f3, <1>f4, <1>o, <2>1 DEF AskerFinds, Doomed, Numbered, Orderly, SessionForShow, OneWindows, NumbersGiven, Windowing
      <3>2. CASE o # t
        BY <3>2, <1>b, <1>c, <1>0, <1>a, <1>f0, <1>f1, <1>f2, <1>f3, <1>f4, <1>o, <2>1 DEF AskerFinds, Doomed, Numbered, Orderly, Asking, Op, NumbersGiven
      <3> QED  BY <3>1, <3>2
    <2>4. hideTask'.late => previewState' = NoState
      BY <1>b, <1>c, <1>0, <1>a, <1>f0, <1>f1, <1>f2, <1>f3, <1>f4, <1>o, <2>1 DEF Orderly, NumbersGiven, AskerFinds, Numbered
    <2>5. previewState' # NoState => previewState'.item \in Previewed
      BY <1>b, <1>c, <1>0, <1>a, <1>f0, <1>f1, <1>f2, <1>f3, <1>f4, <1>o, <2>1 DEF Orderly, NumbersGiven, AskerFinds, Numbered
    <2> QED  BY <2>2, <2>3, <2>4, <2>5
  <1>t. TakenBack'
    <2> SUFFICES ASSUME Orderly', Leaving', previewWindow'.visible
                 PROVE  \/ WillHide'
                        \/ Closing' /\ \A o \in PreviewThread : Op(o)' = "show" => At(o)' = "shown"
      BY DEF TakenBack
    <2>1. /\ \A r, o \in PreviewThread : Asking(r) /\ Asking(o) => r = o
          /\ \A o \in PreviewThread : AskerFinds(o)
          /\ hideTask.late => previewState = NoState
          /\ Orderly
      BY <1>0, <1>a, <1>f0, <1>f1, <1>f2, <1>f3, <1>f4, <1>o DEF OneAsks, Orderly
    <2>2. Op(t)' = "show" /\ At(t)' = "shown"
      BY <1>f0, <1>f2
    <2>3. \A o \in PreviewThread : o # t => Op(o)' # "show"
      BY <2>1, <1>f0, <1>o DEF Asking, Op
    <2> QED  BY <2>2, <2>3 DEF Closing
  <1>q. Presented'
    <2> SUFFICES ASSUME Orderly'
                 PROVE  /\ \A o \in PreviewThread : Op(o)' = "show" /\ ~Doomed' => OnItsWay(o)'
                        /\ previewTally'.halfway /\ previewState' # NoState => previewState'.req # latest'.presented
                        /\ previewTally'.halfway => \A o \in PreviewThread : Op(o)' = "show" => At(o)' \notin {"set", "emitted", "shown"}
                        /\ ~previewTally'.halfway /\ previewState' # NoState => Served' \/ Unserved'
      BY DEF Presented
    <2>1. /\ \A r, o \in PreviewThread : Asking(r) /\ Asking(o) => r = o
          /\ \A o \in PreviewThread : AskerFinds(o)
          /\ hideTask.late => previewState = NoState
          /\ Orderly
      BY <1>0, <1>a, <1>f0, <1>f1, <1>f2, <1>f3, <1>f4, <1>o DEF OneAsks, Orderly
    <2>2. /\ \A o \in PreviewThread : Op(o) = "show" /\ ~Doomed => OnItsWay(o)
          /\ previewTally.halfway /\ previewState # NoState => previewState.req # latest.presented
          /\ previewTally.halfway => \A o \in PreviewThread : Op(o) = "show" => At(o) \notin {"set", "emitted", "shown"}
          /\ ~previewTally.halfway /\ previewState # NoState => Served \/ Unserved
      BY <1>0, <2>1 DEF Presented
    <2>3. ASSUME NEW o \in PreviewThread, Op(o)' = "show", ~Doomed' PROVE OnItsWay(o)'
      <3>1. CASE o = t
        BY <3>1, <1>b, <1>c, <1>0, <1>a, <1>f0, <1>f1, <1>f2, <1>f3, <1>f4, <1>o, <2>1, <2>2, <2>3 DEF Orderly, OnItsWay, AskerFinds, Numbered, Shown, Doomed, CanReuse, NumbersGiven, OneWindows, Windowing
      <3>2. CASE o # t
        BY <3>2, <1>b, <1>c, <1>0, <1>a, <1>f0, <1>f1, <1>f2, <1>f3, <1>f4, <1>o, <2>1, <2>2, <2>3 DEF Orderly, OnItsWay, AskerFinds, Numbered, Shown, Doomed, Asking, Op, OneWindows, Windowing
      <3> QED  BY <3>1, <3>2
    <2>4. previewTally'.halfway /\ previewState' # NoState => previewState'.req # latest'.presented
      BY <1>b, <1>c, <1>k, <1>n, <1>0, <1>a, <1>f0, <1>f1, <1>f2, <1>f3, <1>f4, <1>o, <2>1, <2>2 DEF Orderly, AskerFinds, Numbered, OnItsWay, NumbersGiven
    <2>5. ~previewTally'.halfway /\ previewState' # NoState => Served' \/ Unserved'
      BY <1>b, <1>c, <1>0, <1>a, <1>f0, <1>f1, <1>f2, <1>f3, <1>f4, <1>o, <2>1, <2>2 DEF Orderly, AskerFinds, Numbered, OnItsWay, Served, Unserved, Shown, NumbersGiven, Asking
    <2>6. previewTally'.halfway => \A o \in PreviewThread : Op(o)' = "show" => At(o)' \notin {"set", "emitted", "shown"}
      BY <1>0, <1>a, <1>f0, <1>f1, <1>f2, <1>f3, <1>f4, <1>o, <2>1, <2>2 DEF Orderly, Asking, Op
    <2> QED  BY <2>3, <2>4, <2>5, <2>6
  <1> QED  BY <1>s, <1>n, <1>w, <1>k, <1>t, <1>q DEF PreviewInv

LEMMA ShowFailsStays == ASSUME PreviewInv, NEW t \in PreviewThread, ShowFails(t) PROVE PreviewInv'
  <1>0. PreviewShape /\ NumbersGiven /\ OneWindows /\ OneAsks /\ TakenBack /\ Presented
    BY DEF PreviewInv
  <1>b. /\ latest.req \in Nat /\ latest.presented \in Nat /\ latest.session \in Nat /\ latest.req + 1 \in Nat /\ latest.session + 1 \in Nat
        /\ previewState.req \in Nat /\ hideTask.req \in Nat /\ hideTask.woken \in Nat /\ \A o \in PreviewThread : previewCalls[o] \in CallCell /\ previewCalls[o].req \in Nat
    BY <1>0 DEF PreviewShape, Latests, States, HideTasks, CallCell
  <1>c. NoCall \in CallCell /\ NoState \in States /\ NoCall.req = 0 /\ NoState.req = 0 /\ previewCalls[t] \in CallCell
    BY <1>0, CallsMove DEF PreviewShape
  <1>a. UNCHANGED <<clipWindow, latest, previewState, hideTask, previewWindow, panel>>
    BY DEF ShowFails
  <1>previewCalls. previewCalls' \in [PreviewThread -> CallCell]
    BY <1>0, <1>b, <1>c, CallsMove DEF ShowFails, PreviewShape, CallCell
  <1>previewTally. previewTally' \in PreviewTallies
    <2>1. previewTally \in PreviewTallies
      BY <1>0 DEF PreviewShape
    <2>2. (previewTally.halfway \/ previewCalls[t].at # "prepared") \in BOOLEAN
      OBVIOUS
    <2>3. \A k \in PreviewTallies, b \in BOOLEAN, n \in Nat : [k EXCEPT !.faults = n, !.halfway = b] \in PreviewTallies
      BY DEF PreviewTallies
    <2>4. previewTally.calls + 1 \in Nat /\ (IF previewWindow.here THEN previewTally.faults + 1 ELSE previewTally.faults) \in Nat
      BY <2>1 DEF PreviewTallies
    <2> QED  BY <2>1, <2>2, <2>3, <2>4 DEF ShowFails
  <1>f0. Op(t) = "show" /\ At(t) \in {"prepared", "set", "emitted"}
    BY <1>0 DEF ShowFails, PreviewShape, Op, At, CallCell
  <1>f1. previewTally'.overlapped = previewTally.overlapped /\ previewTally'.slipped = previewTally.slipped /\ (previewTally'.halfway <=> (previewTally.halfway \/ At(t) # "prepared"))
    BY <1>0 DEF ShowFails, PreviewShape, Op, At, PreviewTallies
  <1>f2. previewCalls'[t] = NoCall /\ Op(t)' = "none" /\ At(t)' = "idle"
    BY <1>0 DEF ShowFails, NoCall, PreviewShape, Op, At, CallCell
  <1>o. \A o \in PreviewThread : o # t => 
          /\ previewCalls'[o] = previewCalls[o] /\ Op(o)' = Op(o) /\ At(o)' = At(o)
          /\ (Windowing(o)' <=> Windowing(o)) /\ (Asking(o)' <=> Asking(o))
    BY <1>0 DEF ShowFails, PreviewShape, Op, At, Windowing, Asking
  <1>s. PreviewShape'
    BY <1>0, <1>a, <1>previewCalls, <1>previewTally DEF PreviewShape
  <1>n. NumbersGiven'
    BY <1>b, <1>c, <1>0, <1>a, <1>f0, <1>f1, <1>f2, <1>o DEF NumbersGiven
  <1>w. OneWindows'
    <2>1. ASSUME NEW o \in PreviewThread
          PROVE  (At(o) \in StepsOf(Op(o)))' /\ (Op(o)' = "none" => previewCalls'[o] = NoCall)
      <3>1. CASE o = t
        BY <3>1, <1>0, <1>a, <1>f0, <1>f1, <1>f2, <1>o DEF StepsOf, Numbered, OneWindows
      <3>2. CASE o # t
        BY <3>2, <1>0, <1>o DEF OneWindows
      <3> QED  BY <3>1, <3>2
    <2>2. \A r, o \in PreviewThread : Windowing(r)' /\ Windowing(o)' => r = o
      BY <1>0, <1>a, <1>f0, <1>f1, <1>f2, <1>o DEF OneWindows, Windowing
    <2>3. (\E o \in PreviewThread : Op(o)' = "hideClipboard") => clipWindow'.suppressed
      BY <1>0, <1>a, <1>f0, <1>f1, <1>f2, <1>o DEF OneWindows, Windowing
    <2>4. clipWindow'.suppressed => \/ ~clipWindow'.visible
                                   \/ \E o \in PreviewThread : Op(o)' = "hideClipboard" \/ (Op(o)' = "showClipboard" /\ At(o)' = "visible")
      BY <1>0, <1>a, <1>f0, <1>f1, <1>f2, <1>o DEF OneWindows, Windowing
    <2> QED  BY <2>1, <2>2, <2>3, <2>4 DEF OneWindows
  <1>k. OneAsks'
    <2> SUFFICES ASSUME Orderly'
                 PROVE  /\ \A r, o \in PreviewThread : Asking(r)' /\ Asking(o)' => r = o
                        /\ \A o \in PreviewThread : AskerFinds(o)'
                        /\ hideTask'.late => previewState' = NoState
                        /\ previewState' # NoState => previewState'.item \in Previewed
      BY DEF OneAsks
    <2>1. /\ \A r, o \in PreviewThread : Asking(r) /\ Asking(o) => r = o
          /\ \A o \in PreviewThread : AskerFinds(o)
          /\ hideTask.late => previewState = NoState
          /\ previewState # NoState => previewState.item \in Previewed
      BY <1>0, <1>a, <1>f0, <1>f1, <1>f2, <1>o DEF OneAsks, Orderly
    <2>2. \A r, o \in PreviewThread : Asking(r)' /\ Asking(o)' => r = o
      BY <1>0, <1>a, <1>f0, <1>f1, <1>f2, <1>o, <2>1 DEF Orderly, Asking, Op
    <2>3. ASSUME NEW o \in PreviewThread PROVE AskerFinds(o)'
      <3>1. CASE o = t
        BY <3>1, <1>b, <1>c, <1>0, <1>a, <1>f0, <1>f1, <1>f2, <1>o, <2>1 DEF AskerFinds, Doomed, Numbered, Orderly, SessionForShow, OneWindows, NumbersGiven, Windowing
      <3>2. CASE o # t
        BY <3>2, <1>b, <1>c, <1>0, <1>a, <1>f0, <1>f1, <1>f2, <1>o, <2>1 DEF AskerFinds, Doomed, Numbered, Orderly, Asking, Op, NumbersGiven
      <3> QED  BY <3>1, <3>2
    <2>4. hideTask'.late => previewState' = NoState
      BY <1>b, <1>c, <1>0, <1>a, <1>f0, <1>f1, <1>f2, <1>o, <2>1 DEF Orderly, NumbersGiven, AskerFinds, Numbered
    <2>5. previewState' # NoState => previewState'.item \in Previewed
      BY <1>b, <1>c, <1>0, <1>a, <1>f0, <1>f1, <1>f2, <1>o, <2>1 DEF Orderly, NumbersGiven, AskerFinds, Numbered
    <2> QED  BY <2>2, <2>3, <2>4, <2>5
  <1>t. TakenBack'
    <2> SUFFICES ASSUME Orderly', Leaving', previewWindow'.visible
                 PROVE  \/ WillHide'
                        \/ Closing' /\ \A o \in PreviewThread : Op(o)' = "show" => At(o)' = "shown"
      BY DEF TakenBack
    <2>1. /\ \A r, o \in PreviewThread : Asking(r) /\ Asking(o) => r = o
          /\ \A o \in PreviewThread : AskerFinds(o)
          /\ hideTask.late => previewState = NoState
          /\ Orderly
      BY <1>0, <1>a, <1>f0, <1>f1, <1>f2, <1>o DEF OneAsks, Orderly
    <2> QED  BY <1>0, <1>a, <1>f0, <1>f1, <1>f2, <1>o, <1>b, <1>c, <1>k, <1>w, <2>1 DEF TakenBack, Orderly, Leaving, WillHide, Closing, LastOne, NumbersGiven, OneWindows, Windowing
  <1>q. Presented'
    <2> SUFFICES ASSUME Orderly'
                 PROVE  /\ \A o \in PreviewThread : Op(o)' = "show" /\ ~Doomed' => OnItsWay(o)'
                        /\ previewTally'.halfway /\ previewState' # NoState => previewState'.req # latest'.presented
                        /\ previewTally'.halfway => \A o \in PreviewThread : Op(o)' = "show" => At(o)' \notin {"set", "emitted", "shown"}
                        /\ ~previewTally'.halfway /\ previewState' # NoState => Served' \/ Unserved'
      BY DEF Presented
    <2>1. /\ \A r, o \in PreviewThread : Asking(r) /\ Asking(o) => r = o
          /\ \A o \in PreviewThread : AskerFinds(o)
          /\ hideTask.late => previewState = NoState
          /\ Orderly
      BY <1>0, <1>a, <1>f0, <1>f1, <1>f2, <1>o DEF OneAsks, Orderly
    <2>2. /\ \A o \in PreviewThread : Op(o) = "show" /\ ~Doomed => OnItsWay(o)
          /\ previewTally.halfway /\ previewState # NoState => previewState.req # latest.presented
          /\ previewTally.halfway => \A o \in PreviewThread : Op(o) = "show" => At(o) \notin {"set", "emitted", "shown"}
          /\ ~previewTally.halfway /\ previewState # NoState => Served \/ Unserved
      BY <1>0, <2>1 DEF Presented
    <2>3. ASSUME NEW o \in PreviewThread, Op(o)' = "show", ~Doomed' PROVE OnItsWay(o)'
      <3>1. CASE o = t
        BY <3>1, <1>b, <1>c, <1>0, <1>a, <1>f0, <1>f1, <1>f2, <1>o, <2>1, <2>2, <2>3 DEF Orderly, OnItsWay, AskerFinds, Numbered, Shown, Doomed, CanReuse, NumbersGiven, OneWindows, Windowing
      <3>2. CASE o # t
        BY <3>2, <1>b, <1>c, <1>0, <1>a, <1>f0, <1>f1, <1>f2, <1>o, <2>1, <2>2, <2>3 DEF Orderly, OnItsWay, AskerFinds, Numbered, Shown, Doomed, Asking, Op, OneWindows, Windowing
      <3> QED  BY <3>1, <3>2
    <2>4. previewTally'.halfway /\ previewState' # NoState => previewState'.req # latest'.presented
      BY <1>b, <1>c, <1>k, <1>n, <1>0, <1>a, <1>f0, <1>f1, <1>f2, <1>o, <2>1, <2>2 DEF Orderly, AskerFinds, Numbered, OnItsWay, NumbersGiven
    <2>5. ~previewTally'.halfway /\ previewState' # NoState => Served' \/ Unserved'
      BY <1>b, <1>c, <1>0, <1>a, <1>f0, <1>f1, <1>f2, <1>o, <2>1, <2>2 DEF Orderly, AskerFinds, Numbered, OnItsWay, Served, Unserved, Shown, NumbersGiven, Asking
    <2>6. previewTally'.halfway => \A o \in PreviewThread : Op(o)' = "show" => At(o)' \notin {"set", "emitted", "shown"}
      BY <1>0, <1>a, <1>f0, <1>f1, <1>f2, <1>o, <2>1, <2>2 DEF Orderly, Asking, Op
    <2> QED  BY <2>3, <2>4, <2>5, <2>6
  <1> QED  BY <1>s, <1>n, <1>w, <1>k, <1>t, <1>q DEF PreviewInv

LEMMA ShowReturnsStays == ASSUME PreviewInv, NEW t \in PreviewThread, ShowReturns(t) PROVE PreviewInv'
  <1>0. PreviewShape /\ NumbersGiven /\ OneWindows /\ OneAsks /\ TakenBack /\ Presented
    BY DEF PreviewInv
  <1>b. /\ latest.req \in Nat /\ latest.presented \in Nat /\ latest.session \in Nat /\ latest.req + 1 \in Nat /\ latest.session + 1 \in Nat
        /\ previewState.req \in Nat /\ hideTask.req \in Nat /\ hideTask.woken \in Nat /\ \A o \in PreviewThread : previewCalls[o] \in CallCell /\ previewCalls[o].req \in Nat
    BY <1>0 DEF PreviewShape, Latests, States, HideTasks, CallCell
  <1>c. NoCall \in CallCell /\ NoState \in States /\ NoCall.req = 0 /\ NoState.req = 0 /\ previewCalls[t] \in CallCell
    BY <1>0, CallsMove DEF PreviewShape
  <1>a. UNCHANGED <<clipWindow, previewState, hideTask, previewWindow, panel>>
    BY DEF ShowReturns, NoCall
  <1>latest. latest' \in Latests
    BY <1>0, <1>b, <1>c, CallsMove DEF ShowReturns, NoCall, PreviewShape, Latests
  <1>previewCalls. previewCalls' \in [PreviewThread -> CallCell]
    BY <1>0, <1>b, <1>c, CallsMove DEF ShowReturns, NoCall, PreviewShape, CallCell
  <1>previewTally. previewTally' \in PreviewTallies
    BY <1>0, <1>b, <1>c, CallsMove DEF ShowReturns, NoCall, PreviewShape, PreviewTallies
  <1>f0. Op(t) = "show" /\ At(t) = "shown"
    BY <1>0 DEF ShowReturns, NoCall, PreviewShape, Op, At, CallCell
  <1>f1. latest'.req = latest.req /\ latest'.presented = previewCalls[t].req /\ latest'.session = latest.session /\ latest'.caller = latest.caller
    BY <1>0 DEF ShowReturns, NoCall, PreviewShape, Op, At, CallCell, Latests
  <1>f2. IF latest.caller = t /\ ~clipWindow.visible THEN Op(t)' = "close" /\ At(t)' = "begin" /\ previewCalls'[t].req = 0 ELSE previewCalls'[t] = NoCall /\ Op(t)' = "none" /\ At(t)' = "idle"
    BY <1>0 DEF ShowReturns, NoCall, PreviewShape, Op, At, CallCell
  <1>f3. previewTally'.overlapped = previewTally.overlapped /\ (previewTally'.slipped <=> (previewTally.slipped \/ (clipWindow.suppressed /\ clipWindow.visible))) /\ previewTally'.halfway = previewTally.halfway
    BY <1>0 DEF ShowReturns, NoCall, PreviewShape, Op, At, PreviewTallies
  <1>o. \A o \in PreviewThread : o # t => 
          /\ previewCalls'[o] = previewCalls[o] /\ Op(o)' = Op(o) /\ At(o)' = At(o)
          /\ (Windowing(o)' <=> Windowing(o)) /\ (Asking(o)' <=> Asking(o))
    BY <1>0 DEF ShowReturns, NoCall, PreviewShape, Op, At, Windowing, Asking
  <1>s. PreviewShape'
    BY <1>0, <1>a, <1>latest, <1>previewCalls, <1>previewTally DEF PreviewShape
  <1>n. NumbersGiven'
    BY <1>b, <1>c, <1>0, <1>a, <1>f0, <1>f1, <1>f2, <1>f3, <1>o DEF NumbersGiven
  <1>w. OneWindows'
    <2>1. ASSUME NEW o \in PreviewThread
          PROVE  (At(o) \in StepsOf(Op(o)))' /\ (Op(o)' = "none" => previewCalls'[o] = NoCall)
      <3>1. CASE o = t
        BY <3>1, <1>0, <1>a, <1>f0, <1>f1, <1>f2, <1>f3, <1>o DEF StepsOf, Numbered, OneWindows
      <3>2. CASE o # t
        BY <3>2, <1>0, <1>o DEF OneWindows
      <3> QED  BY <3>1, <3>2
    <2>2. \A r, o \in PreviewThread : Windowing(r)' /\ Windowing(o)' => r = o
      BY <1>0, <1>a, <1>f0, <1>f1, <1>f2, <1>f3, <1>o DEF OneWindows, Windowing
    <2>3. (\E o \in PreviewThread : Op(o)' = "hideClipboard") => clipWindow'.suppressed
      BY <1>0, <1>a, <1>f0, <1>f1, <1>f2, <1>f3, <1>o DEF OneWindows, Windowing
    <2>4. clipWindow'.suppressed => \/ ~clipWindow'.visible
                                   \/ \E o \in PreviewThread : Op(o)' = "hideClipboard" \/ (Op(o)' = "showClipboard" /\ At(o)' = "visible")
      BY <1>0, <1>a, <1>f0, <1>f1, <1>f2, <1>f3, <1>o DEF OneWindows, Windowing
    <2> QED  BY <2>1, <2>2, <2>3, <2>4 DEF OneWindows
  <1>k. OneAsks'
    <2> SUFFICES ASSUME Orderly'
                 PROVE  /\ \A r, o \in PreviewThread : Asking(r)' /\ Asking(o)' => r = o
                        /\ \A o \in PreviewThread : AskerFinds(o)'
                        /\ hideTask'.late => previewState' = NoState
                        /\ previewState' # NoState => previewState'.item \in Previewed
      BY DEF OneAsks
    <2>1. /\ \A r, o \in PreviewThread : Asking(r) /\ Asking(o) => r = o
          /\ \A o \in PreviewThread : AskerFinds(o)
          /\ hideTask.late => previewState = NoState
          /\ previewState # NoState => previewState.item \in Previewed
      BY <1>0, <1>a, <1>f0, <1>f1, <1>f2, <1>f3, <1>o DEF OneAsks, Orderly
    <2>2. \A r, o \in PreviewThread : Asking(r)' /\ Asking(o)' => r = o
      BY <1>0, <1>a, <1>f0, <1>f1, <1>f2, <1>f3, <1>o, <2>1 DEF Orderly, Asking, Op
    <2>3. ASSUME NEW o \in PreviewThread PROVE AskerFinds(o)'
      <3>1. CASE o = t
        BY <3>1, <1>b, <1>c, <1>0, <1>a, <1>f0, <1>f1, <1>f2, <1>f3, <1>o, <2>1 DEF AskerFinds, Doomed, Numbered, Orderly, SessionForShow, OneWindows, NumbersGiven, Windowing
      <3>2. CASE o # t
        BY <3>2, <1>b, <1>c, <1>0, <1>a, <1>f0, <1>f1, <1>f2, <1>f3, <1>o, <2>1 DEF AskerFinds, Doomed, Numbered, Orderly, Asking, Op, NumbersGiven
      <3> QED  BY <3>1, <3>2
    <2>4. hideTask'.late => previewState' = NoState
      BY <1>b, <1>c, <1>0, <1>a, <1>f0, <1>f1, <1>f2, <1>f3, <1>o, <2>1 DEF Orderly, NumbersGiven, AskerFinds, Numbered
    <2>5. previewState' # NoState => previewState'.item \in Previewed
      BY <1>b, <1>c, <1>0, <1>a, <1>f0, <1>f1, <1>f2, <1>f3, <1>o, <2>1 DEF Orderly, NumbersGiven, AskerFinds, Numbered
    <2> QED  BY <2>2, <2>3, <2>4, <2>5
  <1>t. TakenBack'
    <2> SUFFICES ASSUME Orderly', Leaving', previewWindow'.visible
                 PROVE  \/ WillHide'
                        \/ Closing' /\ \A o \in PreviewThread : Op(o)' = "show" => At(o)' = "shown"
      BY DEF TakenBack
    <2>1. /\ \A r, o \in PreviewThread : Asking(r) /\ Asking(o) => r = o
          /\ \A o \in PreviewThread : AskerFinds(o)
          /\ hideTask.late => previewState = NoState
          /\ Orderly
      BY <1>0, <1>a, <1>f0, <1>f1, <1>f2, <1>f3, <1>o DEF OneAsks, Orderly
    <2>2. latest.caller = t
      BY <1>f0, <2>1 DEF AskerFinds, Numbered
    <2>3. ~clipWindow.visible
      <3> SUFFICES ASSUME clipWindow.visible PROVE FALSE
        OBVIOUS
      <3>1. PICK o \in PreviewThread : Op(o)' = "hideClipboard" /\ At(o)' = "suppressed"
        BY <1>a DEF Leaving
      <3>2. Op(o) = "hideClipboard"
        BY <3>1, <1>f2, <1>o
      <3>3. clipWindow.suppressed
        BY <3>2, <1>0 DEF OneWindows
      <3> QED  BY <3>3, <1>f3 DEF Orderly
    <2>4. Op(t)' = "close" /\ At(t)' = "begin"
      BY <2>2, <2>3, <1>f2
    <2>5. \A o \in PreviewThread : Op(o)' # "show"
      BY <2>1, <2>4, <1>f0, <1>o DEF Asking, Op
    <2> QED  BY <2>4, <2>5 DEF Closing
  <1>q. Presented'
    <2> SUFFICES ASSUME Orderly'
                 PROVE  /\ \A o \in PreviewThread : Op(o)' = "show" /\ ~Doomed' => OnItsWay(o)'
                        /\ previewTally'.halfway /\ previewState' # NoState => previewState'.req # latest'.presented
                        /\ previewTally'.halfway => \A o \in PreviewThread : Op(o)' = "show" => At(o)' \notin {"set", "emitted", "shown"}
                        /\ ~previewTally'.halfway /\ previewState' # NoState => Served' \/ Unserved'
      BY DEF Presented
    <2>1. /\ \A r, o \in PreviewThread : Asking(r) /\ Asking(o) => r = o
          /\ \A o \in PreviewThread : AskerFinds(o)
          /\ hideTask.late => previewState = NoState
          /\ Orderly
      BY <1>0, <1>a, <1>f0, <1>f1, <1>f2, <1>f3, <1>o DEF OneAsks, Orderly
    <2>2. /\ \A o \in PreviewThread : Op(o) = "show" /\ ~Doomed => OnItsWay(o)
          /\ previewTally.halfway /\ previewState # NoState => previewState.req # latest.presented
          /\ previewTally.halfway => \A o \in PreviewThread : Op(o) = "show" => At(o) \notin {"set", "emitted", "shown"}
          /\ ~previewTally.halfway /\ previewState # NoState => Served \/ Unserved
      BY <1>0, <2>1 DEF Presented
    <2>3. ASSUME NEW o \in PreviewThread, Op(o)' = "show", ~Doomed' PROVE OnItsWay(o)'
      <3>1. CASE o = t
        BY <3>1, <1>b, <1>c, <1>0, <1>a, <1>f0, <1>f1, <1>f2, <1>f3, <1>o, <2>1, <2>2, <2>3 DEF Orderly, OnItsWay, AskerFinds, Numbered, Shown, Doomed, CanReuse, NumbersGiven, OneWindows, Windowing
      <3>2. CASE o # t
        BY <3>2, <1>b, <1>c, <1>0, <1>a, <1>f0, <1>f1, <1>f2, <1>f3, <1>o, <2>1, <2>2, <2>3 DEF Orderly, OnItsWay, AskerFinds, Numbered, Shown, Doomed, Asking, Op, OneWindows, Windowing
      <3> QED  BY <3>1, <3>2
    <2>4. previewTally'.halfway /\ previewState' # NoState => previewState'.req # latest'.presented
      BY <1>b, <1>c, <1>k, <1>n, <1>0, <1>a, <1>f0, <1>f1, <1>f2, <1>f3, <1>o, <2>1, <2>2 DEF Orderly, AskerFinds, Numbered, OnItsWay, NumbersGiven
    <2>5. ~previewTally'.halfway /\ previewState' # NoState => Served' \/ Unserved'
      <3> SUFFICES ASSUME previewState # NoState PROVE Served' \/ Unserved'
        BY <1>a
      <3>1. latest.caller = t /\ previewState.item = previewCalls[t].item
        BY <1>f0, <2>1 DEF AskerFinds, Numbered
      <3>2. CASE ~clipWindow.visible
        <4>1. Op(t)' = "close" /\ At(t)' = "begin"
          BY <3>1, <3>2, <1>f2
        <4> QED  BY <4>1 DEF Unserved
      <3>3. CASE clipWindow.visible
        <4>1. ~clipWindow.suppressed
          BY <3>3, <1>f3 DEF Orderly
        <4>2. OnItsWay(t)
          BY <1>f0, <2>2, <3>3, <4>1 DEF Doomed
        <4>3. previewWindow.visible /\ Shown(previewState.item)
          BY <1>f0, <3>1, <4>2 DEF OnItsWay
        <4>4. Op(t)' = "none"
          BY <3>3, <1>f2
        <4>5. ASSUME NEW o \in PreviewThread PROVE Op(o)' \notin {"close", "closeNow", "hideClipboard"}
          <5>1. CASE o = t
            BY <5>1, <4>4
          <5>2. CASE o # t
            <6>1. Op(o)' = Op(o) /\ Op(o) \notin {"close", "closeNow"}
              BY <5>2, <1>f0, <1>o, <2>1 DEF Asking, Op
            <6>2. Op(o) # "hideClipboard"
              BY <4>1, <1>0 DEF OneWindows
            <6> QED  BY <6>1, <6>2
          <5> QED  BY <5>1, <5>2
        <4> QED  BY <4>3, <4>5, <1>a DEF Served, Shown
      <3> QED  BY <3>2, <3>3
    <2>6. previewTally'.halfway => \A o \in PreviewThread : Op(o)' = "show" => At(o)' \notin {"set", "emitted", "shown"}
      BY <1>0, <1>a, <1>f0, <1>f1, <1>f2, <1>f3, <1>o, <2>1, <2>2 DEF Orderly, Asking, Op
    <2> QED  BY <2>3, <2>4, <2>5, <2>6
  <1> QED  BY <1>s, <1>n, <1>w, <1>k, <1>t, <1>q DEF PreviewInv

LEMMA NumberCloseStays == ASSUME PreviewInv, NEW t \in PreviewThread, NumberClose(t) PROVE PreviewInv'
  <1>0. PreviewShape /\ NumbersGiven /\ OneWindows /\ OneAsks /\ TakenBack /\ Presented
    BY DEF PreviewInv
  <1>b. /\ latest.req \in Nat /\ latest.presented \in Nat /\ latest.session \in Nat /\ latest.req + 1 \in Nat /\ latest.session + 1 \in Nat
        /\ previewState.req \in Nat /\ hideTask.req \in Nat /\ hideTask.woken \in Nat /\ \A o \in PreviewThread : previewCalls[o] \in CallCell /\ previewCalls[o].req \in Nat
    BY <1>0 DEF PreviewShape, Latests, States, HideTasks, CallCell
  <1>c. NoCall \in CallCell /\ NoState \in States /\ NoCall.req = 0 /\ NoState.req = 0 /\ previewCalls[t] \in CallCell
    BY <1>0, CallsMove DEF PreviewShape
  <1>a. UNCHANGED <<clipWindow, previewWindow, panel, previewTally>>
    BY DEF NumberClose, TakeRequestId, CancelTask
  <1>latest. latest' \in Latests
    BY <1>0, <1>b, <1>c, CallsMove DEF NumberClose, TakeRequestId, CancelTask, PreviewShape, Latests
  <1>previewState. previewState' \in States
    BY <1>0, <1>b, <1>c, CallsMove DEF NumberClose, TakeRequestId, CancelTask, PreviewShape, States, NoState
  <1>hideTask. hideTask' \in HideTasks
    BY <1>0, <1>b, <1>c, CallsMove DEF NumberClose, TakeRequestId, CancelTask, PreviewShape, HideTasks
  <1>previewCalls. previewCalls' \in [PreviewThread -> CallCell]
    BY <1>0, <1>b, <1>c, CallsMove DEF NumberClose, TakeRequestId, CancelTask, PreviewShape, CallCell
  <1>f0. Op(t) \in {"close", "closeNow", "hideClipboard"} /\ At(t) = "begin"
    BY <1>0 DEF NumberClose, TakeRequestId, CancelTask, PreviewShape, Op, At, CallCell
  <1>f1. latest'.req = latest.req + 1 /\ latest'.presented = latest.presented /\ latest'.session = latest.session /\ latest'.caller = latest.caller
    BY <1>0 DEF NumberClose, TakeRequestId, CancelTask, PreviewShape, Op, At, Latests
  <1>f2. hideTask'.req = 0 /\ hideTask'.woken = hideTask.woken /\ hideTask'.late = hideTask.late /\ previewState' = NoState
    BY <1>0 DEF NumberClose, TakeRequestId, CancelTask, PreviewShape, Op, At, States, HideTasks
  <1>f3. Op(t)' = Op(t) /\ At(t)' = "numbered"
    BY <1>0 DEF NumberClose, TakeRequestId, CancelTask, PreviewShape, Op, At, CallCell
  <1>f4. previewCalls'[t].req = latest.req + 1 /\ previewCalls'[t].session = previewCalls[t].session
    BY <1>0 DEF NumberClose, TakeRequestId, CancelTask, PreviewShape, Op, At, CallCell
  <1>f5. previewCalls'[t].item = previewCalls[t].item /\ previewCalls'[t].content = previewCalls[t].content
    BY <1>0 DEF NumberClose, TakeRequestId, CancelTask, PreviewShape, Op, At, CallCell
  <1>o. \A o \in PreviewThread : o # t => 
          /\ previewCalls'[o] = previewCalls[o] /\ Op(o)' = Op(o) /\ At(o)' = At(o)
          /\ (Windowing(o)' <=> Windowing(o)) /\ (Asking(o)' <=> Asking(o))
    BY <1>0 DEF NumberClose, TakeRequestId, CancelTask, PreviewShape, Op, At, Windowing, Asking
  <1>s. PreviewShape'
    BY <1>0, <1>a, <1>latest, <1>previewState, <1>hideTask, <1>previewCalls DEF PreviewShape
  <1>n. NumbersGiven'
    BY <1>b, <1>c, <1>0, <1>a, <1>f0, <1>f1, <1>f2, <1>f3, <1>f4, <1>f5, <1>o DEF NumbersGiven
  <1>w. OneWindows'
    <2>1. ASSUME NEW o \in PreviewThread
          PROVE  (At(o) \in StepsOf(Op(o)))' /\ (Op(o)' = "none" => previewCalls'[o] = NoCall)
      <3>1. CASE o = t
        BY <3>1, <1>0, <1>a, <1>f0, <1>f1, <1>f2, <1>f3, <1>f4, <1>f5, <1>o DEF StepsOf, Numbered, OneWindows
      <3>2. CASE o # t
        BY <3>2, <1>0, <1>o DEF OneWindows
      <3> QED  BY <3>1, <3>2
    <2>2. \A r, o \in PreviewThread : Windowing(r)' /\ Windowing(o)' => r = o
      BY <1>0, <1>a, <1>f0, <1>f1, <1>f2, <1>f3, <1>f4, <1>f5, <1>o DEF OneWindows, Windowing
    <2>3. (\E o \in PreviewThread : Op(o)' = "hideClipboard") => clipWindow'.suppressed
      BY <1>0, <1>a, <1>f0, <1>f1, <1>f2, <1>f3, <1>f4, <1>f5, <1>o DEF OneWindows, Windowing
    <2>4. clipWindow'.suppressed => \/ ~clipWindow'.visible
                                   \/ \E o \in PreviewThread : Op(o)' = "hideClipboard" \/ (Op(o)' = "showClipboard" /\ At(o)' = "visible")
      BY <1>0, <1>a, <1>f0, <1>f1, <1>f2, <1>f3, <1>f4, <1>f5, <1>o DEF OneWindows, Windowing
    <2> QED  BY <2>1, <2>2, <2>3, <2>4 DEF OneWindows
  <1>k. OneAsks'
    <2> SUFFICES ASSUME Orderly'
                 PROVE  /\ \A r, o \in PreviewThread : Asking(r)' /\ Asking(o)' => r = o
                        /\ \A o \in PreviewThread : AskerFinds(o)'
                        /\ hideTask'.late => previewState' = NoState
                        /\ previewState' # NoState => previewState'.item \in Previewed
      BY DEF OneAsks
    <2>1. /\ \A r, o \in PreviewThread : Asking(r) /\ Asking(o) => r = o
          /\ \A o \in PreviewThread : AskerFinds(o)
          /\ hideTask.late => previewState = NoState
          /\ previewState # NoState => previewState.item \in Previewed
      BY <1>0, <1>a, <1>f0, <1>f1, <1>f2, <1>f3, <1>f4, <1>f5, <1>o DEF OneAsks, Orderly
    <2>2. \A r, o \in PreviewThread : Asking(r)' /\ Asking(o)' => r = o
      BY <1>0, <1>a, <1>f0, <1>f1, <1>f2, <1>f3, <1>f4, <1>f5, <1>o, <2>1 DEF Orderly, Asking, Op
    <2>3. ASSUME NEW o \in PreviewThread PROVE AskerFinds(o)'
      <3>1. CASE o = t
        BY <3>1, <1>b, <1>c, <1>0, <1>a, <1>f0, <1>f1, <1>f2, <1>f3, <1>f4, <1>f5, <1>o, <2>1 DEF AskerFinds, Doomed, Numbered, Orderly, SessionForShow, OneWindows, NumbersGiven, Windowing
      <3>2. CASE o # t
        BY <3>2, <1>b, <1>c, <1>0, <1>a, <1>f0, <1>f1, <1>f2, <1>f3, <1>f4, <1>f5, <1>o, <2>1 DEF AskerFinds, Doomed, Numbered, Orderly, Asking, Op, NumbersGiven
      <3> QED  BY <3>1, <3>2
    <2>4. hideTask'.late => previewState' = NoState
      BY <1>b, <1>c, <1>0, <1>a, <1>f0, <1>f1, <1>f2, <1>f3, <1>f4, <1>f5, <1>o, <2>1 DEF Orderly, NumbersGiven, AskerFinds, Numbered
    <2>5. previewState' # NoState => previewState'.item \in Previewed
      BY <1>b, <1>c, <1>0, <1>a, <1>f0, <1>f1, <1>f2, <1>f3, <1>f4, <1>f5, <1>o, <2>1 DEF Orderly, NumbersGiven, AskerFinds, Numbered
    <2> QED  BY <2>2, <2>3, <2>4, <2>5
  <1>t. TakenBack'
    <2> SUFFICES ASSUME Orderly', Leaving', previewWindow'.visible
                 PROVE  \/ WillHide'
                        \/ Closing' /\ \A o \in PreviewThread : Op(o)' = "show" => At(o)' = "shown"
      BY DEF TakenBack
    <2>1. /\ \A r, o \in PreviewThread : Asking(r) /\ Asking(o) => r = o
          /\ \A o \in PreviewThread : AskerFinds(o)
          /\ hideTask.late => previewState = NoState
          /\ Orderly
      BY <1>0, <1>a, <1>f0, <1>f1, <1>f2, <1>f3, <1>f4, <1>f5, <1>o DEF OneAsks, Orderly
    <2> QED  BY <1>0, <1>a, <1>f0, <1>f1, <1>f2, <1>f3, <1>f4, <1>f5, <1>o, <1>b, <1>c, <1>k, <1>w, <2>1 DEF TakenBack, Orderly, Leaving, WillHide, Closing, LastOne, NumbersGiven, OneWindows, Windowing
  <1>q. Presented'
    <2> SUFFICES ASSUME Orderly'
                 PROVE  /\ \A o \in PreviewThread : Op(o)' = "show" /\ ~Doomed' => OnItsWay(o)'
                        /\ previewTally'.halfway /\ previewState' # NoState => previewState'.req # latest'.presented
                        /\ previewTally'.halfway => \A o \in PreviewThread : Op(o)' = "show" => At(o)' \notin {"set", "emitted", "shown"}
                        /\ ~previewTally'.halfway /\ previewState' # NoState => Served' \/ Unserved'
      BY DEF Presented
    <2>1. /\ \A r, o \in PreviewThread : Asking(r) /\ Asking(o) => r = o
          /\ \A o \in PreviewThread : AskerFinds(o)
          /\ hideTask.late => previewState = NoState
          /\ Orderly
      BY <1>0, <1>a, <1>f0, <1>f1, <1>f2, <1>f3, <1>f4, <1>f5, <1>o DEF OneAsks, Orderly
    <2>2. /\ \A o \in PreviewThread : Op(o) = "show" /\ ~Doomed => OnItsWay(o)
          /\ previewTally.halfway /\ previewState # NoState => previewState.req # latest.presented
          /\ previewTally.halfway => \A o \in PreviewThread : Op(o) = "show" => At(o) \notin {"set", "emitted", "shown"}
          /\ ~previewTally.halfway /\ previewState # NoState => Served \/ Unserved
      BY <1>0, <2>1 DEF Presented
    <2>3. ASSUME NEW o \in PreviewThread, Op(o)' = "show", ~Doomed' PROVE OnItsWay(o)'
      <3>1. CASE o = t
        BY <3>1, <1>b, <1>c, <1>0, <1>a, <1>f0, <1>f1, <1>f2, <1>f3, <1>f4, <1>f5, <1>o, <2>1, <2>2, <2>3 DEF Orderly, OnItsWay, AskerFinds, Numbered, Shown, Doomed, CanReuse, NumbersGiven, OneWindows, Windowing
      <3>2. CASE o # t
        BY <3>2, <1>b, <1>c, <1>0, <1>a, <1>f0, <1>f1, <1>f2, <1>f3, <1>f4, <1>f5, <1>o, <2>1, <2>2, <2>3 DEF Orderly, OnItsWay, AskerFinds, Numbered, Shown, Doomed, Asking, Op, OneWindows, Windowing
      <3> QED  BY <3>1, <3>2
    <2>4. previewTally'.halfway /\ previewState' # NoState => previewState'.req # latest'.presented
      BY <1>b, <1>c, <1>k, <1>n, <1>0, <1>a, <1>f0, <1>f1, <1>f2, <1>f3, <1>f4, <1>f5, <1>o, <2>1, <2>2 DEF Orderly, AskerFinds, Numbered, OnItsWay, NumbersGiven
    <2>5. ~previewTally'.halfway /\ previewState' # NoState => Served' \/ Unserved'
      BY <1>b, <1>c, <1>0, <1>a, <1>f0, <1>f1, <1>f2, <1>f3, <1>f4, <1>f5, <1>o, <2>1, <2>2 DEF Orderly, AskerFinds, Numbered, OnItsWay, Served, Unserved, Shown, NumbersGiven, Asking
    <2>6. previewTally'.halfway => \A o \in PreviewThread : Op(o)' = "show" => At(o)' \notin {"set", "emitted", "shown"}
      BY <1>0, <1>a, <1>f0, <1>f1, <1>f2, <1>f3, <1>f4, <1>f5, <1>o, <2>1, <2>2 DEF Orderly, Asking, Op
    <2> QED  BY <2>3, <2>4, <2>5, <2>6
  <1> QED  BY <1>s, <1>n, <1>w, <1>k, <1>t, <1>q DEF PreviewInv

LEMMA EmitCloseStays == ASSUME PreviewInv, NEW t \in PreviewThread, EmitClose(t) PROVE PreviewInv'
  <1>0. PreviewShape /\ NumbersGiven /\ OneWindows /\ OneAsks /\ TakenBack /\ Presented
    BY DEF PreviewInv
  <1>b. /\ latest.req \in Nat /\ latest.presented \in Nat /\ latest.session \in Nat /\ latest.req + 1 \in Nat /\ latest.session + 1 \in Nat
        /\ previewState.req \in Nat /\ hideTask.req \in Nat /\ hideTask.woken \in Nat /\ \A o \in PreviewThread : previewCalls[o] \in CallCell /\ previewCalls[o].req \in Nat
    BY <1>0 DEF PreviewShape, Latests, States, HideTasks, CallCell
  <1>c. NoCall \in CallCell /\ NoState \in States /\ NoCall.req = 0 /\ NoState.req = 0 /\ previewCalls[t] \in CallCell
    BY <1>0, CallsMove DEF PreviewShape
  <1>a. UNCHANGED <<clipWindow, latest, previewState, hideTask, panel, previewTally>>
    BY DEF EmitClose, EmitTo
  <1>previewWindow. previewWindow' \in PreviewWindows
    BY <1>0, <1>b, <1>c, CallsMove DEF EmitClose, EmitTo, PreviewShape, PreviewWindows
  <1>previewCalls. previewCalls' \in [PreviewThread -> CallCell]
    BY <1>0, <1>b, <1>c, CallsMove DEF EmitClose, EmitTo, PreviewShape, CallCell
  <1>f0. Op(t) \in {"close", "closeNow", "hideClipboard"} /\ At(t) = "numbered"
    BY <1>0 DEF EmitClose, EmitTo, PreviewShape, Op, At, CallCell
  <1>f1. previewWindow'.here = previewWindow.here /\ previewWindow'.mounted = previewWindow.mounted /\ previewWindow'.visible = previewWindow.visible
    BY <1>0 DEF EmitClose, EmitTo, PreviewShape, Op, At, PreviewWindows
  <1>f2. previewWindow'.shows = IF previewWindow.mounted THEN NoPreview ELSE previewWindow.shows
    BY <1>0 DEF EmitClose, EmitTo, PreviewShape, Op, At, PreviewWindows
  <1>f3. Op(t)' = Op(t) /\ At(t)' = "emitted"
    BY <1>0 DEF EmitClose, EmitTo, PreviewShape, Op, At, CallCell
  <1>f4. previewCalls'[t].req = previewCalls[t].req /\ previewCalls'[t].session = previewCalls[t].session
    BY <1>0 DEF EmitClose, EmitTo, PreviewShape, Op, At, CallCell
  <1>f5. previewCalls'[t].item = previewCalls[t].item /\ previewCalls'[t].content = previewCalls[t].content
    BY <1>0 DEF EmitClose, EmitTo, PreviewShape, Op, At, CallCell
  <1>o. \A o \in PreviewThread : o # t => 
          /\ previewCalls'[o] = previewCalls[o] /\ Op(o)' = Op(o) /\ At(o)' = At(o)
          /\ (Windowing(o)' <=> Windowing(o)) /\ (Asking(o)' <=> Asking(o))
    BY <1>0 DEF EmitClose, EmitTo, PreviewShape, Op, At, Windowing, Asking
  <1>s. PreviewShape'
    BY <1>0, <1>a, <1>previewWindow, <1>previewCalls DEF PreviewShape
  <1>n. NumbersGiven'
    BY <1>b, <1>c, <1>0, <1>a, <1>f0, <1>f1, <1>f2, <1>f3, <1>f4, <1>f5, <1>o DEF NumbersGiven
  <1>w. OneWindows'
    <2>1. ASSUME NEW o \in PreviewThread
          PROVE  (At(o) \in StepsOf(Op(o)))' /\ (Op(o)' = "none" => previewCalls'[o] = NoCall)
      <3>1. CASE o = t
        BY <3>1, <1>0, <1>a, <1>f0, <1>f1, <1>f2, <1>f3, <1>f4, <1>f5, <1>o DEF StepsOf, Numbered, OneWindows
      <3>2. CASE o # t
        BY <3>2, <1>0, <1>o DEF OneWindows
      <3> QED  BY <3>1, <3>2
    <2>2. \A r, o \in PreviewThread : Windowing(r)' /\ Windowing(o)' => r = o
      BY <1>0, <1>a, <1>f0, <1>f1, <1>f2, <1>f3, <1>f4, <1>f5, <1>o DEF OneWindows, Windowing
    <2>3. (\E o \in PreviewThread : Op(o)' = "hideClipboard") => clipWindow'.suppressed
      BY <1>0, <1>a, <1>f0, <1>f1, <1>f2, <1>f3, <1>f4, <1>f5, <1>o DEF OneWindows, Windowing
    <2>4. clipWindow'.suppressed => \/ ~clipWindow'.visible
                                   \/ \E o \in PreviewThread : Op(o)' = "hideClipboard" \/ (Op(o)' = "showClipboard" /\ At(o)' = "visible")
      BY <1>0, <1>a, <1>f0, <1>f1, <1>f2, <1>f3, <1>f4, <1>f5, <1>o DEF OneWindows, Windowing
    <2> QED  BY <2>1, <2>2, <2>3, <2>4 DEF OneWindows
  <1>k. OneAsks'
    <2> SUFFICES ASSUME Orderly'
                 PROVE  /\ \A r, o \in PreviewThread : Asking(r)' /\ Asking(o)' => r = o
                        /\ \A o \in PreviewThread : AskerFinds(o)'
                        /\ hideTask'.late => previewState' = NoState
                        /\ previewState' # NoState => previewState'.item \in Previewed
      BY DEF OneAsks
    <2>1. /\ \A r, o \in PreviewThread : Asking(r) /\ Asking(o) => r = o
          /\ \A o \in PreviewThread : AskerFinds(o)
          /\ hideTask.late => previewState = NoState
          /\ previewState # NoState => previewState.item \in Previewed
      BY <1>0, <1>a, <1>f0, <1>f1, <1>f2, <1>f3, <1>f4, <1>f5, <1>o DEF OneAsks, Orderly
    <2>2. \A r, o \in PreviewThread : Asking(r)' /\ Asking(o)' => r = o
      BY <1>0, <1>a, <1>f0, <1>f1, <1>f2, <1>f3, <1>f4, <1>f5, <1>o, <2>1 DEF Orderly, Asking, Op
    <2>3. ASSUME NEW o \in PreviewThread PROVE AskerFinds(o)'
      <3>1. CASE o = t
        BY <3>1, <1>b, <1>c, <1>0, <1>a, <1>f0, <1>f1, <1>f2, <1>f3, <1>f4, <1>f5, <1>o, <2>1 DEF AskerFinds, Doomed, Numbered, Orderly, SessionForShow, OneWindows, NumbersGiven, Windowing
      <3>2. CASE o # t
        BY <3>2, <1>b, <1>c, <1>0, <1>a, <1>f0, <1>f1, <1>f2, <1>f3, <1>f4, <1>f5, <1>o, <2>1 DEF AskerFinds, Doomed, Numbered, Orderly, Asking, Op, NumbersGiven
      <3> QED  BY <3>1, <3>2
    <2>4. hideTask'.late => previewState' = NoState
      BY <1>b, <1>c, <1>0, <1>a, <1>f0, <1>f1, <1>f2, <1>f3, <1>f4, <1>f5, <1>o, <2>1 DEF Orderly, NumbersGiven, AskerFinds, Numbered
    <2>5. previewState' # NoState => previewState'.item \in Previewed
      BY <1>b, <1>c, <1>0, <1>a, <1>f0, <1>f1, <1>f2, <1>f3, <1>f4, <1>f5, <1>o, <2>1 DEF Orderly, NumbersGiven, AskerFinds, Numbered
    <2> QED  BY <2>2, <2>3, <2>4, <2>5
  <1>t. TakenBack'
    <2> SUFFICES ASSUME Orderly', Leaving', previewWindow'.visible
                 PROVE  \/ WillHide'
                        \/ Closing' /\ \A o \in PreviewThread : Op(o)' = "show" => At(o)' = "shown"
      BY DEF TakenBack
    <2>1. /\ \A r, o \in PreviewThread : Asking(r) /\ Asking(o) => r = o
          /\ \A o \in PreviewThread : AskerFinds(o)
          /\ hideTask.late => previewState = NoState
          /\ Orderly
      BY <1>0, <1>a, <1>f0, <1>f1, <1>f2, <1>f3, <1>f4, <1>f5, <1>o DEF OneAsks, Orderly
    <2> QED  BY <1>0, <1>a, <1>f0, <1>f1, <1>f2, <1>f3, <1>f4, <1>f5, <1>o, <1>b, <1>c, <1>k, <1>w, <2>1 DEF TakenBack, Orderly, Leaving, WillHide, Closing, LastOne, NumbersGiven, OneWindows, Windowing
  <1>q. Presented'
    <2> SUFFICES ASSUME Orderly'
                 PROVE  /\ \A o \in PreviewThread : Op(o)' = "show" /\ ~Doomed' => OnItsWay(o)'
                        /\ previewTally'.halfway /\ previewState' # NoState => previewState'.req # latest'.presented
                        /\ previewTally'.halfway => \A o \in PreviewThread : Op(o)' = "show" => At(o)' \notin {"set", "emitted", "shown"}
                        /\ ~previewTally'.halfway /\ previewState' # NoState => Served' \/ Unserved'
      BY DEF Presented
    <2>1. /\ \A r, o \in PreviewThread : Asking(r) /\ Asking(o) => r = o
          /\ \A o \in PreviewThread : AskerFinds(o)
          /\ hideTask.late => previewState = NoState
          /\ Orderly
      BY <1>0, <1>a, <1>f0, <1>f1, <1>f2, <1>f3, <1>f4, <1>f5, <1>o DEF OneAsks, Orderly
    <2>2. /\ \A o \in PreviewThread : Op(o) = "show" /\ ~Doomed => OnItsWay(o)
          /\ previewTally.halfway /\ previewState # NoState => previewState.req # latest.presented
          /\ previewTally.halfway => \A o \in PreviewThread : Op(o) = "show" => At(o) \notin {"set", "emitted", "shown"}
          /\ ~previewTally.halfway /\ previewState # NoState => Served \/ Unserved
      BY <1>0, <2>1 DEF Presented
    <2>3. ASSUME NEW o \in PreviewThread, Op(o)' = "show", ~Doomed' PROVE OnItsWay(o)'
      <3>1. CASE o = t
        BY <3>1, <1>b, <1>c, <1>0, <1>a, <1>f0, <1>f1, <1>f2, <1>f3, <1>f4, <1>f5, <1>o, <2>1, <2>2, <2>3 DEF Orderly, OnItsWay, AskerFinds, Numbered, Shown, Doomed, CanReuse, NumbersGiven, OneWindows, Windowing
      <3>2. CASE o # t
        BY <3>2, <1>b, <1>c, <1>0, <1>a, <1>f0, <1>f1, <1>f2, <1>f3, <1>f4, <1>f5, <1>o, <2>1, <2>2, <2>3 DEF Orderly, OnItsWay, AskerFinds, Numbered, Shown, Doomed, Asking, Op, OneWindows, Windowing
      <3> QED  BY <3>1, <3>2
    <2>4. previewTally'.halfway /\ previewState' # NoState => previewState'.req # latest'.presented
      BY <1>b, <1>c, <1>k, <1>n, <1>0, <1>a, <1>f0, <1>f1, <1>f2, <1>f3, <1>f4, <1>f5, <1>o, <2>1, <2>2 DEF Orderly, AskerFinds, Numbered, OnItsWay, NumbersGiven
    <2>5. ~previewTally'.halfway /\ previewState' # NoState => Served' \/ Unserved'
      BY <1>b, <1>c, <1>0, <1>a, <1>f0, <1>f1, <1>f2, <1>f3, <1>f4, <1>f5, <1>o, <2>1, <2>2 DEF Orderly, AskerFinds, Numbered, OnItsWay, Served, Unserved, Shown, NumbersGiven, Asking
    <2>6. previewTally'.halfway => \A o \in PreviewThread : Op(o)' = "show" => At(o)' \notin {"set", "emitted", "shown"}
      BY <1>0, <1>a, <1>f0, <1>f1, <1>f2, <1>f3, <1>f4, <1>f5, <1>o, <2>1, <2>2 DEF Orderly, Asking, Op
    <2> QED  BY <2>3, <2>4, <2>5, <2>6
  <1> QED  BY <1>s, <1>n, <1>w, <1>k, <1>t, <1>q DEF PreviewInv

LEMMA ScheduleHideStays == ASSUME PreviewInv, NEW t \in PreviewThread, ScheduleHide(t) PROVE PreviewInv'
  <1>0. PreviewShape /\ NumbersGiven /\ OneWindows /\ OneAsks /\ TakenBack /\ Presented
    BY DEF PreviewInv
  <1>b. /\ latest.req \in Nat /\ latest.presented \in Nat /\ latest.session \in Nat /\ latest.req + 1 \in Nat /\ latest.session + 1 \in Nat
        /\ previewState.req \in Nat /\ hideTask.req \in Nat /\ hideTask.woken \in Nat /\ \A o \in PreviewThread : previewCalls[o] \in CallCell /\ previewCalls[o].req \in Nat
    BY <1>0 DEF PreviewShape, Latests, States, HideTasks, CallCell
  <1>c. NoCall \in CallCell /\ NoState \in States /\ NoCall.req = 0 /\ NoState.req = 0 /\ previewCalls[t] \in CallCell
    BY <1>0, CallsMove DEF PreviewShape
  <1>a. UNCHANGED <<clipWindow, latest, previewState, previewWindow, panel, previewTally>>
    BY DEF ScheduleHide
  <1>hideTask. hideTask' \in HideTasks
    BY <1>0, <1>b, <1>c, CallsMove DEF ScheduleHide, PreviewShape, HideTasks
  <1>previewCalls. previewCalls' \in [PreviewThread -> CallCell]
    BY <1>0, <1>b, <1>c, CallsMove DEF ScheduleHide, PreviewShape, CallCell
  <1>f0. Op(t) = "close" /\ At(t) = "emitted"
    BY <1>0 DEF ScheduleHide, PreviewShape, Op, At, CallCell
  <1>f1. hideTask'.req = (IF ~previewWindow.here \/ hideTask.req > previewCalls[t].req THEN hideTask.req ELSE previewCalls[t].req) /\ hideTask'.woken = hideTask.woken /\ hideTask'.late = hideTask.late
    BY <1>0 DEF ScheduleHide, PreviewShape, Op, At, CallCell, HideTasks
  <1>f2. previewCalls'[t] = NoCall /\ Op(t)' = "none" /\ At(t)' = "idle"
    BY <1>0 DEF ScheduleHide, NoCall, PreviewShape, Op, At, CallCell
  <1>o. \A o \in PreviewThread : o # t => 
          /\ previewCalls'[o] = previewCalls[o] /\ Op(o)' = Op(o) /\ At(o)' = At(o)
          /\ (Windowing(o)' <=> Windowing(o)) /\ (Asking(o)' <=> Asking(o))
    BY <1>0 DEF ScheduleHide, PreviewShape, Op, At, Windowing, Asking
  <1>s. PreviewShape'
    BY <1>0, <1>a, <1>hideTask, <1>previewCalls DEF PreviewShape
  <1>n. NumbersGiven'
    BY <1>b, <1>c, <1>0, <1>a, <1>f0, <1>f1, <1>f2, <1>o DEF NumbersGiven
  <1>w. OneWindows'
    <2>1. ASSUME NEW o \in PreviewThread
          PROVE  (At(o) \in StepsOf(Op(o)))' /\ (Op(o)' = "none" => previewCalls'[o] = NoCall)
      <3>1. CASE o = t
        BY <3>1, <1>0, <1>a, <1>f0, <1>f1, <1>f2, <1>o DEF StepsOf, Numbered, OneWindows
      <3>2. CASE o # t
        BY <3>2, <1>0, <1>o DEF OneWindows
      <3> QED  BY <3>1, <3>2
    <2>2. \A r, o \in PreviewThread : Windowing(r)' /\ Windowing(o)' => r = o
      BY <1>0, <1>a, <1>f0, <1>f1, <1>f2, <1>o DEF OneWindows, Windowing
    <2>3. (\E o \in PreviewThread : Op(o)' = "hideClipboard") => clipWindow'.suppressed
      BY <1>0, <1>a, <1>f0, <1>f1, <1>f2, <1>o DEF OneWindows, Windowing
    <2>4. clipWindow'.suppressed => \/ ~clipWindow'.visible
                                   \/ \E o \in PreviewThread : Op(o)' = "hideClipboard" \/ (Op(o)' = "showClipboard" /\ At(o)' = "visible")
      BY <1>0, <1>a, <1>f0, <1>f1, <1>f2, <1>o DEF OneWindows, Windowing
    <2> QED  BY <2>1, <2>2, <2>3, <2>4 DEF OneWindows
  <1>k. OneAsks'
    <2> SUFFICES ASSUME Orderly'
                 PROVE  /\ \A r, o \in PreviewThread : Asking(r)' /\ Asking(o)' => r = o
                        /\ \A o \in PreviewThread : AskerFinds(o)'
                        /\ hideTask'.late => previewState' = NoState
                        /\ previewState' # NoState => previewState'.item \in Previewed
      BY DEF OneAsks
    <2>1. /\ \A r, o \in PreviewThread : Asking(r) /\ Asking(o) => r = o
          /\ \A o \in PreviewThread : AskerFinds(o)
          /\ hideTask.late => previewState = NoState
          /\ previewState # NoState => previewState.item \in Previewed
      BY <1>0, <1>a, <1>f0, <1>f1, <1>f2, <1>o DEF OneAsks, Orderly
    <2>2. \A r, o \in PreviewThread : Asking(r)' /\ Asking(o)' => r = o
      BY <1>0, <1>a, <1>f0, <1>f1, <1>f2, <1>o, <2>1 DEF Orderly, Asking, Op
    <2>3. ASSUME NEW o \in PreviewThread PROVE AskerFinds(o)'
      <3>1. CASE o = t
        BY <3>1, <1>b, <1>c, <1>0, <1>a, <1>f0, <1>f1, <1>f2, <1>o, <2>1 DEF AskerFinds, Doomed, Numbered, Orderly, SessionForShow, OneWindows, NumbersGiven, Windowing
      <3>2. CASE o # t
        BY <3>2, <1>b, <1>c, <1>0, <1>a, <1>f0, <1>f1, <1>f2, <1>o, <2>1 DEF AskerFinds, Doomed, Numbered, Orderly, Asking, Op, NumbersGiven
      <3> QED  BY <3>1, <3>2
    <2>4. hideTask'.late => previewState' = NoState
      BY <1>b, <1>c, <1>0, <1>a, <1>f0, <1>f1, <1>f2, <1>o, <2>1 DEF Orderly, NumbersGiven, AskerFinds, Numbered
    <2>5. previewState' # NoState => previewState'.item \in Previewed
      BY <1>b, <1>c, <1>0, <1>a, <1>f0, <1>f1, <1>f2, <1>o, <2>1 DEF Orderly, NumbersGiven, AskerFinds, Numbered
    <2> QED  BY <2>2, <2>3, <2>4, <2>5
  <1>t. TakenBack'
    <2> SUFFICES ASSUME Orderly', Leaving', previewWindow'.visible
                 PROVE  \/ WillHide'
                        \/ Closing' /\ \A o \in PreviewThread : Op(o)' = "show" => At(o)' = "shown"
      BY DEF TakenBack
    <2>1. /\ \A r, o \in PreviewThread : Asking(r) /\ Asking(o) => r = o
          /\ \A o \in PreviewThread : AskerFinds(o)
          /\ hideTask.late => previewState = NoState
          /\ Orderly
      BY <1>0, <1>a, <1>f0, <1>f1, <1>f2, <1>o DEF OneAsks, Orderly
    <2> QED  BY <1>0, <1>a, <1>f0, <1>f1, <1>f2, <1>o, <1>b, <1>c, <1>k, <1>w, <2>1 DEF TakenBack, Orderly, Leaving, WillHide, Closing, LastOne, NumbersGiven, OneWindows, Windowing
  <1>q. Presented'
    <2> SUFFICES ASSUME Orderly'
                 PROVE  /\ \A o \in PreviewThread : Op(o)' = "show" /\ ~Doomed' => OnItsWay(o)'
                        /\ previewTally'.halfway /\ previewState' # NoState => previewState'.req # latest'.presented
                        /\ previewTally'.halfway => \A o \in PreviewThread : Op(o)' = "show" => At(o)' \notin {"set", "emitted", "shown"}
                        /\ ~previewTally'.halfway /\ previewState' # NoState => Served' \/ Unserved'
      BY DEF Presented
    <2>1. /\ \A r, o \in PreviewThread : Asking(r) /\ Asking(o) => r = o
          /\ \A o \in PreviewThread : AskerFinds(o)
          /\ hideTask.late => previewState = NoState
          /\ Orderly
      BY <1>0, <1>a, <1>f0, <1>f1, <1>f2, <1>o DEF OneAsks, Orderly
    <2>2. /\ \A o \in PreviewThread : Op(o) = "show" /\ ~Doomed => OnItsWay(o)
          /\ previewTally.halfway /\ previewState # NoState => previewState.req # latest.presented
          /\ previewTally.halfway => \A o \in PreviewThread : Op(o) = "show" => At(o) \notin {"set", "emitted", "shown"}
          /\ ~previewTally.halfway /\ previewState # NoState => Served \/ Unserved
      BY <1>0, <2>1 DEF Presented
    <2>3. ASSUME NEW o \in PreviewThread, Op(o)' = "show", ~Doomed' PROVE OnItsWay(o)'
      <3>1. CASE o = t
        BY <3>1, <1>b, <1>c, <1>0, <1>a, <1>f0, <1>f1, <1>f2, <1>o, <2>1, <2>2, <2>3 DEF Orderly, OnItsWay, AskerFinds, Numbered, Shown, Doomed, CanReuse, NumbersGiven, OneWindows, Windowing
      <3>2. CASE o # t
        BY <3>2, <1>b, <1>c, <1>0, <1>a, <1>f0, <1>f1, <1>f2, <1>o, <2>1, <2>2, <2>3 DEF Orderly, OnItsWay, AskerFinds, Numbered, Shown, Doomed, Asking, Op, OneWindows, Windowing
      <3> QED  BY <3>1, <3>2
    <2>4. previewTally'.halfway /\ previewState' # NoState => previewState'.req # latest'.presented
      BY <1>b, <1>c, <1>k, <1>n, <1>0, <1>a, <1>f0, <1>f1, <1>f2, <1>o, <2>1, <2>2 DEF Orderly, AskerFinds, Numbered, OnItsWay, NumbersGiven
    <2>5. ~previewTally'.halfway /\ previewState' # NoState => Served' \/ Unserved'
      BY <1>b, <1>c, <1>0, <1>a, <1>f0, <1>f1, <1>f2, <1>o, <2>1, <2>2 DEF Orderly, AskerFinds, Numbered, OnItsWay, Served, Unserved, Shown, NumbersGiven, Asking
    <2>6. previewTally'.halfway => \A o \in PreviewThread : Op(o)' = "show" => At(o)' \notin {"set", "emitted", "shown"}
      BY <1>0, <1>a, <1>f0, <1>f1, <1>f2, <1>o, <2>1, <2>2 DEF Orderly, Asking, Op
    <2> QED  BY <2>3, <2>4, <2>5, <2>6
  <1> QED  BY <1>s, <1>n, <1>w, <1>k, <1>t, <1>q DEF PreviewInv

LEMMA HideAtOnceStays == ASSUME PreviewInv, NEW t \in PreviewThread, HideAtOnce(t) PROVE PreviewInv'
  <1>0. PreviewShape /\ NumbersGiven /\ OneWindows /\ OneAsks /\ TakenBack /\ Presented
    BY DEF PreviewInv
  <1>b. /\ latest.req \in Nat /\ latest.presented \in Nat /\ latest.session \in Nat /\ latest.req + 1 \in Nat /\ latest.session + 1 \in Nat
        /\ previewState.req \in Nat /\ hideTask.req \in Nat /\ hideTask.woken \in Nat /\ \A o \in PreviewThread : previewCalls[o] \in CallCell /\ previewCalls[o].req \in Nat
    BY <1>0 DEF PreviewShape, Latests, States, HideTasks, CallCell
  <1>c. NoCall \in CallCell /\ NoState \in States /\ NoCall.req = 0 /\ NoState.req = 0 /\ previewCalls[t] \in CallCell
    BY <1>0, CallsMove DEF PreviewShape
  <1>a. UNCHANGED <<clipWindow, latest, previewState, hideTask, panel, previewTally>>
    BY DEF HideAtOnce
  <1>previewWindow. previewWindow' \in PreviewWindows
    BY <1>0, <1>b, <1>c, CallsMove DEF HideAtOnce, PreviewShape, PreviewWindows
  <1>previewCalls. previewCalls' \in [PreviewThread -> CallCell]
    BY <1>0, <1>b, <1>c, CallsMove DEF HideAtOnce, PreviewShape, CallCell
  <1>f0. Op(t) \in {"closeNow", "hideClipboard"} /\ At(t) = "emitted"
    BY <1>0 DEF HideAtOnce, PreviewShape, Op, At, CallCell
  <1>f1. previewWindow'.here = previewWindow.here /\ previewWindow'.mounted = previewWindow.mounted /\ ~previewWindow'.visible /\ previewWindow'.shows = previewWindow.shows
    BY <1>0 DEF HideAtOnce, PreviewShape, Op, At, PreviewWindows
  <1>f2. IF Op(t) = "closeNow" THEN previewCalls'[t] = NoCall /\ Op(t)' = "none" /\ At(t)' = "idle" ELSE Op(t)' = Op(t) /\ At(t)' = "suppressed" /\ previewCalls'[t].req = previewCalls[t].req
    BY <1>0 DEF HideAtOnce, NoCall, PreviewShape, Op, At, CallCell
  <1>o. \A o \in PreviewThread : o # t => 
          /\ previewCalls'[o] = previewCalls[o] /\ Op(o)' = Op(o) /\ At(o)' = At(o)
          /\ (Windowing(o)' <=> Windowing(o)) /\ (Asking(o)' <=> Asking(o))
    BY <1>0 DEF HideAtOnce, PreviewShape, Op, At, Windowing, Asking
  <1>s. PreviewShape'
    BY <1>0, <1>a, <1>previewWindow, <1>previewCalls DEF PreviewShape
  <1>n. NumbersGiven'
    BY <1>b, <1>c, <1>0, <1>a, <1>f0, <1>f1, <1>f2, <1>o DEF NumbersGiven
  <1>w. OneWindows'
    <2>1. ASSUME NEW o \in PreviewThread
          PROVE  (At(o) \in StepsOf(Op(o)))' /\ (Op(o)' = "none" => previewCalls'[o] = NoCall)
      <3>1. CASE o = t
        BY <3>1, <1>0, <1>a, <1>f0, <1>f1, <1>f2, <1>o DEF StepsOf, Numbered, OneWindows
      <3>2. CASE o # t
        BY <3>2, <1>0, <1>o DEF OneWindows
      <3> QED  BY <3>1, <3>2
    <2>2. \A r, o \in PreviewThread : Windowing(r)' /\ Windowing(o)' => r = o
      BY <1>0, <1>a, <1>f0, <1>f1, <1>f2, <1>o DEF OneWindows, Windowing
    <2>3. (\E o \in PreviewThread : Op(o)' = "hideClipboard") => clipWindow'.suppressed
      BY <1>0, <1>a, <1>f0, <1>f1, <1>f2, <1>o DEF OneWindows, Windowing
    <2>4. clipWindow'.suppressed => \/ ~clipWindow'.visible
                                   \/ \E o \in PreviewThread : Op(o)' = "hideClipboard" \/ (Op(o)' = "showClipboard" /\ At(o)' = "visible")
      BY <1>0, <1>a, <1>f0, <1>f1, <1>f2, <1>o DEF OneWindows, Windowing
    <2> QED  BY <2>1, <2>2, <2>3, <2>4 DEF OneWindows
  <1>k. OneAsks'
    <2> SUFFICES ASSUME Orderly'
                 PROVE  /\ \A r, o \in PreviewThread : Asking(r)' /\ Asking(o)' => r = o
                        /\ \A o \in PreviewThread : AskerFinds(o)'
                        /\ hideTask'.late => previewState' = NoState
                        /\ previewState' # NoState => previewState'.item \in Previewed
      BY DEF OneAsks
    <2>1. /\ \A r, o \in PreviewThread : Asking(r) /\ Asking(o) => r = o
          /\ \A o \in PreviewThread : AskerFinds(o)
          /\ hideTask.late => previewState = NoState
          /\ previewState # NoState => previewState.item \in Previewed
      BY <1>0, <1>a, <1>f0, <1>f1, <1>f2, <1>o DEF OneAsks, Orderly
    <2>2. \A r, o \in PreviewThread : Asking(r)' /\ Asking(o)' => r = o
      BY <1>0, <1>a, <1>f0, <1>f1, <1>f2, <1>o, <2>1 DEF Orderly, Asking, Op
    <2>3. ASSUME NEW o \in PreviewThread PROVE AskerFinds(o)'
      <3>1. CASE o = t
        BY <3>1, <1>b, <1>c, <1>0, <1>a, <1>f0, <1>f1, <1>f2, <1>o, <2>1 DEF AskerFinds, Doomed, Numbered, Orderly, SessionForShow, OneWindows, NumbersGiven, Windowing
      <3>2. CASE o # t
        BY <3>2, <1>b, <1>c, <1>0, <1>a, <1>f0, <1>f1, <1>f2, <1>o, <2>1 DEF AskerFinds, Doomed, Numbered, Orderly, Asking, Op, NumbersGiven
      <3> QED  BY <3>1, <3>2
    <2>4. hideTask'.late => previewState' = NoState
      BY <1>b, <1>c, <1>0, <1>a, <1>f0, <1>f1, <1>f2, <1>o, <2>1 DEF Orderly, NumbersGiven, AskerFinds, Numbered
    <2>5. previewState' # NoState => previewState'.item \in Previewed
      BY <1>b, <1>c, <1>0, <1>a, <1>f0, <1>f1, <1>f2, <1>o, <2>1 DEF Orderly, NumbersGiven, AskerFinds, Numbered
    <2> QED  BY <2>2, <2>3, <2>4, <2>5
  <1>t. TakenBack'
    <2> SUFFICES ASSUME Orderly', Leaving', previewWindow'.visible
                 PROVE  \/ WillHide'
                        \/ Closing' /\ \A o \in PreviewThread : Op(o)' = "show" => At(o)' = "shown"
      BY DEF TakenBack
    <2>1. /\ \A r, o \in PreviewThread : Asking(r) /\ Asking(o) => r = o
          /\ \A o \in PreviewThread : AskerFinds(o)
          /\ hideTask.late => previewState = NoState
          /\ Orderly
      BY <1>0, <1>a, <1>f0, <1>f1, <1>f2, <1>o DEF OneAsks, Orderly
    <2> QED  BY <1>0, <1>a, <1>f0, <1>f1, <1>f2, <1>o, <1>b, <1>c, <1>k, <1>w, <2>1 DEF TakenBack, Orderly, Leaving, WillHide, Closing, LastOne, NumbersGiven, OneWindows, Windowing
  <1>q. Presented'
    <2> SUFFICES ASSUME Orderly'
                 PROVE  /\ \A o \in PreviewThread : Op(o)' = "show" /\ ~Doomed' => OnItsWay(o)'
                        /\ previewTally'.halfway /\ previewState' # NoState => previewState'.req # latest'.presented
                        /\ previewTally'.halfway => \A o \in PreviewThread : Op(o)' = "show" => At(o)' \notin {"set", "emitted", "shown"}
                        /\ ~previewTally'.halfway /\ previewState' # NoState => Served' \/ Unserved'
      BY DEF Presented
    <2>1. /\ \A r, o \in PreviewThread : Asking(r) /\ Asking(o) => r = o
          /\ \A o \in PreviewThread : AskerFinds(o)
          /\ hideTask.late => previewState = NoState
          /\ Orderly
      BY <1>0, <1>a, <1>f0, <1>f1, <1>f2, <1>o DEF OneAsks, Orderly
    <2>2. /\ \A o \in PreviewThread : Op(o) = "show" /\ ~Doomed => OnItsWay(o)
          /\ previewTally.halfway /\ previewState # NoState => previewState.req # latest.presented
          /\ previewTally.halfway => \A o \in PreviewThread : Op(o) = "show" => At(o) \notin {"set", "emitted", "shown"}
          /\ ~previewTally.halfway /\ previewState # NoState => Served \/ Unserved
      BY <1>0, <2>1 DEF Presented
    <2>3. ASSUME NEW o \in PreviewThread, Op(o)' = "show", ~Doomed' PROVE OnItsWay(o)'
      <3>1. CASE o = t
        BY <3>1, <1>b, <1>c, <1>0, <1>a, <1>f0, <1>f1, <1>f2, <1>o, <2>1, <2>2, <2>3 DEF Orderly, OnItsWay, AskerFinds, Numbered, Shown, Doomed, CanReuse, NumbersGiven, OneWindows, Windowing
      <3>2. CASE o # t
        BY <3>2, <1>b, <1>c, <1>0, <1>a, <1>f0, <1>f1, <1>f2, <1>o, <2>1, <2>2, <2>3 DEF Orderly, OnItsWay, AskerFinds, Numbered, Shown, Doomed, Asking, Op, OneWindows, Windowing
      <3> QED  BY <3>1, <3>2
    <2>4. previewTally'.halfway /\ previewState' # NoState => previewState'.req # latest'.presented
      BY <1>b, <1>c, <1>k, <1>n, <1>0, <1>a, <1>f0, <1>f1, <1>f2, <1>o, <2>1, <2>2 DEF Orderly, AskerFinds, Numbered, OnItsWay, NumbersGiven
    <2>5. ~previewTally'.halfway /\ previewState' # NoState => Served' \/ Unserved'
      BY <1>b, <1>c, <1>0, <1>a, <1>f0, <1>f1, <1>f2, <1>o, <2>1, <2>2 DEF Orderly, AskerFinds, Numbered, OnItsWay, Served, Unserved, Shown, NumbersGiven, Asking
    <2>6. previewTally'.halfway => \A o \in PreviewThread : Op(o)' = "show" => At(o)' \notin {"set", "emitted", "shown"}
      BY <1>0, <1>a, <1>f0, <1>f1, <1>f2, <1>o, <2>1, <2>2 DEF Orderly, Asking, Op
    <2> QED  BY <2>3, <2>4, <2>5, <2>6
  <1> QED  BY <1>s, <1>n, <1>w, <1>k, <1>t, <1>q DEF PreviewInv

LEMMA HideClipboardStays == ASSUME PreviewInv, NEW t \in PreviewThread, HideClipboard(t) PROVE PreviewInv'
  <1>0. PreviewShape /\ NumbersGiven /\ OneWindows /\ OneAsks /\ TakenBack /\ Presented
    BY DEF PreviewInv
  <1>b. /\ latest.req \in Nat /\ latest.presented \in Nat /\ latest.session \in Nat /\ latest.req + 1 \in Nat /\ latest.session + 1 \in Nat
        /\ previewState.req \in Nat /\ hideTask.req \in Nat /\ hideTask.woken \in Nat /\ \A o \in PreviewThread : previewCalls[o] \in CallCell /\ previewCalls[o].req \in Nat
    BY <1>0 DEF PreviewShape, Latests, States, HideTasks, CallCell
  <1>c. NoCall \in CallCell /\ NoState \in States /\ NoCall.req = 0 /\ NoState.req = 0 /\ previewCalls[t] \in CallCell
    BY <1>0, CallsMove DEF PreviewShape
  <1>a. UNCHANGED <<latest, previewState, hideTask, previewWindow, panel, previewTally>>
    BY DEF HideClipboard
  <1>clipWindow. clipWindow' \in ClipWindows
    BY <1>0, <1>b, <1>c, CallsMove DEF HideClipboard, PreviewShape, ClipWindows
  <1>previewCalls. previewCalls' \in [PreviewThread -> CallCell]
    BY <1>0, <1>b, <1>c, CallsMove DEF HideClipboard, PreviewShape, CallCell
  <1>f0. Op(t) = "hideClipboard" /\ At(t) = "suppressed"
    BY <1>0 DEF HideClipboard, PreviewShape, Op, At, CallCell
  <1>f1. ~clipWindow'.visible /\ clipWindow'.suppressed = clipWindow.suppressed
    BY <1>0 DEF HideClipboard, PreviewShape, Op, At, ClipWindows
  <1>f2. previewCalls'[t] = NoCall /\ Op(t)' = "none" /\ At(t)' = "idle"
    BY <1>0 DEF HideClipboard, NoCall, PreviewShape, Op, At, CallCell
  <1>o. \A o \in PreviewThread : o # t => 
          /\ previewCalls'[o] = previewCalls[o] /\ Op(o)' = Op(o) /\ At(o)' = At(o)
          /\ (Windowing(o)' <=> Windowing(o)) /\ (Asking(o)' <=> Asking(o))
    BY <1>0 DEF HideClipboard, PreviewShape, Op, At, Windowing, Asking
  <1>s. PreviewShape'
    BY <1>0, <1>a, <1>clipWindow, <1>previewCalls DEF PreviewShape
  <1>n. NumbersGiven'
    BY <1>b, <1>c, <1>0, <1>a, <1>f0, <1>f1, <1>f2, <1>o DEF NumbersGiven
  <1>w. OneWindows'
    <2>1. ASSUME NEW o \in PreviewThread
          PROVE  (At(o) \in StepsOf(Op(o)))' /\ (Op(o)' = "none" => previewCalls'[o] = NoCall)
      <3>1. CASE o = t
        BY <3>1, <1>0, <1>a, <1>f0, <1>f1, <1>f2, <1>o DEF StepsOf, Numbered, OneWindows
      <3>2. CASE o # t
        BY <3>2, <1>0, <1>o DEF OneWindows
      <3> QED  BY <3>1, <3>2
    <2>2. \A r, o \in PreviewThread : Windowing(r)' /\ Windowing(o)' => r = o
      BY <1>0, <1>a, <1>f0, <1>f1, <1>f2, <1>o DEF OneWindows, Windowing
    <2>3. (\E o \in PreviewThread : Op(o)' = "hideClipboard") => clipWindow'.suppressed
      BY <1>0, <1>a, <1>f0, <1>f1, <1>f2, <1>o DEF OneWindows, Windowing
    <2>4. clipWindow'.suppressed => \/ ~clipWindow'.visible
                                   \/ \E o \in PreviewThread : Op(o)' = "hideClipboard" \/ (Op(o)' = "showClipboard" /\ At(o)' = "visible")
      BY <1>0, <1>a, <1>f0, <1>f1, <1>f2, <1>o DEF OneWindows, Windowing
    <2> QED  BY <2>1, <2>2, <2>3, <2>4 DEF OneWindows
  <1>k. OneAsks'
    <2> SUFFICES ASSUME Orderly'
                 PROVE  /\ \A r, o \in PreviewThread : Asking(r)' /\ Asking(o)' => r = o
                        /\ \A o \in PreviewThread : AskerFinds(o)'
                        /\ hideTask'.late => previewState' = NoState
                        /\ previewState' # NoState => previewState'.item \in Previewed
      BY DEF OneAsks
    <2>1. /\ \A r, o \in PreviewThread : Asking(r) /\ Asking(o) => r = o
          /\ \A o \in PreviewThread : AskerFinds(o)
          /\ hideTask.late => previewState = NoState
          /\ previewState # NoState => previewState.item \in Previewed
      BY <1>0, <1>a, <1>f0, <1>f1, <1>f2, <1>o DEF OneAsks, Orderly
    <2>2. \A r, o \in PreviewThread : Asking(r)' /\ Asking(o)' => r = o
      BY <1>0, <1>a, <1>f0, <1>f1, <1>f2, <1>o, <2>1 DEF Orderly, Asking, Op
    <2>3. ASSUME NEW o \in PreviewThread PROVE AskerFinds(o)'
      <3>1. CASE o = t
        BY <3>1, <1>b, <1>c, <1>0, <1>a, <1>f0, <1>f1, <1>f2, <1>o, <2>1 DEF AskerFinds, Doomed, Numbered, Orderly, SessionForShow, OneWindows, NumbersGiven, Windowing
      <3>2. CASE o # t
        <4>1. Op(t)' = "none" /\ Op(t) = "hideClipboard"
          BY <1>f0, <1>f2
        <4>2. \A p \in PreviewThread : Op(p)' # "showClipboard"
          BY <1>0, <1>o, <4>1 DEF OneWindows, Windowing
        <4>3. AskerFinds(o) /\ previewCalls'[o] = previewCalls[o] /\ Op(o)' = Op(o) /\ At(o)' = At(o)
          BY <3>2, <2>1, <1>o
        <4> QED  BY <4>2, <4>3, <1>a DEF AskerFinds
      <3> QED  BY <3>1, <3>2
    <2>4. hideTask'.late => previewState' = NoState
      BY <1>b, <1>c, <1>0, <1>a, <1>f0, <1>f1, <1>f2, <1>o, <2>1 DEF Orderly, NumbersGiven, AskerFinds, Numbered
    <2>5. previewState' # NoState => previewState'.item \in Previewed
      BY <1>b, <1>c, <1>0, <1>a, <1>f0, <1>f1, <1>f2, <1>o, <2>1 DEF Orderly, NumbersGiven, AskerFinds, Numbered
    <2> QED  BY <2>2, <2>3, <2>4, <2>5
  <1>t. TakenBack'
    <2> SUFFICES ASSUME Orderly', Leaving', previewWindow'.visible
                 PROVE  \/ WillHide'
                        \/ Closing' /\ \A o \in PreviewThread : Op(o)' = "show" => At(o)' = "shown"
      BY DEF TakenBack
    <2>1. /\ \A r, o \in PreviewThread : Asking(r) /\ Asking(o) => r = o
          /\ \A o \in PreviewThread : AskerFinds(o)
          /\ hideTask.late => previewState = NoState
          /\ Orderly
      BY <1>0, <1>a, <1>f0, <1>f1, <1>f2, <1>o DEF OneAsks, Orderly
    <2> QED  BY <1>0, <1>a, <1>f0, <1>f1, <1>f2, <1>o, <1>b, <1>c, <1>k, <1>w, <2>1 DEF TakenBack, Orderly, Leaving, WillHide, Closing, LastOne, NumbersGiven, OneWindows, Windowing
  <1>q. Presented'
    <2> SUFFICES ASSUME Orderly'
                 PROVE  /\ \A o \in PreviewThread : Op(o)' = "show" /\ ~Doomed' => OnItsWay(o)'
                        /\ previewTally'.halfway /\ previewState' # NoState => previewState'.req # latest'.presented
                        /\ previewTally'.halfway => \A o \in PreviewThread : Op(o)' = "show" => At(o)' \notin {"set", "emitted", "shown"}
                        /\ ~previewTally'.halfway /\ previewState' # NoState => Served' \/ Unserved'
      BY DEF Presented
    <2>1. /\ \A r, o \in PreviewThread : Asking(r) /\ Asking(o) => r = o
          /\ \A o \in PreviewThread : AskerFinds(o)
          /\ hideTask.late => previewState = NoState
          /\ Orderly
      BY <1>0, <1>a, <1>f0, <1>f1, <1>f2, <1>o DEF OneAsks, Orderly
    <2>2. /\ \A o \in PreviewThread : Op(o) = "show" /\ ~Doomed => OnItsWay(o)
          /\ previewTally.halfway /\ previewState # NoState => previewState.req # latest.presented
          /\ previewTally.halfway => \A o \in PreviewThread : Op(o) = "show" => At(o) \notin {"set", "emitted", "shown"}
          /\ ~previewTally.halfway /\ previewState # NoState => Served \/ Unserved
      BY <1>0, <2>1 DEF Presented
    <2>3. ASSUME NEW o \in PreviewThread, Op(o)' = "show", ~Doomed' PROVE OnItsWay(o)'
      <3>1. CASE o = t
        BY <3>1, <1>b, <1>c, <1>0, <1>a, <1>f0, <1>f1, <1>f2, <1>o, <2>1, <2>2, <2>3 DEF Orderly, OnItsWay, AskerFinds, Numbered, Shown, Doomed, CanReuse, NumbersGiven, OneWindows, Windowing
      <3>2. CASE o # t
        BY <3>2, <1>b, <1>c, <1>0, <1>a, <1>f0, <1>f1, <1>f2, <1>o, <2>1, <2>2, <2>3 DEF Orderly, OnItsWay, AskerFinds, Numbered, Shown, Doomed, Asking, Op, OneWindows, Windowing
      <3> QED  BY <3>1, <3>2
    <2>4. previewTally'.halfway /\ previewState' # NoState => previewState'.req # latest'.presented
      BY <1>b, <1>c, <1>k, <1>n, <1>0, <1>a, <1>f0, <1>f1, <1>f2, <1>o, <2>1, <2>2 DEF Orderly, AskerFinds, Numbered, OnItsWay, NumbersGiven
    <2>5. ~previewTally'.halfway /\ previewState' # NoState => Served' \/ Unserved'
      BY <1>b, <1>c, <1>0, <1>a, <1>f0, <1>f1, <1>f2, <1>o, <2>1, <2>2 DEF Orderly, AskerFinds, Numbered, OnItsWay, Served, Unserved, Shown, NumbersGiven, Asking
    <2>6. previewTally'.halfway => \A o \in PreviewThread : Op(o)' = "show" => At(o)' \notin {"set", "emitted", "shown"}
      BY <1>0, <1>a, <1>f0, <1>f1, <1>f2, <1>o, <2>1, <2>2 DEF Orderly, Asking, Op
    <2> QED  BY <2>3, <2>4, <2>5, <2>6
  <1> QED  BY <1>s, <1>n, <1>w, <1>k, <1>t, <1>q DEF PreviewInv

LEMMA ShowClipboardStays == ASSUME PreviewInv, NEW t \in PreviewThread, ShowClipboard(t) PROVE PreviewInv'
  <1>0. PreviewShape /\ NumbersGiven /\ OneWindows /\ OneAsks /\ TakenBack /\ Presented
    BY DEF PreviewInv
  <1>b. /\ latest.req \in Nat /\ latest.presented \in Nat /\ latest.session \in Nat /\ latest.req + 1 \in Nat /\ latest.session + 1 \in Nat
        /\ previewState.req \in Nat /\ hideTask.req \in Nat /\ hideTask.woken \in Nat /\ \A o \in PreviewThread : previewCalls[o] \in CallCell /\ previewCalls[o].req \in Nat
    BY <1>0 DEF PreviewShape, Latests, States, HideTasks, CallCell
  <1>c. NoCall \in CallCell /\ NoState \in States /\ NoCall.req = 0 /\ NoState.req = 0 /\ previewCalls[t] \in CallCell
    BY <1>0, CallsMove DEF PreviewShape
  <1>a. UNCHANGED <<latest, previewState, hideTask, previewWindow, panel, previewTally>>
    BY DEF ShowClipboard, Step
  <1>clipWindow. clipWindow' \in ClipWindows
    BY <1>0, <1>b, <1>c, CallsMove DEF ShowClipboard, Step, PreviewShape, ClipWindows
  <1>previewCalls. previewCalls' \in [PreviewThread -> CallCell]
    BY <1>0, <1>b, <1>c, CallsMove DEF ShowClipboard, Step, PreviewShape, CallCell
  <1>f0. Op(t) = "showClipboard" /\ At(t) = "begin"
    BY <1>0 DEF ShowClipboard, Step, PreviewShape, Op, At, CallCell
  <1>f1. clipWindow'.visible /\ clipWindow'.suppressed = clipWindow.suppressed
    BY <1>0 DEF ShowClipboard, Step, PreviewShape, Op, At, ClipWindows
  <1>f2. Op(t)' = Op(t) /\ At(t)' = "visible"
    BY <1>0 DEF ShowClipboard, Step, PreviewShape, Op, At, CallCell
  <1>f3. previewCalls'[t].req = previewCalls[t].req /\ previewCalls'[t].session = previewCalls[t].session
    BY <1>0 DEF ShowClipboard, Step, PreviewShape, Op, At, CallCell
  <1>f4. previewCalls'[t].item = previewCalls[t].item /\ previewCalls'[t].content = previewCalls[t].content
    BY <1>0 DEF ShowClipboard, Step, PreviewShape, Op, At, CallCell
  <1>o. \A o \in PreviewThread : o # t => 
          /\ previewCalls'[o] = previewCalls[o] /\ Op(o)' = Op(o) /\ At(o)' = At(o)
          /\ (Windowing(o)' <=> Windowing(o)) /\ (Asking(o)' <=> Asking(o))
    BY <1>0 DEF ShowClipboard, Step, PreviewShape, Op, At, Windowing, Asking
  <1>s. PreviewShape'
    BY <1>0, <1>a, <1>clipWindow, <1>previewCalls DEF PreviewShape
  <1>n. NumbersGiven'
    BY <1>b, <1>c, <1>0, <1>a, <1>f0, <1>f1, <1>f2, <1>f3, <1>f4, <1>o DEF NumbersGiven
  <1>w. OneWindows'
    <2>1. ASSUME NEW o \in PreviewThread
          PROVE  (At(o) \in StepsOf(Op(o)))' /\ (Op(o)' = "none" => previewCalls'[o] = NoCall)
      <3>1. CASE o = t
        BY <3>1, <1>0, <1>a, <1>f0, <1>f1, <1>f2, <1>f3, <1>f4, <1>o DEF StepsOf, Numbered, OneWindows
      <3>2. CASE o # t
        BY <3>2, <1>0, <1>o DEF OneWindows
      <3> QED  BY <3>1, <3>2
    <2>2. \A r, o \in PreviewThread : Windowing(r)' /\ Windowing(o)' => r = o
      BY <1>0, <1>a, <1>f0, <1>f1, <1>f2, <1>f3, <1>f4, <1>o DEF OneWindows, Windowing
    <2>3. (\E o \in PreviewThread : Op(o)' = "hideClipboard") => clipWindow'.suppressed
      BY <1>0, <1>a, <1>f0, <1>f1, <1>f2, <1>f3, <1>f4, <1>o DEF OneWindows, Windowing
    <2>4. clipWindow'.suppressed => \/ ~clipWindow'.visible
                                   \/ \E o \in PreviewThread : Op(o)' = "hideClipboard" \/ (Op(o)' = "showClipboard" /\ At(o)' = "visible")
      BY <1>0, <1>a, <1>f0, <1>f1, <1>f2, <1>f3, <1>f4, <1>o DEF OneWindows, Windowing
    <2> QED  BY <2>1, <2>2, <2>3, <2>4 DEF OneWindows
  <1>k. OneAsks'
    <2> SUFFICES ASSUME Orderly'
                 PROVE  /\ \A r, o \in PreviewThread : Asking(r)' /\ Asking(o)' => r = o
                        /\ \A o \in PreviewThread : AskerFinds(o)'
                        /\ hideTask'.late => previewState' = NoState
                        /\ previewState' # NoState => previewState'.item \in Previewed
      BY DEF OneAsks
    <2>1. /\ \A r, o \in PreviewThread : Asking(r) /\ Asking(o) => r = o
          /\ \A o \in PreviewThread : AskerFinds(o)
          /\ hideTask.late => previewState = NoState
          /\ previewState # NoState => previewState.item \in Previewed
      BY <1>0, <1>a, <1>f0, <1>f1, <1>f2, <1>f3, <1>f4, <1>o DEF OneAsks, Orderly
    <2>2. \A r, o \in PreviewThread : Asking(r)' /\ Asking(o)' => r = o
      BY <1>0, <1>a, <1>f0, <1>f1, <1>f2, <1>f3, <1>f4, <1>o, <2>1 DEF Orderly, Asking, Op
    <2>3. ASSUME NEW o \in PreviewThread PROVE AskerFinds(o)'
      <3>1. CASE o = t
        BY <3>1, <1>b, <1>c, <1>0, <1>a, <1>f0, <1>f1, <1>f2, <1>f3, <1>f4, <1>o, <2>1 DEF AskerFinds, Doomed, Numbered, Orderly, SessionForShow, OneWindows, NumbersGiven, Windowing
      <3>2. CASE o # t
        BY <3>2, <1>b, <1>c, <1>0, <1>a, <1>f0, <1>f1, <1>f2, <1>f3, <1>f4, <1>o, <2>1 DEF AskerFinds, Doomed, Numbered, Orderly, Asking, Op, NumbersGiven
      <3> QED  BY <3>1, <3>2
    <2>4. hideTask'.late => previewState' = NoState
      BY <1>b, <1>c, <1>0, <1>a, <1>f0, <1>f1, <1>f2, <1>f3, <1>f4, <1>o, <2>1 DEF Orderly, NumbersGiven, AskerFinds, Numbered
    <2>5. previewState' # NoState => previewState'.item \in Previewed
      BY <1>b, <1>c, <1>0, <1>a, <1>f0, <1>f1, <1>f2, <1>f3, <1>f4, <1>o, <2>1 DEF Orderly, NumbersGiven, AskerFinds, Numbered
    <2> QED  BY <2>2, <2>3, <2>4, <2>5
  <1>t. TakenBack'
    <2> SUFFICES ASSUME Orderly', Leaving', previewWindow'.visible
                 PROVE  \/ WillHide'
                        \/ Closing' /\ \A o \in PreviewThread : Op(o)' = "show" => At(o)' = "shown"
      BY DEF TakenBack
    <2>1. /\ \A r, o \in PreviewThread : Asking(r) /\ Asking(o) => r = o
          /\ \A o \in PreviewThread : AskerFinds(o)
          /\ hideTask.late => previewState = NoState
          /\ Orderly
      BY <1>0, <1>a, <1>f0, <1>f1, <1>f2, <1>f3, <1>f4, <1>o DEF OneAsks, Orderly
    <2> QED  BY <1>0, <1>a, <1>f0, <1>f1, <1>f2, <1>f3, <1>f4, <1>o, <1>b, <1>c, <1>k, <1>w, <2>1 DEF TakenBack, Orderly, Leaving, WillHide, Closing, LastOne, NumbersGiven, OneWindows, Windowing
  <1>q. Presented'
    <2> SUFFICES ASSUME Orderly'
                 PROVE  /\ \A o \in PreviewThread : Op(o)' = "show" /\ ~Doomed' => OnItsWay(o)'
                        /\ previewTally'.halfway /\ previewState' # NoState => previewState'.req # latest'.presented
                        /\ previewTally'.halfway => \A o \in PreviewThread : Op(o)' = "show" => At(o)' \notin {"set", "emitted", "shown"}
                        /\ ~previewTally'.halfway /\ previewState' # NoState => Served' \/ Unserved'
      BY DEF Presented
    <2>1. /\ \A r, o \in PreviewThread : Asking(r) /\ Asking(o) => r = o
          /\ \A o \in PreviewThread : AskerFinds(o)
          /\ hideTask.late => previewState = NoState
          /\ Orderly
      BY <1>0, <1>a, <1>f0, <1>f1, <1>f2, <1>f3, <1>f4, <1>o DEF OneAsks, Orderly
    <2>2. /\ \A o \in PreviewThread : Op(o) = "show" /\ ~Doomed => OnItsWay(o)
          /\ previewTally.halfway /\ previewState # NoState => previewState.req # latest.presented
          /\ previewTally.halfway => \A o \in PreviewThread : Op(o) = "show" => At(o) \notin {"set", "emitted", "shown"}
          /\ ~previewTally.halfway /\ previewState # NoState => Served \/ Unserved
      BY <1>0, <2>1 DEF Presented
    <2>3. ASSUME NEW o \in PreviewThread, Op(o)' = "show", ~Doomed' PROVE OnItsWay(o)'
      <3>1. CASE o = t
        BY <3>1, <1>b, <1>c, <1>0, <1>a, <1>f0, <1>f1, <1>f2, <1>f3, <1>f4, <1>o, <2>1, <2>2, <2>3 DEF Orderly, OnItsWay, AskerFinds, Numbered, Shown, Doomed, CanReuse, NumbersGiven, OneWindows, Windowing
      <3>2. CASE o # t
        BY <3>2, <1>b, <1>c, <1>0, <1>a, <1>f0, <1>f1, <1>f2, <1>f3, <1>f4, <1>o, <2>1, <2>2, <2>3 DEF Orderly, OnItsWay, AskerFinds, Numbered, Shown, Doomed, Asking, Op, OneWindows, Windowing
      <3> QED  BY <3>1, <3>2
    <2>4. previewTally'.halfway /\ previewState' # NoState => previewState'.req # latest'.presented
      BY <1>b, <1>c, <1>k, <1>n, <1>0, <1>a, <1>f0, <1>f1, <1>f2, <1>f3, <1>f4, <1>o, <2>1, <2>2 DEF Orderly, AskerFinds, Numbered, OnItsWay, NumbersGiven
    <2>5. ~previewTally'.halfway /\ previewState' # NoState => Served' \/ Unserved'
      BY <1>b, <1>c, <1>0, <1>a, <1>f0, <1>f1, <1>f2, <1>f3, <1>f4, <1>o, <2>1, <2>2 DEF Orderly, AskerFinds, Numbered, OnItsWay, Served, Unserved, Shown, NumbersGiven, Asking
    <2>6. previewTally'.halfway => \A o \in PreviewThread : Op(o)' = "show" => At(o)' \notin {"set", "emitted", "shown"}
      BY <1>0, <1>a, <1>f0, <1>f1, <1>f2, <1>f3, <1>f4, <1>o, <2>1, <2>2 DEF Orderly, Asking, Op
    <2> QED  BY <2>3, <2>4, <2>5, <2>6
  <1> QED  BY <1>s, <1>n, <1>w, <1>k, <1>t, <1>q DEF PreviewInv

LEMMA ResumeStays == ASSUME PreviewInv, NEW t \in PreviewThread, Resume(t) PROVE PreviewInv'
  <1>0. PreviewShape /\ NumbersGiven /\ OneWindows /\ OneAsks /\ TakenBack /\ Presented
    BY DEF PreviewInv
  <1>b. /\ latest.req \in Nat /\ latest.presented \in Nat /\ latest.session \in Nat /\ latest.req + 1 \in Nat /\ latest.session + 1 \in Nat
        /\ previewState.req \in Nat /\ hideTask.req \in Nat /\ hideTask.woken \in Nat /\ \A o \in PreviewThread : previewCalls[o] \in CallCell /\ previewCalls[o].req \in Nat
    BY <1>0 DEF PreviewShape, Latests, States, HideTasks, CallCell
  <1>c. NoCall \in CallCell /\ NoState \in States /\ NoCall.req = 0 /\ NoState.req = 0 /\ previewCalls[t] \in CallCell
    BY <1>0, CallsMove DEF PreviewShape
  <1>a. UNCHANGED <<latest, previewState, hideTask, previewWindow, panel, previewTally>>
    BY DEF Resume
  <1>clipWindow. clipWindow' \in ClipWindows
    BY <1>0, <1>b, <1>c, CallsMove DEF Resume, PreviewShape, ClipWindows
  <1>previewCalls. previewCalls' \in [PreviewThread -> CallCell]
    BY <1>0, <1>b, <1>c, CallsMove DEF Resume, PreviewShape, CallCell
  <1>f0. Op(t) = "showClipboard" /\ At(t) = "visible"
    BY <1>0 DEF Resume, PreviewShape, Op, At, CallCell
  <1>f1. clipWindow'.visible = clipWindow.visible /\ ~clipWindow'.suppressed
    BY <1>0 DEF Resume, PreviewShape, Op, At, ClipWindows
  <1>f2. previewCalls'[t] = NoCall /\ Op(t)' = "none" /\ At(t)' = "idle"
    BY <1>0 DEF Resume, NoCall, PreviewShape, Op, At, CallCell
  <1>o. \A o \in PreviewThread : o # t => 
          /\ previewCalls'[o] = previewCalls[o] /\ Op(o)' = Op(o) /\ At(o)' = At(o)
          /\ (Windowing(o)' <=> Windowing(o)) /\ (Asking(o)' <=> Asking(o))
    BY <1>0 DEF Resume, PreviewShape, Op, At, Windowing, Asking
  <1>s. PreviewShape'
    BY <1>0, <1>a, <1>clipWindow, <1>previewCalls DEF PreviewShape
  <1>n. NumbersGiven'
    BY <1>b, <1>c, <1>0, <1>a, <1>f0, <1>f1, <1>f2, <1>o DEF NumbersGiven
  <1>w. OneWindows'
    <2>1. ASSUME NEW o \in PreviewThread
          PROVE  (At(o) \in StepsOf(Op(o)))' /\ (Op(o)' = "none" => previewCalls'[o] = NoCall)
      <3>1. CASE o = t
        BY <3>1, <1>0, <1>a, <1>f0, <1>f1, <1>f2, <1>o DEF StepsOf, Numbered, OneWindows
      <3>2. CASE o # t
        BY <3>2, <1>0, <1>o DEF OneWindows
      <3> QED  BY <3>1, <3>2
    <2>2. \A r, o \in PreviewThread : Windowing(r)' /\ Windowing(o)' => r = o
      BY <1>0, <1>a, <1>f0, <1>f1, <1>f2, <1>o DEF OneWindows, Windowing
    <2>3. (\E o \in PreviewThread : Op(o)' = "hideClipboard") => clipWindow'.suppressed
      BY <1>0, <1>a, <1>f0, <1>f1, <1>f2, <1>o DEF OneWindows, Windowing
    <2>4. clipWindow'.suppressed => \/ ~clipWindow'.visible
                                   \/ \E o \in PreviewThread : Op(o)' = "hideClipboard" \/ (Op(o)' = "showClipboard" /\ At(o)' = "visible")
      BY <1>0, <1>a, <1>f0, <1>f1, <1>f2, <1>o DEF OneWindows, Windowing
    <2> QED  BY <2>1, <2>2, <2>3, <2>4 DEF OneWindows
  <1>k. OneAsks'
    <2> SUFFICES ASSUME Orderly'
                 PROVE  /\ \A r, o \in PreviewThread : Asking(r)' /\ Asking(o)' => r = o
                        /\ \A o \in PreviewThread : AskerFinds(o)'
                        /\ hideTask'.late => previewState' = NoState
                        /\ previewState' # NoState => previewState'.item \in Previewed
      BY DEF OneAsks
    <2>1. /\ \A r, o \in PreviewThread : Asking(r) /\ Asking(o) => r = o
          /\ \A o \in PreviewThread : AskerFinds(o)
          /\ hideTask.late => previewState = NoState
          /\ previewState # NoState => previewState.item \in Previewed
      BY <1>0, <1>a, <1>f0, <1>f1, <1>f2, <1>o DEF OneAsks, Orderly
    <2>2. \A r, o \in PreviewThread : Asking(r)' /\ Asking(o)' => r = o
      BY <1>0, <1>a, <1>f0, <1>f1, <1>f2, <1>o, <2>1 DEF Orderly, Asking, Op
    <2>3. ASSUME NEW o \in PreviewThread PROVE AskerFinds(o)'
      <3>1. CASE o = t
        BY <3>1, <1>b, <1>c, <1>0, <1>a, <1>f0, <1>f1, <1>f2, <1>o, <2>1 DEF AskerFinds, Doomed, Numbered, Orderly, SessionForShow, OneWindows, NumbersGiven, Windowing
      <3>2. CASE o # t
        BY <3>2, <1>b, <1>c, <1>0, <1>a, <1>f0, <1>f1, <1>f2, <1>o, <2>1 DEF AskerFinds, Doomed, Numbered, Orderly, Asking, Op, NumbersGiven
      <3> QED  BY <3>1, <3>2
    <2>4. hideTask'.late => previewState' = NoState
      BY <1>b, <1>c, <1>0, <1>a, <1>f0, <1>f1, <1>f2, <1>o, <2>1 DEF Orderly, NumbersGiven, AskerFinds, Numbered
    <2>5. previewState' # NoState => previewState'.item \in Previewed
      BY <1>b, <1>c, <1>0, <1>a, <1>f0, <1>f1, <1>f2, <1>o, <2>1 DEF Orderly, NumbersGiven, AskerFinds, Numbered
    <2> QED  BY <2>2, <2>3, <2>4, <2>5
  <1>t. TakenBack'
    <2> SUFFICES ASSUME Orderly', Leaving', previewWindow'.visible
                 PROVE  \/ WillHide'
                        \/ Closing' /\ \A o \in PreviewThread : Op(o)' = "show" => At(o)' = "shown"
      BY DEF TakenBack
    <2>1. /\ \A r, o \in PreviewThread : Asking(r) /\ Asking(o) => r = o
          /\ \A o \in PreviewThread : AskerFinds(o)
          /\ hideTask.late => previewState = NoState
          /\ Orderly
      BY <1>0, <1>a, <1>f0, <1>f1, <1>f2, <1>o DEF OneAsks, Orderly
    <2> QED  BY <1>0, <1>a, <1>f0, <1>f1, <1>f2, <1>o, <1>b, <1>c, <1>k, <1>w, <2>1 DEF TakenBack, Orderly, Leaving, WillHide, Closing, LastOne, NumbersGiven, OneWindows, Windowing
  <1>q. Presented'
    <2> SUFFICES ASSUME Orderly'
                 PROVE  /\ \A o \in PreviewThread : Op(o)' = "show" /\ ~Doomed' => OnItsWay(o)'
                        /\ previewTally'.halfway /\ previewState' # NoState => previewState'.req # latest'.presented
                        /\ previewTally'.halfway => \A o \in PreviewThread : Op(o)' = "show" => At(o)' \notin {"set", "emitted", "shown"}
                        /\ ~previewTally'.halfway /\ previewState' # NoState => Served' \/ Unserved'
      BY DEF Presented
    <2>1. /\ \A r, o \in PreviewThread : Asking(r) /\ Asking(o) => r = o
          /\ \A o \in PreviewThread : AskerFinds(o)
          /\ hideTask.late => previewState = NoState
          /\ Orderly
      BY <1>0, <1>a, <1>f0, <1>f1, <1>f2, <1>o DEF OneAsks, Orderly
    <2>2. /\ \A o \in PreviewThread : Op(o) = "show" /\ ~Doomed => OnItsWay(o)
          /\ previewTally.halfway /\ previewState # NoState => previewState.req # latest.presented
          /\ previewTally.halfway => \A o \in PreviewThread : Op(o) = "show" => At(o) \notin {"set", "emitted", "shown"}
          /\ ~previewTally.halfway /\ previewState # NoState => Served \/ Unserved
      BY <1>0, <2>1 DEF Presented
    <2>3. ASSUME NEW o \in PreviewThread, Op(o)' = "show", ~Doomed' PROVE OnItsWay(o)'
      <3>1. CASE o = t
        BY <3>1, <1>b, <1>c, <1>0, <1>a, <1>f0, <1>f1, <1>f2, <1>o, <2>1, <2>2, <2>3 DEF Orderly, OnItsWay, AskerFinds, Numbered, Shown, Doomed, CanReuse, NumbersGiven, OneWindows, Windowing
      <3>2. CASE o # t
        BY <3>2, <1>b, <1>c, <1>0, <1>a, <1>f0, <1>f1, <1>f2, <1>o, <2>1, <2>2, <2>3 DEF Orderly, OnItsWay, AskerFinds, Numbered, Shown, Doomed, Asking, Op, OneWindows, Windowing
      <3> QED  BY <3>1, <3>2
    <2>4. previewTally'.halfway /\ previewState' # NoState => previewState'.req # latest'.presented
      BY <1>b, <1>c, <1>k, <1>n, <1>0, <1>a, <1>f0, <1>f1, <1>f2, <1>o, <2>1, <2>2 DEF Orderly, AskerFinds, Numbered, OnItsWay, NumbersGiven
    <2>5. ~previewTally'.halfway /\ previewState' # NoState => Served' \/ Unserved'
      BY <1>b, <1>c, <1>0, <1>a, <1>f0, <1>f1, <1>f2, <1>o, <2>1, <2>2 DEF Orderly, AskerFinds, Numbered, OnItsWay, Served, Unserved, Shown, NumbersGiven, Asking
    <2>6. previewTally'.halfway => \A o \in PreviewThread : Op(o)' = "show" => At(o)' \notin {"set", "emitted", "shown"}
      BY <1>0, <1>a, <1>f0, <1>f1, <1>f2, <1>o, <2>1, <2>2 DEF Orderly, Asking, Op
    <2> QED  BY <2>3, <2>4, <2>5, <2>6
  <1> QED  BY <1>s, <1>n, <1>w, <1>k, <1>t, <1>q DEF PreviewInv

LEMMA TaskWakesStays == ASSUME PreviewInv, TaskWakes PROVE PreviewInv'
  <1>0. PreviewShape /\ NumbersGiven /\ OneWindows /\ OneAsks /\ TakenBack /\ Presented
    BY DEF PreviewInv
  <1>b. /\ latest.req \in Nat /\ latest.presented \in Nat /\ latest.session \in Nat /\ latest.req + 1 \in Nat /\ latest.session + 1 \in Nat
        /\ previewState.req \in Nat /\ hideTask.req \in Nat /\ hideTask.woken \in Nat /\ \A o \in PreviewThread : previewCalls[o] \in CallCell /\ previewCalls[o].req \in Nat
    BY <1>0 DEF PreviewShape, Latests, States, HideTasks, CallCell
  <1>c. NoCall \in CallCell /\ NoState \in States /\ NoCall.req = 0 /\ NoState.req = 0
    BY <1>0, CallsMove DEF PreviewShape
  <1>a. UNCHANGED <<clipWindow, latest, previewState, previewWindow, previewCalls, panel, previewTally>>
    BY DEF TaskWakes
  <1>hideTask. hideTask' \in HideTasks
    BY <1>0, <1>b, <1>c, CallsMove DEF TaskWakes, PreviewShape, HideTasks
  <1>f0. hideTask.req # 0 /\ hideTask.woken = 0 /\ ~hideTask.late /\ hideTask'.req = 0 /\ hideTask'.woken = hideTask.req /\ hideTask'.late = hideTask.late
    BY <1>0 DEF TaskWakes, PreviewShape, Op, At, HideTasks
  <1>s. PreviewShape'
    BY <1>0, <1>a, <1>hideTask DEF PreviewShape
  <1>n. NumbersGiven'
    BY <1>b, <1>c, <1>0, <1>a, <1>f0 DEF NumbersGiven
  <1>w. OneWindows'
    BY <1>0, <1>a, <1>f0 DEF OneWindows, StepsOf, Windowing, NoCall, Numbered, Op, At
  <1>k. OneAsks'
    BY <1>b, <1>c, <1>0, <1>a, <1>f0 DEF OneAsks, Orderly, Doomed, Numbered, AskerFinds, Asking, Op, At, NumbersGiven
  <1>t. TakenBack'
    <2> SUFFICES ASSUME Orderly', Leaving', previewWindow'.visible
                 PROVE  \/ WillHide'
                        \/ Closing' /\ \A o \in PreviewThread : Op(o)' = "show" => At(o)' = "shown"
      BY DEF TakenBack
    <2>1. /\ \A r, o \in PreviewThread : Asking(r) /\ Asking(o) => r = o
          /\ \A o \in PreviewThread : AskerFinds(o)
          /\ hideTask.late => previewState = NoState
          /\ Orderly
      BY <1>0, <1>a, <1>f0 DEF OneAsks, Orderly
    <2> QED  BY <1>0, <1>a, <1>f0, <1>b, <1>c, <1>k, <1>w, <2>1 DEF TakenBack, Orderly, Leaving, WillHide, Closing, LastOne, NumbersGiven, OneWindows, Windowing, Op, At
  <1>q. Presented'
    <2> SUFFICES ASSUME Orderly'
                 PROVE  /\ \A o \in PreviewThread : Op(o)' = "show" /\ ~Doomed' => OnItsWay(o)'
                        /\ previewTally'.halfway /\ previewState' # NoState => previewState'.req # latest'.presented
                        /\ previewTally'.halfway => \A o \in PreviewThread : Op(o)' = "show" => At(o)' \notin {"set", "emitted", "shown"}
                        /\ ~previewTally'.halfway /\ previewState' # NoState => Served' \/ Unserved'
      BY DEF Presented
    <2>1. /\ \A r, o \in PreviewThread : Asking(r) /\ Asking(o) => r = o
          /\ \A o \in PreviewThread : AskerFinds(o)
          /\ hideTask.late => previewState = NoState
          /\ Orderly
      BY <1>0, <1>a, <1>f0 DEF OneAsks, Orderly
    <2>2. /\ \A o \in PreviewThread : Op(o) = "show" /\ ~Doomed => OnItsWay(o)
          /\ previewTally.halfway /\ previewState # NoState => previewState.req # latest.presented
          /\ previewTally.halfway => \A o \in PreviewThread : Op(o) = "show" => At(o) \notin {"set", "emitted", "shown"}
          /\ ~previewTally.halfway /\ previewState # NoState => Served \/ Unserved
      BY <1>0, <2>1 DEF Presented
    <2>3. ASSUME NEW o \in PreviewThread, Op(o)' = "show", ~Doomed' PROVE OnItsWay(o)'
      BY <1>b, <1>c, <1>0, <1>a, <1>f0, <2>1, <2>2, <2>3 DEF OnItsWay, AskerFinds, Numbered, Shown, Doomed, Op, At
    <2>4. previewTally'.halfway /\ previewState' # NoState => previewState'.req # latest'.presented
      BY <1>b, <1>c, <1>k, <1>n, <1>0, <1>a, <1>f0, <2>1, <2>2 DEF Orderly, AskerFinds, Numbered, OnItsWay, NumbersGiven, Op, At
    <2>5. ~previewTally'.halfway /\ previewState' # NoState => Served' \/ Unserved'
      BY <1>b, <1>c, <1>0, <1>a, <1>f0, <2>1, <2>2 DEF Orderly, AskerFinds, Numbered, OnItsWay, Served, Unserved, Shown, NumbersGiven, Asking, Op, At
    <2>6. previewTally'.halfway => \A o \in PreviewThread : Op(o)' = "show" => At(o)' \notin {"set", "emitted", "shown"}
      BY <1>0, <1>a, <1>f0, <2>1, <2>2 DEF Orderly, Asking, Op, At
    <2> QED  BY <2>3, <2>4, <2>5, <2>6
  <1> QED  BY <1>s, <1>n, <1>w, <1>k, <1>t, <1>q DEF PreviewInv

LEMMA TaskLooksStays == ASSUME PreviewInv, TaskLooks PROVE PreviewInv'
  <1>0. PreviewShape /\ NumbersGiven /\ OneWindows /\ OneAsks /\ TakenBack /\ Presented
    BY DEF PreviewInv
  <1>b. /\ latest.req \in Nat /\ latest.presented \in Nat /\ latest.session \in Nat /\ latest.req + 1 \in Nat /\ latest.session + 1 \in Nat
        /\ previewState.req \in Nat /\ hideTask.req \in Nat /\ hideTask.woken \in Nat /\ \A o \in PreviewThread : previewCalls[o] \in CallCell /\ previewCalls[o].req \in Nat
    BY <1>0 DEF PreviewShape, Latests, States, HideTasks, CallCell
  <1>c. NoCall \in CallCell /\ NoState \in States /\ NoCall.req = 0 /\ NoState.req = 0
    BY <1>0, CallsMove DEF PreviewShape
  <1>a. UNCHANGED <<clipWindow, latest, previewState, previewWindow, previewCalls, panel, previewTally>>
    BY DEF TaskLooks, StillClosed
  <1>hideTask. hideTask' \in HideTasks
    BY <1>0, <1>b, <1>c, CallsMove DEF TaskLooks, StillClosed, PreviewShape, HideTasks
  <1>f0. hideTask.woken # 0 /\ hideTask'.req = hideTask.req /\ hideTask'.woken = 0 /\ (hideTask'.late <=> (hideTask.woken = latest.req /\ previewState = NoState))
    BY <1>0 DEF TaskLooks, StillClosed, PreviewShape, Op, At, HideTasks
  <1>s. PreviewShape'
    BY <1>0, <1>a, <1>hideTask DEF PreviewShape
  <1>n. NumbersGiven'
    BY <1>b, <1>c, <1>0, <1>a, <1>f0 DEF NumbersGiven
  <1>w. OneWindows'
    BY <1>0, <1>a, <1>f0 DEF OneWindows, StepsOf, Windowing, NoCall, Numbered, Op, At
  <1>k. OneAsks'
    <2> SUFFICES ASSUME Orderly'
                 PROVE  (\A o \in PreviewThread : AskerFinds(o)') /\ (hideTask'.late => previewState = NoState)
      BY <1>0, <1>a DEF OneAsks, Orderly, Asking
    <2>1. \A o \in PreviewThread : AskerFinds(o)
      BY <1>0, <1>a DEF OneAsks, Orderly
    <2>2. ASSUME NEW o \in PreviewThread PROVE AskerFinds(o)'
      <3>1. AskerFinds(o) /\ previewCalls[o].req \in Nat /\ previewCalls[o].req =< latest.req
        BY <2>1, <1>0, <1>b DEF NumbersGiven
      <3>2. Op(o) = "show" /\ At(o) \in Numbered => hideTask.woken < latest.req /\ hideTask'.woken < previewCalls[o].req /\ ~hideTask'.late
        BY <3>1, <1>b, <1>f0 DEF AskerFinds
      <3> QED  BY <3>1, <3>2, <1>a, <1>f0 DEF AskerFinds, Doomed, Op, At
    <2> QED  BY <2>2, <1>f0
  <1>t. TakenBack'
    <2> SUFFICES ASSUME Orderly', Leaving', previewWindow'.visible
                 PROVE  \/ WillHide'
                        \/ Closing' /\ \A o \in PreviewThread : Op(o)' = "show" => At(o)' = "shown"
      BY DEF TakenBack
    <2>1. /\ \A r, o \in PreviewThread : Asking(r) /\ Asking(o) => r = o
          /\ \A o \in PreviewThread : AskerFinds(o)
          /\ hideTask.late => previewState = NoState
          /\ Orderly
      BY <1>0, <1>a, <1>f0 DEF OneAsks, Orderly
    <2>2. TakenBack /\ Leaving /\ previewWindow.visible
      BY <1>0, <1>a DEF Leaving, Op, At
    <2>3. WillHide => WillHide'
      BY <1>a DEF WillHide, Op, At
    <2>4. Closing => Closing'
      BY <1>0, <1>a, <1>f0 DEF NumbersGiven, Closing, LastOne, Op, At
    <2>5. \A o \in PreviewThread : Op(o)' = Op(o) /\ At(o)' = At(o)
      BY <1>a DEF Op, At
    <2> QED  BY <2>1, <2>2, <2>3, <2>4, <2>5 DEF TakenBack
  <1>q. Presented'
    <2> SUFFICES ASSUME Orderly'
                 PROVE  /\ \A o \in PreviewThread : Op(o)' = "show" /\ ~Doomed' => OnItsWay(o)'
                        /\ previewTally'.halfway /\ previewState' # NoState => previewState'.req # latest'.presented
                        /\ previewTally'.halfway => \A o \in PreviewThread : Op(o)' = "show" => At(o)' \notin {"set", "emitted", "shown"}
                        /\ ~previewTally'.halfway /\ previewState' # NoState => Served' \/ Unserved'
      BY DEF Presented
    <2>1. /\ \A r, o \in PreviewThread : Asking(r) /\ Asking(o) => r = o
          /\ \A o \in PreviewThread : AskerFinds(o)
          /\ hideTask.late => previewState = NoState
          /\ Orderly
      BY <1>0, <1>a, <1>f0 DEF OneAsks, Orderly
    <2>2. /\ \A o \in PreviewThread : Op(o) = "show" /\ ~Doomed => OnItsWay(o)
          /\ previewTally.halfway /\ previewState # NoState => previewState.req # latest.presented
          /\ previewTally.halfway => \A o \in PreviewThread : Op(o) = "show" => At(o) \notin {"set", "emitted", "shown"}
          /\ ~previewTally.halfway /\ previewState # NoState => Served \/ Unserved
      BY <1>0, <2>1 DEF Presented
    <2>3. ASSUME NEW o \in PreviewThread, Op(o)' = "show", ~Doomed' PROVE OnItsWay(o)'
      BY <1>b, <1>c, <1>0, <1>a, <1>f0, <2>1, <2>2, <2>3 DEF OnItsWay, AskerFinds, Numbered, Shown, Doomed, Op, At
    <2>4. previewTally'.halfway /\ previewState' # NoState => previewState'.req # latest'.presented
      BY <1>b, <1>c, <1>k, <1>n, <1>0, <1>a, <1>f0, <2>1, <2>2 DEF Orderly, AskerFinds, Numbered, OnItsWay, NumbersGiven, Op, At
    <2>5. ~previewTally'.halfway /\ previewState' # NoState => Served' \/ Unserved'
      BY <1>b, <1>c, <1>0, <1>a, <1>f0, <2>1, <2>2 DEF Orderly, AskerFinds, Numbered, OnItsWay, Served, Unserved, Shown, NumbersGiven, Asking, Op, At
    <2>6. previewTally'.halfway => \A o \in PreviewThread : Op(o)' = "show" => At(o)' \notin {"set", "emitted", "shown"}
      BY <1>0, <1>a, <1>f0, <2>1, <2>2 DEF Orderly, Asking, Op, At
    <2> QED  BY <2>3, <2>4, <2>5, <2>6
  <1> QED  BY <1>s, <1>n, <1>w, <1>k, <1>t, <1>q DEF PreviewInv

LEMMA TaskHidesStays == ASSUME PreviewInv, TaskHides PROVE PreviewInv'
  <1>0. PreviewShape /\ NumbersGiven /\ OneWindows /\ OneAsks /\ TakenBack /\ Presented
    BY DEF PreviewInv
  <1>b. /\ latest.req \in Nat /\ latest.presented \in Nat /\ latest.session \in Nat /\ latest.req + 1 \in Nat /\ latest.session + 1 \in Nat
        /\ previewState.req \in Nat /\ hideTask.req \in Nat /\ hideTask.woken \in Nat /\ \A o \in PreviewThread : previewCalls[o] \in CallCell /\ previewCalls[o].req \in Nat
    BY <1>0 DEF PreviewShape, Latests, States, HideTasks, CallCell
  <1>c. NoCall \in CallCell /\ NoState \in States /\ NoCall.req = 0 /\ NoState.req = 0
    BY <1>0, CallsMove DEF PreviewShape
  <1>a. UNCHANGED <<clipWindow, latest, previewState, previewCalls, panel, previewTally>>
    BY DEF TaskHides
  <1>hideTask. hideTask' \in HideTasks
    BY <1>0, <1>b, <1>c, CallsMove DEF TaskHides, PreviewShape, HideTasks
  <1>previewWindow. previewWindow' \in PreviewWindows
    BY <1>0, <1>b, <1>c, CallsMove DEF TaskHides, PreviewShape, PreviewWindows
  <1>f0. hideTask.late /\ hideTask'.req = hideTask.req /\ hideTask'.woken = hideTask.woken /\ ~hideTask'.late
    BY <1>0 DEF TaskHides, PreviewShape, Op, At, HideTasks
  <1>f1. previewWindow'.here = previewWindow.here /\ previewWindow'.mounted = previewWindow.mounted /\ ~previewWindow'.visible /\ previewWindow'.shows = previewWindow.shows
    BY <1>0 DEF TaskHides, PreviewShape, Op, At, PreviewWindows
  <1>s. PreviewShape'
    BY <1>0, <1>a, <1>hideTask, <1>previewWindow DEF PreviewShape
  <1>n. NumbersGiven'
    BY <1>b, <1>c, <1>0, <1>a, <1>f0, <1>f1 DEF NumbersGiven
  <1>w. OneWindows'
    BY <1>0, <1>a, <1>f0, <1>f1 DEF OneWindows, StepsOf, Windowing, NoCall, Numbered, Op, At
  <1>k. OneAsks'
    BY <1>b, <1>c, <1>0, <1>a, <1>f0, <1>f1 DEF OneAsks, Orderly, Doomed, Numbered, AskerFinds, Asking, Op, At, NumbersGiven
  <1>t. TakenBack'
    <2> SUFFICES ASSUME Orderly', Leaving', previewWindow'.visible
                 PROVE  \/ WillHide'
                        \/ Closing' /\ \A o \in PreviewThread : Op(o)' = "show" => At(o)' = "shown"
      BY DEF TakenBack
    <2>1. /\ \A r, o \in PreviewThread : Asking(r) /\ Asking(o) => r = o
          /\ \A o \in PreviewThread : AskerFinds(o)
          /\ hideTask.late => previewState = NoState
          /\ Orderly
      BY <1>0, <1>a, <1>f0, <1>f1 DEF OneAsks, Orderly
    <2> QED  BY <1>0, <1>a, <1>f0, <1>f1, <1>b, <1>c, <1>k, <1>w, <2>1 DEF TakenBack, Orderly, Leaving, WillHide, Closing, LastOne, NumbersGiven, OneWindows, Windowing, Op, At
  <1>q. Presented'
    <2> SUFFICES ASSUME Orderly'
                 PROVE  /\ \A o \in PreviewThread : Op(o)' = "show" /\ ~Doomed' => OnItsWay(o)'
                        /\ previewTally'.halfway /\ previewState' # NoState => previewState'.req # latest'.presented
                        /\ previewTally'.halfway => \A o \in PreviewThread : Op(o)' = "show" => At(o)' \notin {"set", "emitted", "shown"}
                        /\ ~previewTally'.halfway /\ previewState' # NoState => Served' \/ Unserved'
      BY DEF Presented
    <2>1. /\ \A r, o \in PreviewThread : Asking(r) /\ Asking(o) => r = o
          /\ \A o \in PreviewThread : AskerFinds(o)
          /\ hideTask.late => previewState = NoState
          /\ Orderly
      BY <1>0, <1>a, <1>f0, <1>f1 DEF OneAsks, Orderly
    <2>2. /\ \A o \in PreviewThread : Op(o) = "show" /\ ~Doomed => OnItsWay(o)
          /\ previewTally.halfway /\ previewState # NoState => previewState.req # latest.presented
          /\ previewTally.halfway => \A o \in PreviewThread : Op(o) = "show" => At(o) \notin {"set", "emitted", "shown"}
          /\ ~previewTally.halfway /\ previewState # NoState => Served \/ Unserved
      BY <1>0, <2>1 DEF Presented
    <2>3. ASSUME NEW o \in PreviewThread, Op(o)' = "show", ~Doomed' PROVE OnItsWay(o)'
      BY <1>b, <1>c, <1>0, <1>a, <1>f0, <1>f1, <2>1, <2>2, <2>3 DEF OnItsWay, AskerFinds, Numbered, Shown, Doomed, Op, At
    <2>4. previewTally'.halfway /\ previewState' # NoState => previewState'.req # latest'.presented
      BY <1>b, <1>c, <1>k, <1>n, <1>0, <1>a, <1>f0, <1>f1, <2>1, <2>2 DEF Orderly, AskerFinds, Numbered, OnItsWay, NumbersGiven, Op, At
    <2>5. ~previewTally'.halfway /\ previewState' # NoState => Served' \/ Unserved'
      BY <1>b, <1>c, <1>0, <1>a, <1>f0, <1>f1, <2>1, <2>2 DEF Orderly, AskerFinds, Numbered, OnItsWay, Served, Unserved, Shown, NumbersGiven, Asking, Op, At
    <2>6. previewTally'.halfway => \A o \in PreviewThread : Op(o)' = "show" => At(o)' \notin {"set", "emitted", "shown"}
      BY <1>0, <1>a, <1>f0, <1>f1, <2>1, <2>2 DEF Orderly, Asking, Op, At
    <2> QED  BY <2>3, <2>4, <2>5, <2>6
  <1> QED  BY <1>s, <1>n, <1>w, <1>k, <1>t, <1>q DEF PreviewInv

LEMMA MountPageStays == ASSUME PreviewInv, MountPage PROVE PreviewInv'
  <1>0. PreviewShape /\ NumbersGiven /\ OneWindows /\ OneAsks /\ TakenBack /\ Presented
    BY DEF PreviewInv
  <1>b. /\ latest.req \in Nat /\ latest.presented \in Nat /\ latest.session \in Nat /\ latest.req + 1 \in Nat /\ latest.session + 1 \in Nat
        /\ previewState.req \in Nat /\ hideTask.req \in Nat /\ hideTask.woken \in Nat /\ \A o \in PreviewThread : previewCalls[o] \in CallCell /\ previewCalls[o].req \in Nat
    BY <1>0 DEF PreviewShape, Latests, States, HideTasks, CallCell
  <1>c. NoCall \in CallCell /\ NoState \in States /\ NoCall.req = 0 /\ NoState.req = 0
    BY <1>0, CallsMove DEF PreviewShape
  <1>a. UNCHANGED <<clipWindow, latest, previewState, hideTask, previewCalls, panel, previewTally>>
    BY DEF MountPage
  <1>previewWindow. previewWindow' \in PreviewWindows
    BY <1>0 DEF MountPage, PreviewShape, PreviewWindows, States
  <1>f0. previewWindow.here /\ ~previewWindow.mounted /\ previewWindow'.here /\ previewWindow'.mounted /\ previewWindow'.visible = previewWindow.visible /\ previewWindow'.shows = previewState.item
    BY <1>0 DEF MountPage, PreviewShape, Op, At, PreviewWindows
  <1>s. PreviewShape'
    BY <1>0, <1>a, <1>previewWindow DEF PreviewShape
  <1>n. NumbersGiven'
    BY <1>b, <1>c, <1>0, <1>a, <1>f0 DEF NumbersGiven
  <1>w. OneWindows'
    BY <1>0, <1>a, <1>f0 DEF OneWindows, StepsOf, Windowing, NoCall, Numbered, Op, At
  <1>k. OneAsks'
    BY <1>b, <1>c, <1>0, <1>a, <1>f0 DEF OneAsks, Orderly, Doomed, Numbered, AskerFinds, Asking, Op, At, NumbersGiven
  <1>t. TakenBack'
    <2> SUFFICES ASSUME Orderly', Leaving', previewWindow'.visible
                 PROVE  \/ WillHide'
                        \/ Closing' /\ \A o \in PreviewThread : Op(o)' = "show" => At(o)' = "shown"
      BY DEF TakenBack
    <2>1. /\ \A r, o \in PreviewThread : Asking(r) /\ Asking(o) => r = o
          /\ \A o \in PreviewThread : AskerFinds(o)
          /\ hideTask.late => previewState = NoState
          /\ Orderly
      BY <1>0, <1>a, <1>f0 DEF OneAsks, Orderly
    <2> QED  BY <1>0, <1>a, <1>f0, <1>b, <1>c, <1>k, <1>w, <2>1 DEF TakenBack, Orderly, Leaving, WillHide, Closing, LastOne, NumbersGiven, OneWindows, Windowing, Op, At
  <1>q. Presented'
    <2> SUFFICES ASSUME Orderly'
                 PROVE  /\ \A o \in PreviewThread : Op(o)' = "show" /\ ~Doomed' => OnItsWay(o)'
                        /\ previewTally'.halfway /\ previewState' # NoState => previewState'.req # latest'.presented
                        /\ previewTally'.halfway => \A o \in PreviewThread : Op(o)' = "show" => At(o)' \notin {"set", "emitted", "shown"}
                        /\ ~previewTally'.halfway /\ previewState' # NoState => Served' \/ Unserved'
      BY DEF Presented
    <2>1. /\ \A r, o \in PreviewThread : Asking(r) /\ Asking(o) => r = o
          /\ \A o \in PreviewThread : AskerFinds(o)
          /\ hideTask.late => previewState = NoState
          /\ Orderly
      BY <1>0, <1>a, <1>f0 DEF OneAsks, Orderly
    <2>2. /\ \A o \in PreviewThread : Op(o) = "show" /\ ~Doomed => OnItsWay(o)
          /\ previewTally.halfway /\ previewState # NoState => previewState.req # latest.presented
          /\ previewTally.halfway => \A o \in PreviewThread : Op(o) = "show" => At(o) \notin {"set", "emitted", "shown"}
          /\ ~previewTally.halfway /\ previewState # NoState => Served \/ Unserved
      BY <1>0, <2>1 DEF Presented
    <2>3. ASSUME NEW o \in PreviewThread, Op(o)' = "show", ~Doomed' PROVE OnItsWay(o)'
      BY <1>b, <1>c, <1>0, <1>a, <1>f0, <2>1, <2>2, <2>3 DEF OnItsWay, AskerFinds, Numbered, Shown, Doomed, Op, At
    <2>4. previewTally'.halfway /\ previewState' # NoState => previewState'.req # latest'.presented
      BY <1>b, <1>c, <1>k, <1>n, <1>0, <1>a, <1>f0, <2>1, <2>2 DEF Orderly, AskerFinds, Numbered, OnItsWay, NumbersGiven, Op, At
    <2>5. ~previewTally'.halfway /\ previewState' # NoState => Served' \/ Unserved'
      BY <1>b, <1>c, <1>0, <1>a, <1>f0, <2>1, <2>2 DEF Orderly, AskerFinds, Numbered, OnItsWay, Served, Unserved, Shown, NumbersGiven, Asking, Op, At
    <2>6. previewTally'.halfway => \A o \in PreviewThread : Op(o)' = "show" => At(o)' \notin {"set", "emitted", "shown"}
      BY <1>0, <1>a, <1>f0, <2>1, <2>2 DEF Orderly, Asking, Op, At
    <2> QED  BY <2>3, <2>4, <2>5, <2>6
  <1> QED  BY <1>s, <1>n, <1>w, <1>k, <1>t, <1>q DEF PreviewInv

LEMMA DestroyIdleStays == ASSUME PreviewInv, DestroyIdle PROVE PreviewInv'
  <1>0. PreviewShape /\ NumbersGiven /\ OneWindows /\ OneAsks /\ TakenBack /\ Presented
    BY DEF PreviewInv
  <1>b. /\ latest.req \in Nat /\ latest.presented \in Nat /\ latest.session \in Nat /\ latest.req + 1 \in Nat /\ latest.session + 1 \in Nat
        /\ previewState.req \in Nat /\ hideTask.req \in Nat /\ hideTask.woken \in Nat /\ \A o \in PreviewThread : previewCalls[o] \in CallCell /\ previewCalls[o].req \in Nat
    BY <1>0 DEF PreviewShape, Latests, States, HideTasks, CallCell
  <1>c. NoCall \in CallCell /\ NoState \in States /\ NoCall.req = 0 /\ NoState.req = 0
    BY <1>0, CallsMove DEF PreviewShape
  <1>a. UNCHANGED <<clipWindow, latest, previewState, hideTask, previewCalls, panel>>
    BY DEF DestroyIdle, Faulty
  <1>previewWindow. previewWindow' \in PreviewWindows
    BY <1>0, <1>b, <1>c, CallsMove DEF DestroyIdle, Faulty, PreviewShape, PreviewWindows
  <1>previewTally. previewTally' \in PreviewTallies
    BY <1>0, <1>b, <1>c, CallsMove DEF DestroyIdle, Faulty, PreviewShape, PreviewTallies
  <1>f0. previewWindow.here /\ ~previewWindow.visible /\ ~previewWindow'.here /\ ~previewWindow'.mounted /\ ~previewWindow'.visible /\ previewWindow'.shows = NoPreview
    BY <1>0 DEF DestroyIdle, Faulty, PreviewShape, Op, At, PreviewWindows
  <1>f1. previewTally'.overlapped = previewTally.overlapped /\ previewTally'.slipped = previewTally.slipped /\ previewTally'.halfway = previewTally.halfway
    BY <1>0 DEF DestroyIdle, Faulty, PreviewShape, Op, At, PreviewTallies
  <1>s. PreviewShape'
    BY <1>0, <1>a, <1>previewWindow, <1>previewTally DEF PreviewShape
  <1>n. NumbersGiven'
    BY <1>b, <1>c, <1>0, <1>a, <1>f0, <1>f1 DEF NumbersGiven
  <1>w. OneWindows'
    BY <1>0, <1>a, <1>f0, <1>f1 DEF OneWindows, StepsOf, Windowing, NoCall, Numbered, Op, At
  <1>k. OneAsks'
    BY <1>b, <1>c, <1>0, <1>a, <1>f0, <1>f1 DEF OneAsks, Orderly, Doomed, Numbered, AskerFinds, Asking, Op, At, NumbersGiven
  <1>t. TakenBack'
    <2> SUFFICES ASSUME Orderly', Leaving', previewWindow'.visible
                 PROVE  \/ WillHide'
                        \/ Closing' /\ \A o \in PreviewThread : Op(o)' = "show" => At(o)' = "shown"
      BY DEF TakenBack
    <2>1. /\ \A r, o \in PreviewThread : Asking(r) /\ Asking(o) => r = o
          /\ \A o \in PreviewThread : AskerFinds(o)
          /\ hideTask.late => previewState = NoState
          /\ Orderly
      BY <1>0, <1>a, <1>f0, <1>f1 DEF OneAsks, Orderly
    <2> QED  BY <1>0, <1>a, <1>f0, <1>f1, <1>b, <1>c, <1>k, <1>w, <2>1 DEF TakenBack, Orderly, Leaving, WillHide, Closing, LastOne, NumbersGiven, OneWindows, Windowing, Op, At
  <1>q. Presented'
    <2> SUFFICES ASSUME Orderly'
                 PROVE  /\ \A o \in PreviewThread : Op(o)' = "show" /\ ~Doomed' => OnItsWay(o)'
                        /\ previewTally'.halfway /\ previewState' # NoState => previewState'.req # latest'.presented
                        /\ previewTally'.halfway => \A o \in PreviewThread : Op(o)' = "show" => At(o)' \notin {"set", "emitted", "shown"}
                        /\ ~previewTally'.halfway /\ previewState' # NoState => Served' \/ Unserved'
      BY DEF Presented
    <2>1. /\ \A r, o \in PreviewThread : Asking(r) /\ Asking(o) => r = o
          /\ \A o \in PreviewThread : AskerFinds(o)
          /\ hideTask.late => previewState = NoState
          /\ Orderly
      BY <1>0, <1>a, <1>f0, <1>f1 DEF OneAsks, Orderly
    <2>2. /\ \A o \in PreviewThread : Op(o) = "show" /\ ~Doomed => OnItsWay(o)
          /\ previewTally.halfway /\ previewState # NoState => previewState.req # latest.presented
          /\ previewTally.halfway => \A o \in PreviewThread : Op(o) = "show" => At(o) \notin {"set", "emitted", "shown"}
          /\ ~previewTally.halfway /\ previewState # NoState => Served \/ Unserved
      BY <1>0, <2>1 DEF Presented
    <2>3. ASSUME NEW o \in PreviewThread, Op(o)' = "show", ~Doomed' PROVE OnItsWay(o)'
      BY <1>b, <1>c, <1>0, <1>a, <1>f0, <1>f1, <2>1, <2>2, <2>3 DEF OnItsWay, AskerFinds, Numbered, Shown, Doomed, Op, At
    <2>4. previewTally'.halfway /\ previewState' # NoState => previewState'.req # latest'.presented
      BY <1>b, <1>c, <1>k, <1>n, <1>0, <1>a, <1>f0, <1>f1, <2>1, <2>2 DEF Orderly, AskerFinds, Numbered, OnItsWay, NumbersGiven, Op, At
    <2>5. ~previewTally'.halfway /\ previewState' # NoState => Served' \/ Unserved'
      BY <1>b, <1>c, <1>0, <1>a, <1>f0, <1>f1, <2>1, <2>2 DEF Orderly, AskerFinds, Numbered, OnItsWay, Served, Unserved, Shown, NumbersGiven, Asking, Op, At
    <2>6. previewTally'.halfway => \A o \in PreviewThread : Op(o)' = "show" => At(o)' \notin {"set", "emitted", "shown"}
      BY <1>0, <1>a, <1>f0, <1>f1, <2>1, <2>2 DEF Orderly, Asking, Op, At
    <2> QED  BY <2>3, <2>4, <2>5, <2>6
  <1> QED  BY <1>s, <1>n, <1>w, <1>k, <1>t, <1>q DEF PreviewInv

LEMMA ClampBounds ==
  ASSUME NEW x \in Int, NEW low \in Int, NEW high \in Int
  PROVE  /\ Clamp(x, low, high) \in Int /\ Clamp(x, low, high) >= low
         /\ low =< high => Clamp(x, low, high) =< high
         /\ x >= low => Clamp(x, low, high) =< x
         /\ x =< high => Clamp(x, low, high) >= x
  BY DEF Clamp, Most, Least

Rects == [left : Int, top : Int, width : Nat \ {0}, height : Nat \ {0}]

LEMMA SourceIsRect == ASSUME NEW a \in Rects PROVE SourceRect(a) \in Rects
  <1> DEFINE l == Most(a.left, Screen.left)
             u == Most(a.top, Screen.top)
             w == Least(Right(a), Right(Screen)) - l
             h == Least(Bottom(a), Bottom(Screen)) - u
  <1>1. l \in Int /\ u \in Int /\ w \in Int /\ h \in Int
    BY PreviewAssumption DEF Rects, Most, Least, Right, Bottom
  <1>2. [left |-> l, top |-> u, width |-> w, height |-> h] \in Rects \/ w =< 0 \/ h =< 0
    <2> HIDE DEF l, u, w, h
    <2> QED  BY <1>1 DEF Rects
  <1>3. ClampRect(a, Screen) \in Rects
    <2>1. a.left \in Int /\ a.top \in Int /\ Screen.left \in Int /\ Screen.top \in Int
          /\ Most(Right(Screen) - a.width, Screen.left) \in Int /\ Most(Bottom(Screen) - a.height, Screen.top) \in Int
      BY PreviewAssumption DEF Rects, Most, Right, Bottom
    <2>2. \A x, y \in Int : [a EXCEPT !.left = x, !.top = y] \in Rects
      BY DEF Rects
    <2> QED  BY <2>1, <2>2, ClampBounds DEF ClampRect
  <1> QED  BY <1>2, <1>3 DEF SourceRect

\* The numbers behind a panel: where it would be, the rectangle it is kept in, and where it is.
LEMMA PanelNumbers ==
  ASSUME NEW src \in Rects
  PROVE  \E x, y, mx, my \in Int :
           LET r == RawPanelRect(src, Placement(src))
               p == PanelRect(src)
           IN  /\ r.left = x /\ r.top = y
               /\ mx = Most(Screen.left + Margin + Most(Screen.width - 2 * Margin, 1) - PanelSize.width, Screen.left + Margin)
               /\ my = Most(Screen.top + Margin + Most(Screen.height - 2 * Margin, 1) - PanelSize.height, Screen.top + Margin)
               /\ p.left = Clamp(x, Screen.left + Margin, mx) /\ p.top = Clamp(y, Screen.top + Margin, my)
               /\ p.width = PanelSize.width /\ p.height = PanelSize.height
  <1> DEFINE r == RawPanelRect(src, Placement(src))
  <1>1. r.left \in Int /\ r.top \in Int /\ r.width = PanelSize.width /\ r.height = PanelSize.height
        /\ r = [left |-> r.left, top |-> r.top, width |-> PanelSize.width, height |-> PanelSize.height]
    BY PreviewAssumption DEF RawPanelRect, Rects, Right, Bottom
  <1> HIDE DEF r
  <1> DEFINE mx == Most(Screen.left + Margin + Most(Screen.width - 2 * Margin, 1) - PanelSize.width, Screen.left + Margin)
             my == Most(Screen.top + Margin + Most(Screen.height - 2 * Margin, 1) - PanelSize.height, Screen.top + Margin)
  <1>2. mx \in Int /\ my \in Int
    BY PreviewAssumption DEF Most
  <1>3. PanelRect(src) = [r EXCEPT !.left = Clamp(r.left, Screen.left + Margin, mx), !.top = Clamp(r.top, Screen.top + Margin, my)]
    <2> DEFINE b == InsetRect(Screen, Margin)
    <2>1. /\ b.left = Screen.left + Margin /\ Right(b) = Screen.left + Margin + Most(Screen.width - 2 * Margin, 1)
          /\ b.top = Screen.top + Margin /\ Bottom(b) = Screen.top + Margin + Most(Screen.height - 2 * Margin, 1)
      BY DEF InsetRect, Right, Bottom
    <2>2. PanelRect(src) = ClampRect(r, b)
      BY DEF PanelRect, r
    <2> HIDE DEF b
    <2>3. ClampRect(r, b) = [r EXCEPT !.left = Clamp(r.left, b.left, Most(Right(b) - r.width, b.left)),
                                      !.top = Clamp(r.top, b.top, Most(Bottom(b) - r.height, b.top))]
      BY DEF ClampRect
    <2>4. Most(Right(b) - r.width, b.left) = mx /\ Most(Bottom(b) - r.height, b.top) = my
      <3>1. Right(b) - r.width = Screen.left + Margin + Most(Screen.width - 2 * Margin, 1) - PanelSize.width
            /\ Bottom(b) - r.height = Screen.top + Margin + Most(Screen.height - 2 * Margin, 1) - PanelSize.height
        <4>1. /\ Screen.left + Margin \in Int /\ Most(Screen.width - 2 * Margin, 1) \in Int /\ PanelSize.width \in Int
              /\ Screen.top + Margin \in Int /\ Most(Screen.height - 2 * Margin, 1) \in Int /\ PanelSize.height \in Int
          BY PreviewAssumption DEF Most
        <4>2. Screen.left \in Int /\ Screen.top \in Int /\ Margin \in Int
          BY PreviewAssumption
        <4> QED  BY <1>1, <2>1, <4>1, <4>2
      <3> QED  BY <2>1, <3>1, Zenon
    <2> QED  BY <2>1, <2>2, <2>3, <2>4
  <1> HIDE DEF mx, my
  <1>4. /\ PanelRect(src).left = Clamp(r.left, Screen.left + Margin, mx) /\ PanelRect(src).top = Clamp(r.top, Screen.top + Margin, my)
        /\ PanelRect(src).width = PanelSize.width /\ PanelRect(src).height = PanelSize.height
    BY <1>1, <1>3
  <1> QED  BY <1>1, <1>2, <1>4 DEF r, mx, my

LEMMA PanelIsBeside ==
  ASSUME NEW src \in Rects
  PROVE  LET p == PanelRect(src)
         IN  /\ p.left >= Screen.left + Margin /\ p.top >= Screen.top + Margin
             /\ PanelSize.width + 2 * Margin <= Screen.width => Right(p) <= Right(Screen) - Margin
             /\ PanelSize.height + 2 * Margin <= Screen.height => Bottom(p) <= Bottom(Screen) - Margin
             /\ Fits(src, Placement(src)) => \/ p.left >= Right(src) + Gap \/ Right(p) <= src.left - Gap
                                             \/ p.top >= Bottom(src) + Gap \/ Bottom(p) <= src.top - Gap
  <1> DEFINE p == PanelRect(src)
             r == RawPanelRect(src, Placement(src))
  <1>0. PICK x \in Int, y \in Int, mx \in Int, my \in Int :
           /\ r.left = x /\ r.top = y
           /\ mx = Most(Screen.left + Margin + Most(Screen.width - 2 * Margin, 1) - PanelSize.width, Screen.left + Margin)
           /\ my = Most(Screen.top + Margin + Most(Screen.height - 2 * Margin, 1) - PanelSize.height, Screen.top + Margin)
           /\ p.left = Clamp(x, Screen.left + Margin, mx) /\ p.top = Clamp(y, Screen.top + Margin, my)
           /\ p.width = PanelSize.width /\ p.height = PanelSize.height
    BY PanelNumbers
  <1> HIDE DEF p, r
  <1>1. /\ Screen.left \in Int /\ Screen.top \in Int /\ Screen.width \in Nat /\ Screen.height \in Nat
        /\ PanelSize.width \in Nat \ {0} /\ PanelSize.height \in Nat \ {0} /\ Margin \in Nat /\ Gap \in Nat
    BY PreviewAssumption
  <1>2. /\ p.left \in Int /\ p.left >= Screen.left + Margin
        /\ Screen.left + Margin =< mx => p.left =< mx
        /\ x >= Screen.left + Margin => p.left =< x
        /\ x =< mx => p.left >= x
    <2> DEFINE low == Screen.left + Margin
    <2>1. low \in Int
      BY <1>1
    <2>2. p.left = Clamp(x, low, mx)
      BY <1>0
    <2> HIDE DEF low
    <2>3. /\ Clamp(x, low, mx) \in Int /\ Clamp(x, low, mx) >= low
          /\ low =< mx => Clamp(x, low, mx) =< mx
          /\ x >= low => Clamp(x, low, mx) =< x
          /\ x =< mx => Clamp(x, low, mx) >= x
      BY <2>1, ClampBounds
    <2> QED  BY <2>2, <2>3 DEF low
  <1>3. /\ p.top \in Int /\ p.top >= Screen.top + Margin
        /\ Screen.top + Margin =< my => p.top =< my
        /\ y >= Screen.top + Margin => p.top =< y
        /\ y =< my => p.top >= y
    <2> DEFINE low == Screen.top + Margin
    <2>1. low \in Int
      BY <1>1
    <2>2. p.top = Clamp(y, low, my)
      BY <1>0
    <2> HIDE DEF low
    <2>3. /\ Clamp(y, low, my) \in Int /\ Clamp(y, low, my) >= low
          /\ low =< my => Clamp(y, low, my) =< my
          /\ y >= low => Clamp(y, low, my) =< y
          /\ y =< my => Clamp(y, low, my) >= y
      BY <2>1, ClampBounds
    <2> QED  BY <2>2, <2>3 DEF low
  <1>4. /\ mx >= Screen.left + Margin /\ my >= Screen.top + Margin
        /\ mx >= Right(Screen) - Margin - PanelSize.width /\ my >= Bottom(Screen) - Margin - PanelSize.height
        /\ PanelSize.width + 2 * Margin <= Screen.width => mx + PanelSize.width <= Right(Screen) - Margin
        /\ PanelSize.height + 2 * Margin <= Screen.height => my + PanelSize.height <= Bottom(Screen) - Margin
    BY <1>0, <1>1 DEF Most, Right, Bottom
  <1>5. Right(p) = p.left + PanelSize.width /\ Bottom(p) = p.top + PanelSize.height
    BY <1>0 DEF Right, Bottom
  <1>6. ASSUME Fits(src, Placement(src))
        PROVE  \/ p.left >= Right(src) + Gap \/ Right(p) <= src.left - Gap
               \/ p.top >= Bottom(src) + Gap \/ Bottom(p) <= src.top - Gap
    <2>0. src.left \in Int /\ src.top \in Int /\ Right(src) \in Int /\ Bottom(src) \in Int
      BY DEF Rects, Right, Bottom
    <2>1. CASE Placement(src) = "top"
      <3>1. y = src.top - Gap - PanelSize.height /\ src.top - Gap - PanelSize.height - Margin >= Screen.top
        BY <1>0, <1>6, <2>1 DEF r, RawPanelRect, Fits
      <3> QED  BY <1>1, <1>3, <1>5, <2>0, <3>1
    <2>2. CASE Placement(src) = "right"
      <3>1. x = Right(src) + Gap /\ Right(src) + Gap + PanelSize.width + Margin <= Right(Screen)
        BY <1>0, <1>6, <2>2 DEF r, RawPanelRect, Fits
      <3>2. Right(Screen) \in Int
        BY <1>1 DEF Right
      <3> QED  BY <1>1, <1>2, <1>4, <2>0, <3>1, <3>2
    <2>3. CASE Placement(src) = "left"
      <3>1. x = src.left - Gap - PanelSize.width /\ src.left - Gap - PanelSize.width - Margin >= Screen.left
        BY <1>0, <1>6, <2>3 DEF r, RawPanelRect, Fits
      <3> QED  BY <1>1, <1>2, <1>5, <2>0, <3>1
    <2>4. CASE Placement(src) = "bottom"
      <3>1. y = Bottom(src) + Gap /\ Bottom(src) + Gap + PanelSize.height + Margin <= Bottom(Screen)
        BY <1>0, <1>6, <2>4 DEF r, RawPanelRect, Fits
      <3>2. Bottom(Screen) \in Int
        BY <1>1 DEF Bottom
      <3> QED  BY <1>1, <1>3, <1>4, <2>0, <3>1, <3>2
    <2> QED  BY <2>1, <2>2, <2>3, <2>4 DEF Placement
  <1>7. /\ PanelSize.width + 2 * Margin <= Screen.width => Right(p) <= Right(Screen) - Margin
        /\ PanelSize.height + 2 * Margin <= Screen.height => Bottom(p) <= Bottom(Screen) - Margin
    <2>1. Right(Screen) \in Int /\ Bottom(Screen) \in Int
      BY <1>1 DEF Right, Bottom
    <2> QED  BY <1>1, <1>2, <1>3, <1>4, <1>5, <2>1
  <1> QED  BY <1>2, <1>3, <1>6, <1>7 DEF p

LEMMA PreviewStarts == PreviewInit => PreviewInv
  <1> SUFFICES ASSUME PreviewInit PROVE PreviewInv
    OBVIOUS
  <1>1. PreviewShape
    <2>1. clipWindow \in ClipWindows /\ latest \in Latests /\ hideTask \in HideTasks
      BY DEF PreviewInit, ClipWindows, Latests, HideTasks, NoTask
    <2>2. previewWindow \in PreviewWindows /\ previewTally \in PreviewTallies
      BY DEF PreviewInit, PreviewWindows, PreviewTallies
    <2> QED  BY <2>1, <2>2, CallsMove DEF PreviewInit, PreviewShape
  <1>2. NumbersGiven
    BY DEF PreviewInit, NumbersGiven, NoState, NoTask, NoCall
  <1>3. OneWindows
    BY DEF PreviewInit, OneWindows, Op, At, NoCall, StepsOf, Windowing
  <1>4. OneAsks
    BY DEF PreviewInit, OneAsks, AskerFinds, Asking, Op, At, NoCall, NoTask
  <1>5. TakenBack /\ Presented
    BY DEF PreviewInit, TakenBack, Presented, Op, NoCall
  <1> QED  BY <1>1, <1>2, <1>3, <1>4, <1>5 DEF PreviewInv

LEMMA PreviewStays == PreviewInv /\ [PreviewNext]_previewVars => PreviewInv'
  <1> SUFFICES ASSUME PreviewInv, [PreviewNext]_previewVars PROVE PreviewInv'
    OBVIOUS
  <1>1. CASE UNCHANGED previewVars
    <2>1. UNCHANGED <<clipWindow, latest, previewState, hideTask, previewWindow, previewCalls, panel, previewTally>>
      BY <1>1 DEF previewVars
    <2>2. (PreviewShape /\ NumbersGiven)'
      BY <2>1 DEF PreviewInv, PreviewShape, NumbersGiven
    <2>3. (OneWindows /\ OneAsks)'
      BY <2>1 DEF PreviewInv, OneWindows, OneAsks, Orderly, AskerFinds, Asking, Windowing, Doomed, Op, At
    <2>4. TakenBack'
      BY <2>1 DEF PreviewInv, TakenBack, Orderly, Leaving, WillHide, Closing, LastOne, Op, At
    <2>5. Presented'
      BY <2>1 DEF PreviewInv, Presented, Orderly, OnItsWay, Served, Unserved, Shown, Doomed, Op, At
    <2> QED  BY <2>2, <2>3, <2>4, <2>5 DEF PreviewInv
  <1>2. CASE PreviewNext
    <2>1. ASSUME NEW t \in PreviewThread, PreviewCallStep(t) \/ ShowFails(t) PROVE PreviewInv'
      BY <2>1, NumberShowStays, PrepareShowStays, SetStateStays, EmitStateStays, ShowPreviewWindowStays, ShowReturnsStays,
         NumberCloseStays, EmitCloseStays, ScheduleHideStays, HideAtOnceStays, HideClipboardStays, ShowClipboardStays,
         ResumeStays, ShowFailsStays DEF PreviewCallStep
    <2>2. ASSUME NEW t \in PreviewThread, NEW item \in Previewed, CallShow(t, item) PROVE PreviewInv'
      BY <2>2, CallShowStays
    <2>3. ASSUME NEW t \in PreviewThread, NEW op \in {"close", "hideClipboard", "showClipboard"}, CallOther(t, op) PROVE PreviewInv'
      BY <2>3, CallOtherStays
    <2>4. CASE TaskWakes \/ TaskLooks \/ TaskHides \/ MountPage \/ DestroyIdle
      BY <2>4, TaskWakesStays, TaskLooksStays, TaskHidesStays, MountPageStays, DestroyIdleStays
    <2> QED  BY <1>2, <2>1, <2>2, <2>3, <2>4 DEF PreviewNext
  <1> QED  BY <1>1, <1>2

LEMMA PreviewServes == PreviewInv => PreviewSound /\ PreviewTypeOK
  <1> SUFFICES ASSUME PreviewInv PROVE PreviewSound /\ PreviewTypeOK
    OBVIOUS
  <1>0. PreviewShape /\ NumbersGiven /\ OneWindows /\ OneAsks /\ TakenBack /\ Presented
    BY DEF PreviewInv
  <1>1. PreviewTypeOK
    <2>1. latest.req \in Nat /\ latest.presented \in Nat /\ previewState.req \in Nat /\ hideTask.req \in Nat
          /\ \A t \in PreviewThread : previewCalls[t].req \in Nat
      BY <1>0 DEF PreviewShape, Latests, States, HideTasks, CallCell
    <2>2. latest.presented \in 0..latest.req /\ previewState.req \in 0..latest.req /\ hideTask.req \in 0..latest.req
          /\ \A t \in PreviewThread : previewCalls[t].req \in 0..latest.req
      BY <1>0, <2>1 DEF NumbersGiven
    <2>3. /\ clipWindow.visible \in BOOLEAN /\ clipWindow.suppressed \in BOOLEAN /\ latest.session \in Nat
          /\ previewState.item \in Previewed \cup {NoPreview} /\ previewWindow.shows \in Previewed \cup {NoPreview}
          /\ panel \in Previewed \cup {NoPreview} /\ \A t \in PreviewThread : previewCalls[t].item \in Previewed \cup {NoPreview}
      BY <1>0 DEF PreviewShape, ClipWindows, Latests, States, PreviewWindows, CallCell
    <2> QED  BY <2>2, <2>3 DEF PreviewTypeOK
  <1>2. PreviewAtRest => /\ \A t \in PreviewThread : Op(t) = "none"
                         /\ hideTask.req = 0 /\ hideTask.woken = 0 /\ ~hideTask.late
    BY DEF PreviewAtRest, Op, NoCall, NoTask
  <1>3. PreviewFollows
    BY <1>0, <1>2 DEF PreviewFollows, TakenBack, Orderly, Leaving, WillHide, Closing, LastOne
  <1>4. PreviewShowsState
    BY <1>0, <1>2 DEF PreviewShowsState, Presented, Orderly, Served, Unserved, Shown
  <1>5. VisibleIsServed
    BY <1>0, <1>2 DEF VisibleIsServed, OneWindows
  <1>6. PanelBeside
    <2> SUFFICES ASSUME panel # NoPreview PROVE PanelBeside
      BY DEF PanelBeside
    <2>1. AnchorOf[panel] \in Rects
      BY <1>0, PreviewAssumption DEF PreviewShape, Rects
    <2>2. SourceRect(AnchorOf[panel]) \in Rects
      BY <2>1, SourceIsRect
    <2> QED  BY <2>2, PanelIsBeside DEF PanelBeside
  <1> QED  BY <1>1, <1>3, <1>4, <1>5, <1>6 DEF PreviewSound


-----------------------------------------------------------------------------
(* The keys: what is sent to the search box, what is taken and not sent, what is buffered and the   *)
(* key in the hook were typed in this order, if nothing raced; and who turned the hook off without   *)
(* hiding the window turns it on again.                                                             *)

KeysSearched == 1..MaxKeys
Growing(s) == \A i, j \in 1..Len(s) : i < j => s[i] < s[j]
AllBefore(s, t) == \A i \in 1..Len(s), j \in 1..Len(t) : s[i] < t[j]
AllUpTo(s, k) == \A i \in 1..Len(s) : s[i] =< k
Replaying(s) == tasks[s] = "replaying"
LastKey == IF inHook.at = "idle" THEN keyTally.typed ELSE keyTally.typed - 1

KeysCounted ==
    /\ handoff.session = 0 => handoff.keys = <<>>
    /\ inHook.at # "idle" => inHook.key = keyTally.typed /\ inHook.key # 0
    /\ inHook.at = "routing" => inHook.sawNav
    /\ AllUpTo(search, LastKey) /\ AllUpTo(handoff.keys, LastKey)
    /\ \A s \in Session : Replaying(s) => AllUpTo(replay[s], LastKey)

KeysOrdered ==
    ~keyTally.raced /\ ~keyTally.overlapped =>
      /\ Growing(search) /\ Growing(handoff.keys) /\ AllBefore(search, handoff.keys)
      /\ \A s, o \in Session : Replaying(s) /\ Replaying(o) => s = o
      /\ \A s \in Session : Replaying(s) =>
           Growing(replay[s]) /\ AllBefore(search, replay[s]) /\ AllBefore(replay[s], handoff.keys)
      /\ handoff.session # 0 => nav \/ call.hide = "quitting"

\* The list has its keys, or somebody gives them back.
NavDue ==
    \/ nav \/ call.show = "enabling" \/ edit.on \/ edit.step = "enabling"
    \/ \E s \in Session : undo[s] \in {"looking", "enabling"} \/ Replaying(s)

HookRight ==
    /\ hookId # 0 => hooks[hookId] = "running"
    /\ \A s \in Session : s > keyTally.begun => tasks[s] = "none"
    /\ ~keyTally.overlapped =>
         /\ call.hide # "no" => ~clip.visible
         /\ call.hide = "quitting" => ~nav
         /\ clip.visible => NavDue
         /\ nav => \E t \in HookThread : hooks[t] \in {"starting", "running"}

LEMMA KeysGrow ==
  ASSUME NEW s \in Seq(Nat), NEW k \in Nat
  PROVE  /\ Append(s, k) \in Seq(Nat) /\ Len(Append(s, k)) = Len(s) + 1
         /\ AllUpTo(s, k) => AllUpTo(Append(s, k), k)
         /\ Growing(s) /\ AllUpTo(s, k - 1) => Growing(Append(s, k))
         /\ \A t \in Seq(Nat) : AllBefore(t, s) /\ AllUpTo(t, k - 1) => AllBefore(t, Append(s, k))
  <1> DEFINE a == Append(s, k)
  <1>1. a \in Seq(Nat) /\ Len(a) = Len(s) + 1 /\ a[Len(s) + 1] = k /\ \A i \in 1..Len(s) : a[i] = s[i]
    OBVIOUS
  <1>2. Len(s) \in Nat /\ \A i \in 1..Len(s) : s[i] \in Nat
    OBVIOUS
  <1> HIDE DEF a
  <1>3. \A i \in 1..Len(a) : i \in 1..Len(s) \/ i = Len(s) + 1
    BY <1>1, <1>2
  <1>4. AllUpTo(s, k) => AllUpTo(a, k)
    BY <1>1, <1>3 DEF AllUpTo
  <1>5. ASSUME Growing(s), AllUpTo(s, k - 1) PROVE Growing(a)
    <2> SUFFICES ASSUME NEW i \in 1..Len(a), NEW j \in 1..Len(a), i < j PROVE a[i] < a[j]
      BY DEF Growing
    <2>1. i \in 1..Len(s)
      BY <1>1, <1>2
    <2>2. CASE j \in 1..Len(s)
      BY <2>1, <2>2, <1>1, <1>5 DEF Growing
    <2>3. CASE j = Len(s) + 1
      BY <2>1, <2>3, <1>1, <1>2, <1>5 DEF AllUpTo
    <2> QED  BY <2>2, <2>3, <1>3
  <1>6. ASSUME NEW t \in Seq(Nat), AllBefore(t, s), AllUpTo(t, k - 1) PROVE AllBefore(t, a)
    <2> SUFFICES ASSUME NEW i \in 1..Len(t), NEW j \in 1..Len(a) PROVE t[i] < a[j]
      BY DEF AllBefore
    <2>1. CASE j \in 1..Len(s)
      BY <2>1, <1>1, <1>6 DEF AllBefore
    <2>2. CASE j = Len(s) + 1
      <3>1. t[i] =< k - 1 /\ t[i] \in Nat
        BY <1>6 DEF AllUpTo
      <3> QED  BY <2>2, <1>1, <3>1
    <2> QED  BY <2>1, <2>2, <1>3
  <1> QED  BY <1>1, <1>4, <1>5, <1>6 DEF a

LEMMA KeysJoin ==
  ASSUME NEW s \in Seq(Nat), NEW t \in Seq(Nat), NEW u \in Seq(Nat), NEW k \in Int
  PROVE  /\ s \o t \in Seq(Nat)
         /\ AllUpTo(s, k) /\ AllUpTo(t, k) => AllUpTo(s \o t, k)
         /\ Growing(s) /\ Growing(t) /\ AllBefore(s, t) => Growing(s \o t)
         /\ AllBefore(s, u) /\ AllBefore(t, u) => AllBefore(s \o t, u)
  <1> DEFINE a == s \o t
  <1>1. /\ a \in Seq(Nat) /\ Len(a) = Len(s) + Len(t)
        /\ \A i \in 1..Len(s) + Len(t) : a[i] = IF i <= Len(s) THEN s[i] ELSE t[i - Len(s)]
    BY ConcatProperties
  <1>2. Len(s) \in Nat /\ Len(t) \in Nat /\ (\A i \in 1..Len(s) : s[i] \in Nat) /\ (\A i \in 1..Len(t) : t[i] \in Nat)
    OBVIOUS
  <1> HIDE DEF a
  <1>3. ASSUME NEW i \in 1..Len(a)
        PROVE  \/ i \in 1..Len(s) /\ a[i] = s[i]
               \/ i > Len(s) /\ i - Len(s) \in 1..Len(t) /\ a[i] = t[i - Len(s)]
    BY <1>1, <1>2
  <1>4. AllUpTo(s, k) /\ AllUpTo(t, k) => AllUpTo(a, k)
    BY <1>3 DEF AllUpTo
  <1>5. ASSUME Growing(s), Growing(t), AllBefore(s, t) PROVE Growing(a)
    <2> SUFFICES ASSUME NEW i \in 1..Len(a), NEW j \in 1..Len(a), i < j PROVE a[i] < a[j]
      BY DEF Growing
    <2>1. i \in Nat /\ j \in Nat
      BY <1>1, <1>2
    <2>2. CASE j \in 1..Len(s) /\ a[j] = s[j]
      <3>0. ~(i > Len(s))
        BY <2>1, <2>2, <1>2
      <3>1. i \in 1..Len(s) /\ a[i] = s[i]
        BY <3>0, <1>3
      <3> QED  BY <2>2, <3>1, <1>5 DEF Growing
    <2>3. CASE j > Len(s) /\ j - Len(s) \in 1..Len(t) /\ a[j] = t[j - Len(s)]
      <3>1. CASE i \in 1..Len(s) /\ a[i] = s[i]
        BY <2>3, <3>1, <1>5 DEF AllBefore
      <3>2. CASE i > Len(s) /\ i - Len(s) \in 1..Len(t) /\ a[i] = t[i - Len(s)]
        <4>1. i - Len(s) < j - Len(s)
          BY <2>1, <1>2
        <4> QED  BY <4>1, <2>3, <3>2, <1>5 DEF Growing
      <3> QED  BY <3>1, <3>2, <1>3
    <2> QED  BY <2>2, <2>3, <1>3
  <1>6. ASSUME AllBefore(s, u), AllBefore(t, u) PROVE AllBefore(a, u)
    BY <1>3, <1>6 DEF AllBefore
  <1> QED  BY <1>1, <1>4, <1>5, <1>6 DEF a






HookCells == [HookThread -> {"none", "starting", "running", "quitting", "gone"}]
Handoffs == [session : Session \cup {0}, keys : Seq(KeysSearched), overflowed : BOOLEAN]
HookKeys == [key : 0..MaxKeys, at : {"idle", "buffering", "routing"}, sawNav : BOOLEAN]
ClipCells == [visible : BOOLEAN, front : BOOLEAN]
CallCells == [show : {"no", "enabling"}, hide : {"no", "cancelling", "suspending", "quitting"}, overflow : BOOLEAN]
TaskStep == {"none", "asked", "prepared", "confirming", "replaying", "done"}
UndoStep == {"no", "looking", "enabling", "done"}
EditCells == [on : BOOLEAN, step : {"no", "enabling"}]
KeyTallies == [typed : 0..MaxKeys, begun : 0..Cardinality(Session), calls : 0..MaxWindowCalls,
               raced : BOOLEAN, overlapped : BOOLEAN]

KeyShape ==
    /\ nav \in BOOLEAN /\ hookId \in HookThread \cup {0} /\ hooks \in HookCells
    /\ handoff \in Handoffs /\ Len(handoff.keys) =< HandoffCapacity
    /\ inHook \in HookKeys /\ search \in Seq(KeysSearched) /\ replay \in [Session -> Seq(KeysSearched)]
    /\ clip \in ClipCells /\ call \in CallCells
    /\ tasks \in [Session -> TaskStep] /\ undo \in [Session -> UndoStep]
    /\ edit \in EditCells /\ keyTally \in KeyTallies

KeyInv == KeyShape /\ KeysCounted /\ KeysOrdered /\ HookRight

LEMMA KeyBounds ==
  /\ Cardinality(Session) \in Nat /\ MaxKeys \in Nat /\ MaxWindowCalls \in Nat /\ HandoffCapacity \in Nat \ {0}
  /\ Session = 1..Cardinality(Session) /\ 0 \notin Session /\ 0 \notin HookThread
  <1>1. Cardinality(Session) \in Nat
    BY SearchKeysAssumption, FS_CardinalityType
  <1>2. Session = 1..Cardinality(Session)
    BY SearchKeysAssumption
  <1>3. 0 \notin Session
    BY <1>1, <1>2
  <1>4. 0 \notin HookThread
    <2>1. Cardinality(HookThread) \in Nat
      BY SearchKeysAssumption, FS_CardinalityType
    <2>2. HookThread = 1..Cardinality(HookThread)
      BY SearchKeysAssumption
    <2> QED  BY <2>1, <2>2
  <1> QED  BY <1>1, <1>2, <1>3, <1>4, SearchKeysAssumption

LEMMA TalliesMove ==
  ASSUME NEW k \in KeyTallies, NEW b \in BOOLEAN
  PROVE  /\ \A n \in 0..MaxWindowCalls : [k EXCEPT !.calls = n, !.overlapped = b] \in KeyTallies
         /\ \A n \in 0..Cardinality(Session) : [k EXCEPT !.begun = n, !.raced = b] \in KeyTallies
         /\ \A n \in 0..MaxKeys : [k EXCEPT !.typed = n] \in KeyTallies /\ [k EXCEPT !.typed = n, !.raced = b] \in KeyTallies
  BY DEF KeyTallies

LEMMA KeysStart == SearchKeysInit => KeyInv
  <1> SUFFICES ASSUME SearchKeysInit PROVE KeyInv
    OBVIOUS
  <1>1. /\ NoHandoff \in Handoffs /\ Len(NoHandoff.keys) =< HandoffCapacity
        /\ NoKey \in HookKeys /\ <<>> \in Seq(KeysSearched)
    BY KeyBounds DEF Handoffs, NoHandoff, HookKeys, NoKey
  <1>2. keyTally \in KeyTallies /\ call \in CallCells /\ clip \in ClipCells /\ edit \in EditCells
    BY KeyBounds DEF SearchKeysInit, KeyTallies, CallCells, ClipCells, EditCells
  <1>3. hooks \in HookCells /\ tasks \in [Session -> TaskStep] /\ undo \in [Session -> UndoStep]
    BY DEF SearchKeysInit, HookCells, TaskStep, UndoStep
  <1>4. KeyShape
    BY <1>1, <1>2, <1>3 DEF SearchKeysInit, KeyShape
  <1>5. KeysCounted /\ KeysOrdered /\ HookRight
    BY DEF SearchKeysInit, NoHandoff, NoKey, KeysCounted, KeysOrdered, HookRight, AllUpTo, Growing, AllBefore, Replaying, LastKey
  <1> QED  BY <1>4, <1>5 DEF KeyInv

LEMMA KeyTypesStay == KeyShape /\ KeysCounted /\ SearchKeysNext => KeyShape'
  <1> SUFFICES ASSUME KeyShape, KeysCounted, SearchKeysNext PROVE KeyShape'
    OBVIOUS
  <1>1. CASE TypeKey
    <2>0. keyTally.typed \in Nat /\ NextKey \in 0..MaxKeys /\ NextKey \in KeysSearched
      BY <1>1, KeyBounds DEF TypeKey, NextKey, KeyShape, KeyTallies, KeysSearched
    <2>1. inHook' \in HookKeys
      <3>1. [key |-> NextKey, at |-> "buffering", sawNav |-> FALSE] \in HookKeys
        BY <2>0 DEF HookKeys
      <3> QED  BY <1>1, <3>1 DEF TypeKey, KeyShape
    <2>2. keyTally' \in KeyTallies
      BY <1>1, <2>0, TalliesMove DEF TypeKey, KeyShape
    <2>3. search' \in Seq(KeysSearched)
      <3>1. search \in Seq(KeysSearched)
        BY DEF KeyShape
      <3>2. Append(search, NextKey) \in Seq(KeysSearched)
        BY <2>0, <3>1
      <3> QED  BY <1>1, <3>1, <3>2 DEF TypeKey, LandsIn
    <2> QED  BY <1>1, <2>0, <2>1, <2>2, <2>3 DEF TypeKey, KeyShape
  <1>2. CASE BufferKey
    <2>0. inHook.key \in KeysSearched
      BY <1>2 DEF BufferKey, KeyShape, HookKeys, KeysCounted, KeysSearched
    <2>1. inHook' \in HookKeys
      BY <1>2, KeyBounds DEF BufferKey, KeyShape, HookKeys, NoKey
    <2>2. handoff' \in Handoffs /\ Len(handoff'.keys) =< HandoffCapacity
      <3>1. handoff.keys \in Seq(KeysSearched) /\ Len(handoff.keys) \in Nat
        BY DEF KeyShape, Handoffs
      <3>2. Append(handoff.keys, inHook.key) \in Seq(KeysSearched)
            /\ Len(Append(handoff.keys, inHook.key)) = Len(handoff.keys) + 1
        BY <2>0, <3>1
      <3> DEFINE longer == Append(handoff.keys, inHook.key)
      <3>3. HasRoom => Len(longer) =< HandoffCapacity
        BY <3>1, <3>2, KeyBounds DEF HasRoom
      <3>4. handoff' = IF HasRoom THEN [handoff EXCEPT !.keys = longer] ELSE [handoff EXCEPT !.overflowed = TRUE]
        BY <1>2 DEF BufferKey
      <3> HIDE DEF longer
      <3>5. longer \in Seq(KeysSearched)
        BY <3>2 DEF longer
      <3>6. \A h \in Handoffs : /\ [h EXCEPT !.keys = longer] \in Handoffs /\ [h EXCEPT !.keys = longer].keys = longer
                                /\ [h EXCEPT !.overflowed = TRUE] \in Handoffs /\ [h EXCEPT !.overflowed = TRUE].keys = h.keys
        BY <3>5 DEF Handoffs
      <3>7. handoff \in Handoffs /\ Len(handoff.keys) =< HandoffCapacity
        BY DEF KeyShape
      <3> QED  BY <3>3, <3>4, <3>6, <3>7
    <2>3. call' \in CallCells
      BY <1>2, KeyBounds DEF BufferKey, KeyShape, CallCells
    <2> QED  BY <1>2, <2>0, <2>1, <2>2, <2>3 DEF BufferKey, KeyShape
  <1>3. CASE RouteKey
    <2>0. inHook.key \in KeysSearched
      BY <1>3 DEF RouteKey, KeyShape, HookKeys, KeysCounted, KeysSearched
    <2>1. inHook' \in HookKeys
      <3>1. NoKey \in HookKeys
        BY KeyBounds DEF HookKeys, NoKey
      <3>2. \A h \in HookKeys, b \in BOOLEAN : [h EXCEPT !.at = "routing", !.sawNav = b] \in HookKeys
        BY DEF HookKeys
      <3> QED  BY <1>3, <3>1, <3>2 DEF RouteKey, KeyShape
    <2>2. search' \in Seq(KeysSearched)
      <3>1. search \in Seq(KeysSearched)
        BY DEF KeyShape
      <3>2. Append(search, inHook.key) \in Seq(KeysSearched)
        BY <2>0, <3>1
      <3> QED  BY <1>3, <3>1, <3>2 DEF RouteKey, LandsIn
    <2>3. keyTally' \in KeyTallies
      BY <1>3, KeyBounds DEF RouteKey, KeyShape, KeyTallies
    <2> QED  BY <1>3, <2>0, <2>1, <2>2, <2>3 DEF RouteKey, KeyShape
  <1>4. CASE BeginHandoff
    <2>0. inHook.key \in KeysSearched /\ keyTally.begun + 1 \in Session /\ keyTally.begun + 1 \in 0..Cardinality(Session)
      BY <1>4, KeyBounds DEF BeginHandoff, KeyShape, HookKeys, KeysCounted, KeysSearched, KeyTallies
    <2>1. handoff' \in Handoffs /\ Len(handoff'.keys) =< HandoffCapacity
      BY <1>4, <2>0, KeyBounds DEF BeginHandoff, Handoffs
    <2>2. tasks' \in [Session -> TaskStep]
      BY <1>4, <2>0 DEF BeginHandoff, KeyShape, TaskStep
    <2>3. keyTally' \in KeyTallies
      <3>1. keyTally \in KeyTallies /\ keyTally.raced \in BOOLEAN
        BY DEF KeyShape, KeyTallies
      <3> QED  BY <1>4, <2>0, <3>1, TalliesMove DEF BeginHandoff
    <2>4. inHook' \in HookKeys
      BY <1>4, KeyBounds DEF BeginHandoff, HookKeys, NoKey
    <2> QED  BY <1>4, <2>0, <2>1, <2>2, <2>3, <2>4 DEF BeginHandoff, KeyShape
  <1>5. ASSUME NEW t \in HookThread, HookStarts(t) PROVE KeyShape'
    <2>1. hooks' \in HookCells
      BY <1>5, KeyBounds DEF HookStarts, KeyShape, HookCells, EnableNavigation, FreshThread
    <2>2. hookId' \in HookThread \cup {0}
      BY <1>5, KeyBounds DEF HookStarts, KeyShape
    <2> QED  BY <1>5, <2>1, <2>2 DEF HookStarts, KeyShape, EnableNavigation
  <1>6. ASSUME NEW t \in HookThread, HookEnds(t) PROVE KeyShape'
    <2>1. hooks' \in HookCells
      BY <1>6, KeyBounds DEF HookEnds, KeyShape, HookCells, EnableNavigation, FreshThread
    <2>2. hookId' \in HookThread \cup {0}
      BY <1>6, KeyBounds DEF HookEnds, KeyShape
    <2> QED  BY <1>6, <2>1, <2>2 DEF HookEnds, KeyShape, EnableNavigation
  <1>7. ASSUME NEW s \in Session, Prepare(s) PROVE KeyShape'
    <2>1. tasks' \in [Session -> TaskStep]
      BY <1>7, KeyBounds DEF Prepare, KeyShape, TaskStep
    <2>2. handoff' \in Handoffs /\ Len(handoff'.keys) =< HandoffCapacity
      BY <1>7, KeyBounds DEF Prepare, KeyShape, Handoffs, DropAndSuspend, NoHandoff
    <2>3. clip' \in ClipCells
      BY <1>7, KeyBounds DEF Prepare, KeyShape, ClipCells
    <2> QED  BY <1>7, <2>1, <2>2, <2>3 DEF Prepare, KeyShape
  <1>8. ASSUME NEW s \in Session, GiveUp(s) PROVE KeyShape'
    <2>1. tasks' \in [Session -> TaskStep]
      BY <1>8, KeyBounds DEF GiveUp, KeyShape, TaskStep
    <2>2. handoff' \in Handoffs /\ Len(handoff'.keys) =< HandoffCapacity
      BY <1>8, KeyBounds DEF GiveUp, KeyShape, Handoffs, DropAndSuspend, NoHandoff
    <2>3. nav' \in BOOLEAN
      BY <1>8, KeyBounds DEF GiveUp, KeyShape, EnableNavigation, DropAndSuspend
    <2>4. undo' \in [Session -> UndoStep]
      BY <1>8, KeyBounds DEF GiveUp, KeyShape, UndoStep, DropAndSuspend
    <2> QED  BY <1>8, <2>1, <2>2, <2>3, <2>4 DEF GiveUp, KeyShape, DropAndSuspend
  <1>9. ASSUME NEW s \in Session, Confirm(s) PROVE KeyShape'
    <2>1. tasks' \in [Session -> TaskStep]
      BY <1>9, KeyBounds DEF Confirm, KeyShape, TaskStep
    <2> QED  BY <1>9, <2>1 DEF Confirm, KeyShape
  <1>10. ASSUME NEW s \in Session, Take(s) PROVE KeyShape'
    <2>1. tasks' \in [Session -> TaskStep]
      BY <1>10, KeyBounds DEF Take, KeyShape, TaskStep
    <2>2. nav' \in BOOLEAN
      BY <1>10, KeyBounds DEF Take, KeyShape, EnableNavigation, DropAndSuspend
    <2>3. replay' \in [Session -> Seq(KeysSearched)]
      BY <1>10, KeyBounds DEF Take, KeyShape, Handoffs
    <2>4. handoff' \in Handoffs /\ Len(handoff'.keys) =< HandoffCapacity
      BY <1>10, KeyBounds DEF Take, KeyShape, Handoffs, DropAndSuspend, NoHandoff
    <2>5. keyTally' \in KeyTallies
      BY <1>10, KeyBounds DEF Take, KeyShape, KeyTallies
    <2> QED  BY <1>10, <2>1, <2>2, <2>3, <2>4, <2>5 DEF Take, KeyShape
  <1>11. ASSUME NEW s \in Session, Replay(s) PROVE KeyShape'
    <2>1. tasks' \in [Session -> TaskStep]
      BY <1>11, KeyBounds DEF Replay, KeyShape, TaskStep
    <2>2. search' \in Seq(KeysSearched)
      BY <1>11, KeyBounds DEF Replay, KeyShape, LandsIn
    <2>3. edit' \in EditCells
      BY <1>11, KeyBounds DEF Replay, KeyShape, EditCells
    <2> QED  BY <1>11, <2>1, <2>2, <2>3 DEF Replay, KeyShape
  <1>12. ASSUME NEW s \in Session, TimeOut(s) PROVE KeyShape'
    <2>1. handoff' \in Handoffs /\ Len(handoff'.keys) =< HandoffCapacity
      BY <1>12, KeyBounds DEF TimeOut, KeyShape, Handoffs, DropAndSuspend, NoHandoff
    <2>2. nav' \in BOOLEAN
      BY <1>12, KeyBounds DEF TimeOut, KeyShape, EnableNavigation, DropAndSuspend
    <2>3. undo' \in [Session -> UndoStep]
      BY <1>12, KeyBounds DEF TimeOut, KeyShape, UndoStep, DropAndSuspend
    <2> QED  BY <1>12, <2>1, <2>2, <2>3 DEF TimeOut, KeyShape, DropAndSuspend
  <1>13. ASSUME NEW s \in Session, LookAfterCancel(s) PROVE KeyShape'
    <2>1. undo' \in [Session -> UndoStep]
      BY <1>13, KeyBounds DEF LookAfterCancel, KeyShape, UndoStep, DropAndSuspend
    <2>2. clip' \in ClipCells
      BY <1>13, KeyBounds DEF LookAfterCancel, KeyShape, ClipCells
    <2> QED  BY <1>13, <2>1, <2>2 DEF LookAfterCancel, KeyShape, DropAndSuspend
  <1>14. ASSUME NEW s \in Session, EnableAfterCancel(s) PROVE KeyShape'
    <2>1. nav' \in BOOLEAN
      BY <1>14, KeyBounds DEF EnableAfterCancel, KeyShape, EnableNavigation, DropAndSuspend
    <2>2. hooks' \in HookCells
      BY <1>14, KeyBounds DEF EnableAfterCancel, KeyShape, HookCells, EnableNavigation, FreshThread
    <2>3. undo' \in [Session -> UndoStep]
      BY <1>14, KeyBounds DEF EnableAfterCancel, KeyShape, UndoStep, DropAndSuspend
    <2>4. clip' \in ClipCells
      BY <1>14, KeyBounds DEF EnableAfterCancel, KeyShape, ClipCells
    <2>5. keyTally' \in KeyTallies
      BY <1>14, KeyBounds DEF EnableAfterCancel, KeyShape, KeyTallies
    <2> QED  BY <1>14, <2>1, <2>2, <2>3, <2>4, <2>5 DEF EnableAfterCancel, KeyShape, EnableNavigation, DropAndSuspend
  <1>15. CASE DropOverflowed
    <2>1. call' \in CallCells
      BY <1>15 DEF DropOverflowed, KeyShape, CallCells
    <2>2. NoHandoff \in Handoffs /\ Len(NoHandoff.keys) =< HandoffCapacity
      BY KeyBounds DEF Handoffs, NoHandoff
    <2>3. handoff.session \in Session \cup {0}
      BY DEF KeyShape, Handoffs
    <2>4. handoff' \in Handoffs /\ Len(handoff'.keys) =< HandoffCapacity
      BY <1>15, <2>2 DEF DropOverflowed, KeyShape, DropAndSuspend
    <2>5. undo' \in [Session -> UndoStep] /\ nav' \in BOOLEAN
      BY <1>15, <2>3 DEF DropOverflowed, KeyShape, UndoStep, DropAndSuspend
    <2> QED  BY <1>15, <2>1, <2>2, <2>3, <2>4, <2>5 DEF DropOverflowed, KeyShape
  <1>16. CASE StartEditing
    <2>1. edit' \in EditCells /\ clip' \in ClipCells
      BY <1>16 DEF StartEditing, KeyShape, EditCells, ClipCells
    <2>2. handoff' \in Handoffs /\ Len(handoff'.keys) =< HandoffCapacity
      BY <1>16, KeyBounds DEF StartEditing, Handoffs, NoHandoff
    <2>3. nav' \in BOOLEAN
      BY <1>16 DEF StartEditing
    <2>t. keyTally.calls + 1 \in 0..MaxWindowCalls
      BY <1>16, KeyBounds DEF StartEditing, KeyShape, KeyTallies
    <2>u. keyTally' \in KeyTallies
      BY <1>16, <2>t, TalliesMove DEF StartEditing, KeyShape
    <2> QED  BY <1>16, <2>1, <2>2, <2>3, <2>t, <2>u DEF StartEditing, KeyShape
  <1>17. CASE LookAfterEditing
    <2>1. edit' \in EditCells
      BY <1>17, KeyBounds DEF LookAfterEditing, KeyShape, EditCells
    <2> QED  BY <1>17, <2>1 DEF LookAfterEditing, KeyShape
  <1>18. CASE EnableAfterEditing
    <2>1. nav' \in BOOLEAN
      BY <1>18, KeyBounds DEF EnableAfterEditing, KeyShape, EnableNavigation, DropAndSuspend
    <2>2. hooks' \in HookCells
      BY <1>18, KeyBounds DEF EnableAfterEditing, KeyShape, HookCells, EnableNavigation, FreshThread
    <2>3. edit' \in EditCells
      BY <1>18, KeyBounds DEF EnableAfterEditing, KeyShape, EditCells
    <2>4. clip' \in ClipCells
      BY <1>18, KeyBounds DEF EnableAfterEditing, KeyShape, ClipCells
    <2>5. keyTally' \in KeyTallies
      BY <1>18, KeyBounds DEF EnableAfterEditing, KeyShape, KeyTallies
    <2> QED  BY <1>18, <2>1, <2>2, <2>3, <2>4, <2>5 DEF EnableAfterEditing, KeyShape, EnableNavigation
  <1>19. CASE Shows
    <2>1. call' \in CallCells /\ clip' \in ClipCells
      BY <1>19 DEF Shows, KeyShape, CallCells, ClipCells
    <2>t. keyTally.calls + 1 \in 0..MaxWindowCalls
      BY <1>19, KeyBounds DEF Shows, KeyShape, KeyTallies
    <2>u. keyTally' \in KeyTallies
      BY <1>19, <2>t, TalliesMove DEF Shows, KeyShape
    <2> QED  BY <1>19, <2>1, <2>t, <2>u DEF Shows, KeyShape
  <1>20. CASE ShowEnables
    <2>1. nav' \in BOOLEAN
      BY <1>20, KeyBounds DEF ShowEnables, KeyShape, EnableNavigation, DropAndSuspend
    <2>2. hooks' \in HookCells
      BY <1>20, KeyBounds DEF ShowEnables, KeyShape, HookCells, EnableNavigation, FreshThread
    <2>3. call' \in CallCells
      BY <1>20, KeyBounds DEF ShowEnables, KeyShape, CallCells
    <2>4. keyTally' \in KeyTallies
      BY <1>20, KeyBounds DEF ShowEnables, KeyShape, KeyTallies
    <2> QED  BY <1>20, <2>1, <2>2, <2>3, <2>4 DEF ShowEnables, KeyShape, EnableNavigation
  <1>21. CASE Hides
    <2>1. call' \in CallCells /\ clip' \in ClipCells
      BY <1>21 DEF Hides, KeyShape, CallCells, ClipCells
    <2>t. keyTally.calls + 1 \in 0..MaxWindowCalls
      BY <1>21, KeyBounds DEF Hides, KeyShape, KeyTallies
    <2>u. keyTally' \in KeyTallies
      BY <1>21, <2>t, TalliesMove DEF Hides, KeyShape
    <2> QED  BY <1>21, <2>1, <2>t, <2>u DEF Hides, KeyShape
  <1>22. CASE HideCancels
    <2>1. handoff' \in Handoffs /\ Len(handoff'.keys) =< HandoffCapacity
      BY <1>22, KeyBounds DEF HideCancels, KeyShape, Handoffs, DropAndSuspend, NoHandoff
    <2>2. call' \in CallCells
      BY <1>22, KeyBounds DEF HideCancels, KeyShape, CallCells
    <2> QED  BY <1>22, <2>1, <2>2 DEF HideCancels, KeyShape
  <1>23. CASE HideSuspends
    <2>1. nav' \in BOOLEAN
      BY <1>23, KeyBounds DEF HideSuspends, KeyShape, EnableNavigation, DropAndSuspend
    <2>2. call' \in CallCells
      BY <1>23, KeyBounds DEF HideSuspends, KeyShape, CallCells
    <2> QED  BY <1>23, <2>1, <2>2 DEF HideSuspends, KeyShape
  <1>24. CASE HideQuits
    <2>1. handoff' \in Handoffs /\ Len(handoff'.keys) =< HandoffCapacity
      BY <1>24, KeyBounds DEF HideQuits, KeyShape, Handoffs, DropAndSuspend, NoHandoff, RegisteredAfterQuit
    <2>2. hooks' \in HookCells
      BY <1>24, KeyBounds DEF HideQuits, KeyShape, HookCells, EnableNavigation, FreshThread, RegisteredAfterQuit
    <2>3. hookId' \in HookThread \cup {0}
      BY <1>24, KeyBounds DEF HideQuits, KeyShape, RegisteredAfterQuit
    <2>4. call' \in CallCells
      BY <1>24, KeyBounds DEF HideQuits, KeyShape, CallCells, RegisteredAfterQuit
    <2> QED  BY <1>24, <2>1, <2>2, <2>3, <2>4 DEF HideQuits, KeyShape, EnableNavigation
  <1> QED  BY <1>1, <1>2, <1>3, <1>4, <1>5, <1>6, <1>7, <1>8, <1>9, <1>10, <1>11, <1>12, <1>13, <1>14, <1>15, <1>16, <1>17, <1>18, <1>19, <1>20, <1>21, <1>22, <1>23, <1>24 DEF SearchKeysNext

LEMMA KeysAreNumbers == Seq(KeysSearched) \subseteq Seq(Nat)
  <1> SUFFICES ASSUME NEW s \in Seq(KeysSearched) PROVE s \in Seq(Nat)
    OBVIOUS
  <1>1. PICK n \in Nat : s \in [1..n -> KeysSearched]
    BY SeqDef
  <1>2. s \in [1..n -> Nat]
    BY <1>1 DEF KeysSearched
  <1> QED  BY <1>2, SeqDef

LEMMA FurtherUp ==
  ASSUME NEW s \in Seq(Nat), NEW k \in Int, NEW m \in Int, k =< m, AllUpTo(s, k)
  PROVE  AllUpTo(s, m)
  <1>1. \A i \in 1..Len(s) : s[i] \in Nat /\ s[i] =< k
    BY DEF AllUpTo
  <1> QED  BY <1>1 DEF AllUpTo

\* Keys stay where they are, or those that are buffered are dropped.
KeysAside ==
    /\ UNCHANGED <<search, replay, inHook>>
    /\ keyTally'.typed = keyTally.typed
    /\ handoff' \in {handoff, NoHandoff}
    /\ \A s \in Session : Replaying(s)' => Replaying(s)
    /\ (keyTally.raced => keyTally'.raced) /\ (keyTally.overlapped => keyTally'.overlapped)

LEMMA AsideStays ==
  ASSUME KeyInv, KeysAside,
         ~keyTally'.raced /\ ~keyTally'.overlapped /\ handoff'.session # 0 => nav' \/ call'.hide = "quitting"
  PROVE  KeysCounted' /\ KeysOrdered'
  <1>1. KeysCounted /\ KeysOrdered
    BY DEF KeyInv
  <1>2. /\ UNCHANGED <<search, replay, inHook>> /\ keyTally'.typed = keyTally.typed
        /\ handoff' \in {handoff, NoHandoff} /\ \A s \in Session : Replaying(s)' => Replaying(s)
        /\ (keyTally.raced => keyTally'.raced) /\ (keyTally.overlapped => keyTally'.overlapped)
    BY DEF KeysAside
  <1>3. LastKey' = LastKey
    BY <1>2 DEF LastKey
  <1>4. handoff'.keys = handoff.keys \/ handoff'.keys = <<>>
    BY <1>2 DEF NoHandoff
  <1>5. handoff'.session = 0 => handoff'.keys = <<>>
    BY <1>1, <1>2 DEF NoHandoff, KeysCounted
  <1>6. (\A k : AllUpTo(handoff.keys, k) => AllUpTo(handoff'.keys, k)) /\ (Growing(handoff.keys) => Growing(handoff'.keys))
        /\ \A t : AllBefore(t, handoff.keys) => AllBefore(t, handoff'.keys)
    <2>1. (\A k : AllUpTo(<<>>, k)) /\ Growing(<<>>) /\ \A t : AllBefore(t, <<>>)
      BY DEF AllUpTo, Growing, AllBefore
    <2> QED  BY <1>4, <2>1
  <1>7. KeysCounted'
    BY <1>1, <1>2, <1>3, <1>5, <1>6 DEF KeysCounted
  <1>8. KeysOrdered'
    BY <1>1, <1>2, <1>6 DEF KeysOrdered
  <1> QED  BY <1>7, <1>8

LEMMA KeysMove ==
  ASSUME KeyInv, NEW k \in Nat, AllUpTo(search, k - 1), AllUpTo(handoff.keys, k - 1),
         \A s \in Session : Replaying(s) => AllUpTo(replay[s], k - 1)
  PROVE  /\ AllUpTo(search, k) /\ AllUpTo(handoff.keys, k) /\ \A s \in Session : Replaying(s) => AllUpTo(replay[s], k)
         /\ AllUpTo(Append(search, k), k) /\ AllUpTo(Append(handoff.keys, k), k)
         /\ Growing(search) => Growing(Append(search, k))
         /\ Growing(handoff.keys) => Growing(Append(handoff.keys, k))
         /\ AllBefore(search, handoff.keys) => AllBefore(search, Append(handoff.keys, k))
         /\ \A s \in Session : Replaying(s) /\ AllBefore(replay[s], handoff.keys) => AllBefore(replay[s], Append(handoff.keys, k))
         /\ AllUpTo(<<k>>, k) /\ Growing(<<k>>) /\ AllBefore(search, <<k>>)
         /\ \A s \in Session : Replaying(s) => AllBefore(replay[s], <<k>>)
         /\ AllBefore(Append(search, k), <<>>)
  <1>1. search \in Seq(Nat) /\ handoff.keys \in Seq(Nat) /\ \A s \in Session : replay[s] \in Seq(Nat)
    BY KeysAreNumbers DEF KeyInv, KeyShape, Handoffs
  <1>2. <<>> \in Seq(Nat) /\ Append(<<>>, k) = <<k>> /\ Growing(<<>>) /\ AllUpTo(<<>>, k - 1) /\ \A t : AllBefore(t, <<>>)
    BY DEF Growing, AllUpTo, AllBefore
  <1>3. \A s \in Seq(Nat) : AllUpTo(s, k - 1) => AllUpTo(s, k)
    BY FurtherUp, k - 1 \in Int, k \in Int, k - 1 =< k
  <1>4. \A s \in Seq(Nat) :
          /\ AllUpTo(s, k) => AllUpTo(Append(s, k), k)
          /\ Growing(s) /\ AllUpTo(s, k - 1) => Growing(Append(s, k))
          /\ \A t \in Seq(Nat) : AllBefore(t, s) /\ AllUpTo(t, k - 1) => AllBefore(t, Append(s, k))
    BY KeysGrow
  <1>5. AllUpTo(<<k>>, k) /\ Growing(<<k>>) /\ \A t \in Seq(Nat) : AllUpTo(t, k - 1) => AllBefore(t, <<k>>)
    <2>1. AllUpTo(<<>>, k)
      BY <1>2, <1>3
    <2> QED  BY <1>2, <1>4, <2>1
  <1> QED  BY <1>1, <1>2, <1>3, <1>4, <1>5

LEMMA TypeKeyCounts ==
  ASSUME KeyInv, TypeKey
  PROVE  KeysCounted' /\ KeysOrdered'
  <1>1. KeyShape /\ KeysCounted /\ KeysOrdered /\ HookRight
    BY DEF KeyInv
  <1>2. /\ inHook = NoKey /\ inHook.at = "idle" /\ clip.visible /\ LastKey = keyTally.typed
        /\ UNCHANGED <<nav, handoff, replay, call, tasks>>
    BY DEF TypeKey, NoKey, LastKey
  <1>3. keyTally.typed \in Nat /\ NextKey = keyTally.typed + 1 /\ NextKey \in Nat /\ NextKey - 1 = LastKey /\ NextKey # 0
    BY <1>1, <1>2 DEF KeyShape, KeyTallies, NextKey
  <1>4. \A s : Replaying(s)' <=> Replaying(s)
    BY <1>2 DEF Replaying
  <1>5. CASE Hooked /\ nav
    <2>1. inHook'.key = NextKey /\ inHook'.at = "buffering" /\ UNCHANGED search
          /\ keyTally'.typed = NextKey /\ keyTally'.raced = keyTally.raced /\ keyTally'.overlapped = keyTally.overlapped
      BY <1>1, <1>5 DEF TypeKey, KeyShape, KeyTallies
    <2>2. LastKey' = LastKey
      BY <1>2, <1>3, <2>1 DEF LastKey
    <2> QED  BY <1>1, <1>2, <1>3, <1>4, <2>1, <2>2 DEF KeysCounted, KeysOrdered
  <1>6. CASE ~(Hooked /\ nav)
    <2>1. /\ search' = LandsIn(NextKey) /\ inHook' = inHook
          /\ keyTally'.typed = NextKey /\ keyTally'.overlapped = keyTally.overlapped
          /\ ~keyTally'.raced => ~keyTally.raced /\ ~ReplayDue /\ Hooked
      BY <1>1, <1>6 DEF TypeKey, KeyShape, KeyTallies
    <2>2. LastKey' = NextKey
      BY <1>2, <2>1 DEF LastKey
    <2>3. /\ AllUpTo(search, NextKey - 1) /\ AllUpTo(handoff.keys, NextKey - 1)
          /\ \A s \in Session : Replaying(s) => AllUpTo(replay[s], NextKey - 1)
      BY <1>1, <1>3 DEF KeysCounted
    <2>4. search' = search \/ search' = Append(search, NextKey)
      BY <2>1 DEF LandsIn
    <2> DEFINE k == NextKey
    <2> HIDE DEF k
    <2>5. /\ AllUpTo(search', k) /\ AllUpTo(handoff.keys, k) /\ \A s \in Session : Replaying(s) => AllUpTo(replay[s], k)
          /\ Growing(search) => Growing(search')
      <3>1. k \in Nat /\ AllUpTo(search, k - 1) /\ AllUpTo(handoff.keys, k - 1)
            /\ \A s \in Session : Replaying(s) => AllUpTo(replay[s], k - 1)
        BY <1>3, <2>3 DEF k
      <3>2. /\ AllUpTo(search, k) /\ AllUpTo(handoff.keys, k) /\ \A s \in Session : Replaying(s) => AllUpTo(replay[s], k)
            /\ AllUpTo(Append(search, k), k)
            /\ Growing(search) => Growing(Append(search, k))
        BY <3>1, KeysMove
      <3> QED  BY <2>4, <3>2 DEF k
    <2>6. KeysCounted'
      BY <1>1, <1>2, <1>4, <2>1, <2>2, <2>5 DEF KeysCounted, k
    <2>7. ASSUME ~keyTally'.raced, ~keyTally'.overlapped
          PROVE  handoff.session = 0 /\ \A s \in Session : ~Replaying(s)
      <3>1. ~keyTally.raced /\ ~keyTally.overlapped /\ ~nav /\ call.hide # "quitting" /\ ~ReplayDue
        BY <1>1, <1>2, <1>6, <2>1, <2>7 DEF HookRight
      <3> QED  BY <1>1, <3>1 DEF KeysOrdered, ReplayDue, Replaying
    <2>8. KeysOrdered'
      <3> SUFFICES ASSUME ~keyTally'.raced, ~keyTally'.overlapped
                   PROVE  /\ Growing(search') /\ Growing(handoff.keys) /\ AllBefore(search', handoff.keys)
                          /\ handoff.session = 0 /\ \A s \in Session : ~Replaying(s)
        BY <1>2, <1>4 DEF KeysOrdered
      <3>1. handoff.session = 0 /\ handoff.keys = <<>> /\ (\A s \in Session : ~Replaying(s)) /\ Growing(search)
        BY <1>1, <2>1, <2>7 DEF KeysCounted, KeysOrdered
      <3> QED  BY <2>5, <3>1 DEF Growing, AllBefore
    <2> QED  BY <2>6, <2>8
  <1> QED  BY <1>5, <1>6

LEMMA HookKey ==
  ASSUME KeyInv, inHook.at # "idle"
  PROVE  /\ inHook.key \in Nat /\ inHook.key # 0 /\ inHook.key = keyTally.typed
         /\ AllUpTo(search, inHook.key - 1) /\ AllUpTo(handoff.keys, inHook.key - 1)
         /\ \A s \in Session : Replaying(s) => AllUpTo(replay[s], inHook.key - 1)
  <1>1. inHook.key = keyTally.typed /\ inHook.key # 0 /\ LastKey = inHook.key - 1
    BY DEF KeyInv, KeysCounted, LastKey
  <1>2. inHook.key \in Nat
    BY DEF KeyInv, KeyShape, HookKeys
  <1> QED  BY <1>1, <1>2 DEF KeyInv, KeysCounted

LEMMA BufferKeyCounts ==
  ASSUME KeyInv, BufferKey
  PROVE  KeysCounted' /\ KeysOrdered'
  <1>1. KeyShape /\ KeysCounted /\ KeysOrdered
    BY DEF KeyInv
  <1>2. /\ inHook.at = "buffering" /\ handoff.session # 0 /\ inHook' = NoKey
        /\ UNCHANGED <<nav, search, replay, tasks, keyTally>> /\ call'.hide = call.hide
    BY <1>1 DEF BufferKey, KeyShape, CallCells
  <1>3. handoff'.session = handoff.session
        /\ (handoff'.keys = handoff.keys \/ handoff'.keys = Append(handoff.keys, inHook.key))
    BY <1>1 DEF BufferKey, KeyShape, Handoffs
  <1>4. \A s : Replaying(s)' <=> Replaying(s)
    BY <1>2 DEF Replaying
  <1> DEFINE k == inHook.key
  <1>5. k \in Nat /\ k # 0 /\ k = keyTally.typed /\ AllUpTo(search, k - 1) /\ AllUpTo(handoff.keys, k - 1)
        /\ \A s \in Session : Replaying(s) => AllUpTo(replay[s], k - 1)
    BY <1>2, HookKey
  <1>6. LastKey' = k
    BY <1>2, <1>5 DEF LastKey, NoKey
  <1>7. handoff'.keys = handoff.keys \/ handoff'.keys = Append(handoff.keys, k)
    BY <1>3
  <1> HIDE DEF k
  <1>8. /\ AllUpTo(search, k) /\ AllUpTo(handoff'.keys, k) /\ \A s \in Session : Replaying(s) => AllUpTo(replay[s], k)
        /\ Growing(handoff.keys) => Growing(handoff'.keys)
        /\ AllBefore(search, handoff.keys) => AllBefore(search, handoff'.keys)
        /\ \A s \in Session : Replaying(s) /\ AllBefore(replay[s], handoff.keys) => AllBefore(replay[s], handoff'.keys)
    BY <1>5, <1>7, KeysMove
  <1>9. KeysCounted'
    BY <1>1, <1>2, <1>3, <1>4, <1>6, <1>8 DEF KeysCounted, NoKey
  <1>10. KeysOrdered'
    BY <1>1, <1>2, <1>3, <1>4, <1>8 DEF KeysOrdered
  <1> QED  BY <1>9, <1>10

LEMMA RouteKeyCounts ==
  ASSUME KeyInv, RouteKey
  PROVE  KeysCounted' /\ KeysOrdered'
  <1>1. KeyShape /\ KeysCounted /\ KeysOrdered
    BY DEF KeyInv
  <1>2. /\ inHook.at = "buffering" /\ handoff.session = 0 /\ handoff.keys = <<>>
        /\ UNCHANGED <<nav, handoff, replay, call, tasks>>
    BY <1>1 DEF RouteKey, KeysCounted
  <1>3. \A s : Replaying(s)' <=> Replaying(s)
    BY <1>2 DEF Replaying
  <1> DEFINE k == inHook.key
  <1>4. k \in Nat /\ k # 0 /\ k = keyTally.typed /\ AllUpTo(search, k - 1) /\ AllUpTo(handoff.keys, k - 1)
        /\ \A s \in Session : Replaying(s) => AllUpTo(replay[s], k - 1)
    BY <1>2, HookKey
  <1>5. CASE nav
    <2>1. inHook'.at = "routing" /\ inHook'.key = inHook.key /\ inHook'.sawNav /\ UNCHANGED <<search, keyTally>>
      BY <1>1, <1>5 DEF RouteKey, MayRoute, KeyShape, HookKeys
    <2>2. LastKey' = LastKey
      BY <1>2, <2>1 DEF LastKey
    <2> HIDE DEF k
    <2> QED  BY <1>1, <1>2, <1>3, <2>1, <2>2 DEF KeysCounted, KeysOrdered
  <1>6. CASE ~nav
    <2>1. /\ inHook' = NoKey /\ (search' = search \/ search' = Append(search, k))
          /\ keyTally'.typed = keyTally.typed /\ keyTally'.overlapped = keyTally.overlapped
          /\ ~keyTally'.raced => ~keyTally.raced /\ ~ReplayDue
      BY <1>1, <1>6 DEF RouteKey, MayRoute, LandsIn, KeyShape, KeyTallies
    <2>2. LastKey' = k
      BY <1>4, <2>1 DEF LastKey, NoKey
    <2> HIDE DEF k
    <2>3. /\ AllUpTo(search', k) /\ AllUpTo(handoff.keys, k) /\ \A s \in Session : Replaying(s) => AllUpTo(replay[s], k)
          /\ Growing(search) => Growing(search')
      BY <1>4, <2>1, KeysMove
    <2>4. KeysCounted'
      BY <1>1, <1>2, <1>3, <2>1, <2>2, <2>3 DEF KeysCounted, NoKey
    <2>5. KeysOrdered'
      <3> SUFFICES ASSUME ~keyTally'.raced, ~keyTally'.overlapped
                   PROVE  /\ Growing(search') /\ Growing(handoff.keys) /\ AllBefore(search', handoff.keys)
                          /\ handoff.session = 0 /\ \A s \in Session : ~Replaying(s)
        BY <1>2, <1>3 DEF KeysOrdered
      <3>1. (\A s \in Session : ~Replaying(s)) /\ Growing(search)
        BY <1>1, <2>1 DEF KeysOrdered, ReplayDue, Replaying
      <3> QED  BY <1>2, <2>3, <3>1 DEF Growing, AllBefore
    <2> QED  BY <2>4, <2>5
  <1> QED  BY <1>5, <1>6

LEMMA BeginCounts ==
  ASSUME KeyInv, BeginHandoff
  PROVE  KeysCounted' /\ KeysOrdered'
  <1>1. KeyShape /\ KeysCounted /\ KeysOrdered
    BY DEF KeyInv
  <1>2. inHook.at = "routing" /\ inHook.sawNav /\ inHook' = NoKey /\ UNCHANGED <<nav, search, replay, call>>
    BY <1>1 DEF BeginHandoff, KeysCounted
  <1>3. /\ handoff'.session # 0 /\ handoff'.keys = <<inHook.key>>
        /\ keyTally'.typed = keyTally.typed /\ keyTally'.overlapped = keyTally.overlapped
        /\ ~keyTally'.raced => ~keyTally.raced /\ nav
    <2>1. keyTally.begun + 1 # 0
      BY <1>1, KeyBounds DEF KeyShape, KeyTallies
    <2>2. handoff'.session # 0 /\ handoff'.keys = <<inHook.key>>
      BY <2>1 DEF BeginHandoff
    <2>3. keyTally'.typed = keyTally.typed /\ keyTally'.overlapped = keyTally.overlapped
          /\ keyTally'.raced = (keyTally.raced \/ (inHook.sawNav /\ ~nav))
      BY <1>1 DEF BeginHandoff, KeyShape, KeyTallies
    <2> QED  BY <1>2, <2>2, <2>3
  <1>4. \A s \in Session : Replaying(s)' => Replaying(s)
    BY <1>1 DEF BeginHandoff, Replaying, KeyShape
  <1> DEFINE k == inHook.key
  <1>5. k \in Nat /\ k # 0 /\ k = keyTally.typed /\ AllUpTo(search, k - 1) /\ AllUpTo(handoff.keys, k - 1)
        /\ \A s \in Session : Replaying(s) => AllUpTo(replay[s], k - 1)
    BY <1>2, HookKey
  <1>6. LastKey' = k
    BY <1>2, <1>3, <1>5 DEF LastKey, NoKey
  <1>7. handoff'.keys = <<k>>
    BY <1>3
  <1> HIDE DEF k
  <1>8. /\ AllUpTo(search, k) /\ AllUpTo(<<k>>, k) /\ Growing(<<k>>) /\ AllBefore(search, <<k>>)
        /\ \A s \in Session : Replaying(s) => AllUpTo(replay[s], k) /\ AllBefore(replay[s], <<k>>)
    BY <1>5, KeysMove
  <1>9. KeysCounted'
    BY <1>2, <1>3, <1>4, <1>6, <1>7, <1>8 DEF KeysCounted, NoKey
  <1>10. KeysOrdered'
    BY <1>1, <1>2, <1>3, <1>4, <1>7, <1>8 DEF KeysOrdered
  <1> QED  BY <1>9, <1>10

LEMMA TakeCounts ==
  ASSUME KeyInv, NEW s \in Session, Take(s)
  PROVE  KeysCounted' /\ KeysOrdered'
  <1>1. KeyShape /\ KeysCounted /\ KeysOrdered
    BY DEF KeyInv
  <1>2. UNCHANGED <<inHook, search, call>>
    BY DEF Take
  <1>3. keyTally'.typed = keyTally.typed /\ keyTally'.overlapped = keyTally.overlapped
        /\ (~keyTally'.raced => ~keyTally.raced /\ ~(Active(s) /\ ReplayDue))
    BY <1>1 DEF Take, KeyShape, KeyTallies
  <1>4. CASE ~Active(s)
    <2>1. handoff' = handoff /\ replay' = replay /\ nav' = nav /\ \A o \in Session : Replaying(o)' => Replaying(o)
      BY <1>1, <1>4 DEF Take, Replaying, KeyShape
    <2>2. KeysAside
      BY <1>2, <1>3, <2>1 DEF KeysAside
    <2>3. ~keyTally'.raced /\ ~keyTally'.overlapped /\ handoff'.session # 0 => nav' \/ call'.hide = "quitting"
      BY <1>1, <1>2, <1>3, <2>1 DEF KeysOrdered
    <2> QED  BY <2>2, <2>3, AsideStays
  <1>5. CASE Active(s)
    <2>1. handoff' = NoHandoff /\ replay' = [replay EXCEPT ![s] = handoff.keys] /\ tasks' = [tasks EXCEPT ![s] = "replaying"]
      BY <1>5 DEF Take
    <2>2. /\ replay'[s] = handoff.keys /\ \A o \in Session : o # s => replay'[o] = replay[o] /\ (Replaying(o)' <=> Replaying(o))
      BY <1>1, <2>1 DEF KeyShape, Replaying
    <2>3. LastKey' = LastKey
      BY <1>2, <1>3 DEF LastKey
    <2>4. handoff'.session = 0 /\ handoff'.keys = <<>> /\ (\A n : AllUpTo(<<>>, n)) /\ Growing(<<>>) /\ \A t : AllBefore(t, <<>>)
      BY <2>1 DEF NoHandoff, AllUpTo, Growing, AllBefore
    <2>5. KeysCounted'
      BY <1>1, <1>2, <1>3, <2>2, <2>3, <2>4 DEF KeysCounted
    <2>6. KeysOrdered'
      <3> SUFFICES ASSUME ~keyTally'.raced, ~keyTally'.overlapped
                   PROVE  /\ Growing(search) /\ \A o, p \in Session : Replaying(o)' /\ Replaying(p)' => o = p
                          /\ \A o \in Session : Replaying(o)' => Growing(replay'[o]) /\ AllBefore(search, replay'[o])
        BY <1>2, <2>4 DEF KeysOrdered
      <3>1. \A o \in Session : ~Replaying(o)
        BY <1>3, <1>5 DEF ReplayDue, Replaying
      <3> QED  BY <1>1, <1>3, <2>2, <3>1 DEF KeysOrdered
    <2> QED  BY <2>5, <2>6
  <1> QED  BY <1>4, <1>5

LEMMA ReplayCounts ==
  ASSUME KeyInv, NEW s \in Session, Replay(s)
  PROVE  KeysCounted' /\ KeysOrdered'
  <1>1. KeyShape /\ KeysCounted /\ KeysOrdered
    BY DEF KeyInv
  <1>2. /\ Replaying(s) /\ UNCHANGED <<inHook, nav, handoff, replay, call, keyTally>>
        /\ search' = search \/ search' = search \o replay[s]
    BY DEF Replay, Replaying
  <1>3. ~Replaying(s)' /\ \A o \in Session : o # s => (Replaying(o)' <=> Replaying(o))
    BY <1>1 DEF Replay, Replaying, KeyShape
  <1>4. LastKey' = LastKey
    BY <1>2 DEF LastKey
  <1>5. search \in Seq(Nat) /\ replay[s] \in Seq(Nat) /\ handoff.keys \in Seq(Nat) /\ LastKey \in Int
    BY <1>1, KeysAreNumbers DEF KeyShape, Handoffs, KeyTallies, LastKey
  <1>6. AllUpTo(search', LastKey)
    BY <1>1, <1>2, <1>5, KeysJoin DEF KeysCounted
  <1>7. KeysCounted'
    BY <1>1, <1>2, <1>3, <1>4, <1>6 DEF KeysCounted
  <1>8. KeysOrdered'
    <2> SUFFICES ASSUME ~keyTally.raced, ~keyTally.overlapped
                 PROVE  Growing(search') /\ AllBefore(search', handoff.keys) /\ \A o \in Session : ~Replaying(o)'
      BY <1>1, <1>2 DEF KeysOrdered
    <2>1. Growing(search) /\ AllBefore(search, handoff.keys) /\ Growing(replay[s]) /\ AllBefore(search, replay[s])
          /\ AllBefore(replay[s], handoff.keys) /\ \A o \in Session : Replaying(o) => o = s
      BY <1>1, <1>2 DEF KeysOrdered
    <2> QED  BY <1>2, <1>3, <1>5, <2>1, KeysJoin
  <1> QED  BY <1>7, <1>8

LEMMA OthersCount ==
  ASSUME KeyInv,
         \/ \E t \in HookThread : HookStarts(t) \/ HookEnds(t)
         \/ \E s \in Session : Prepare(s) \/ GiveUp(s) \/ Confirm(s) \/ TimeOut(s) \/ LookAfterCancel(s) \/ EnableAfterCancel(s)
         \/ DropOverflowed \/ StartEditing \/ LookAfterEditing \/ EnableAfterEditing
         \/ Shows \/ ShowEnables \/ Hides \/ HideCancels \/ HideSuspends \/ HideQuits
  PROVE  KeysCounted' /\ KeysOrdered'
  <1>0. KeyShape /\ KeysCounted /\ KeysOrdered /\ HookRight
    BY DEF KeyInv
  <1> DEFINE Quiet == KeysAside /\ (~keyTally'.raced /\ ~keyTally'.overlapped /\ handoff'.session # 0 => nav' \/ call'.hide = "quitting")
  <1>1. ASSUME NEW t \in HookThread, HookStarts(t) PROVE Quiet
    <2>1. UNCHANGED <<search, replay, inHook>>
      BY <1>1 DEF HookStarts
    <2>2. keyTally'.typed = keyTally.typed /\ (keyTally.raced => keyTally'.raced) /\ (keyTally.overlapped => keyTally'.overlapped)
      BY <1>0, <1>1 DEF HookStarts, KeyShape, KeyTallies
    <2>3. handoff' \in {handoff, NoHandoff} /\ \A o \in Session : Replaying(o)' => Replaying(o)
      BY <1>0, <1>1 DEF HookStarts, KeyShape, Replaying
    <2>4. ~keyTally.raced /\ ~keyTally.overlapped /\ handoff'.session # 0 => nav' \/ call'.hide = "quitting"
      BY <1>0, <1>1 DEF HookStarts, NoHandoff, KeysOrdered, KeyShape, CallCells
    <2> QED  BY <2>1, <2>2, <2>3, <2>4 DEF KeysAside
  <1>2. ASSUME NEW t \in HookThread, HookEnds(t) PROVE Quiet
    <2>1. UNCHANGED <<search, replay, inHook>>
      BY <1>2 DEF HookEnds
    <2>2. keyTally'.typed = keyTally.typed /\ (keyTally.raced => keyTally'.raced) /\ (keyTally.overlapped => keyTally'.overlapped)
      BY <1>0, <1>2 DEF HookEnds, KeyShape, KeyTallies
    <2>3. handoff' \in {handoff, NoHandoff} /\ \A o \in Session : Replaying(o)' => Replaying(o)
      BY <1>0, <1>2 DEF HookEnds, KeyShape, Replaying
    <2>4. ~keyTally.raced /\ ~keyTally.overlapped /\ handoff'.session # 0 => nav' \/ call'.hide = "quitting"
      BY <1>0, <1>2 DEF HookEnds, NoHandoff, KeysOrdered, KeyShape, CallCells
    <2> QED  BY <2>1, <2>2, <2>3, <2>4 DEF KeysAside
  <1>3. ASSUME NEW s \in Session, Prepare(s) PROVE Quiet
    <2>1. UNCHANGED <<search, replay, inHook>>
      BY <1>3 DEF Prepare, Active
    <2>2. keyTally'.typed = keyTally.typed /\ (keyTally.raced => keyTally'.raced) /\ (keyTally.overlapped => keyTally'.overlapped)
      BY <1>0, <1>3 DEF Prepare, Active, KeyShape, KeyTallies
    <2>3. handoff' \in {handoff, NoHandoff} /\ \A o \in Session : Replaying(o)' => Replaying(o)
      BY <1>0, <1>3 DEF Prepare, Active, KeyShape, Replaying
    <2>4. ~keyTally.raced /\ ~keyTally.overlapped /\ handoff'.session # 0 => nav' \/ call'.hide = "quitting"
      BY <1>0, <1>3 DEF Prepare, Active, NoHandoff, KeysOrdered, KeyShape, CallCells
    <2> QED  BY <2>1, <2>2, <2>3, <2>4 DEF KeysAside
  <1>4. ASSUME NEW s \in Session, GiveUp(s) PROVE Quiet
    <2>1. UNCHANGED <<search, replay, inHook>>
      BY <1>4 DEF GiveUp, DropAndSuspend
    <2>2. keyTally'.typed = keyTally.typed /\ (keyTally.raced => keyTally'.raced) /\ (keyTally.overlapped => keyTally'.overlapped)
      BY <1>0, <1>4 DEF GiveUp, DropAndSuspend, KeyShape, KeyTallies
    <2>3. handoff' \in {handoff, NoHandoff} /\ \A o \in Session : Replaying(o)' => Replaying(o)
      BY <1>0, <1>4 DEF GiveUp, DropAndSuspend, KeyShape, Replaying
    <2>4. ~keyTally.raced /\ ~keyTally.overlapped /\ handoff'.session # 0 => nav' \/ call'.hide = "quitting"
      BY <1>0, <1>4 DEF GiveUp, DropAndSuspend, NoHandoff, KeysOrdered, KeyShape, CallCells
    <2> QED  BY <2>1, <2>2, <2>3, <2>4 DEF KeysAside
  <1>5. ASSUME NEW s \in Session, Confirm(s) PROVE Quiet
    <2>1. UNCHANGED <<search, replay, inHook>>
      BY <1>5 DEF Confirm
    <2>2. keyTally'.typed = keyTally.typed /\ (keyTally.raced => keyTally'.raced) /\ (keyTally.overlapped => keyTally'.overlapped)
      BY <1>0, <1>5 DEF Confirm, KeyShape, KeyTallies
    <2>3. handoff' \in {handoff, NoHandoff} /\ \A o \in Session : Replaying(o)' => Replaying(o)
      BY <1>0, <1>5 DEF Confirm, KeyShape, Replaying
    <2>4. ~keyTally.raced /\ ~keyTally.overlapped /\ handoff'.session # 0 => nav' \/ call'.hide = "quitting"
      BY <1>0, <1>5 DEF Confirm, NoHandoff, KeysOrdered, KeyShape, CallCells
    <2> QED  BY <2>1, <2>2, <2>3, <2>4 DEF KeysAside
  <1>6. ASSUME NEW s \in Session, TimeOut(s) PROVE Quiet
    <2>1. UNCHANGED <<search, replay, inHook>>
      BY <1>6 DEF TimeOut, DropAndSuspend
    <2>2. keyTally'.typed = keyTally.typed /\ (keyTally.raced => keyTally'.raced) /\ (keyTally.overlapped => keyTally'.overlapped)
      BY <1>0, <1>6 DEF TimeOut, DropAndSuspend, KeyShape, KeyTallies
    <2>3. handoff' \in {handoff, NoHandoff} /\ \A o \in Session : Replaying(o)' => Replaying(o)
      BY <1>0, <1>6 DEF TimeOut, DropAndSuspend, KeyShape, Replaying
    <2>4. ~keyTally.raced /\ ~keyTally.overlapped /\ handoff'.session # 0 => nav' \/ call'.hide = "quitting"
      BY <1>0, <1>6 DEF TimeOut, DropAndSuspend, NoHandoff, KeysOrdered, KeyShape, CallCells
    <2> QED  BY <2>1, <2>2, <2>3, <2>4 DEF KeysAside
  <1>7. ASSUME NEW s \in Session, LookAfterCancel(s) PROVE Quiet
    <2>1. UNCHANGED <<search, replay, inHook>>
      BY <1>7 DEF LookAfterCancel
    <2>2. keyTally'.typed = keyTally.typed /\ (keyTally.raced => keyTally'.raced) /\ (keyTally.overlapped => keyTally'.overlapped)
      BY <1>0, <1>7 DEF LookAfterCancel, KeyShape, KeyTallies
    <2>3. handoff' \in {handoff, NoHandoff} /\ \A o \in Session : Replaying(o)' => Replaying(o)
      BY <1>0, <1>7 DEF LookAfterCancel, KeyShape, Replaying
    <2>4. ~keyTally.raced /\ ~keyTally.overlapped /\ handoff'.session # 0 => nav' \/ call'.hide = "quitting"
      BY <1>0, <1>7 DEF LookAfterCancel, NoHandoff, KeysOrdered, KeyShape, CallCells
    <2> QED  BY <2>1, <2>2, <2>3, <2>4 DEF KeysAside
  <1>8. ASSUME NEW s \in Session, EnableAfterCancel(s) PROVE Quiet
    <2>1. UNCHANGED <<search, replay, inHook>>
      BY <1>8 DEF EnableAfterCancel, EnableNavigation
    <2>2. keyTally'.typed = keyTally.typed /\ (keyTally.raced => keyTally'.raced) /\ (keyTally.overlapped => keyTally'.overlapped)
      BY <1>0, <1>8 DEF EnableAfterCancel, EnableNavigation, KeyShape, KeyTallies
    <2>3. handoff' \in {handoff, NoHandoff} /\ \A o \in Session : Replaying(o)' => Replaying(o)
      BY <1>0, <1>8 DEF EnableAfterCancel, EnableNavigation, KeyShape, Replaying
    <2>4. ~keyTally.raced /\ ~keyTally.overlapped /\ handoff'.session # 0 => nav' \/ call'.hide = "quitting"
      BY <1>0, <1>8 DEF EnableAfterCancel, EnableNavigation, NoHandoff, KeysOrdered, KeyShape, CallCells
    <2> QED  BY <2>1, <2>2, <2>3, <2>4 DEF KeysAside
  <1>9. CASE DropOverflowed
    <2>1. UNCHANGED <<search, replay, inHook>>
      BY <1>9 DEF DropOverflowed, DropAndSuspend
    <2>2. keyTally'.typed = keyTally.typed /\ (keyTally.raced => keyTally'.raced) /\ (keyTally.overlapped => keyTally'.overlapped)
      BY <1>0, <1>9 DEF DropOverflowed, DropAndSuspend, KeyShape, KeyTallies
    <2>3. handoff' \in {handoff, NoHandoff} /\ \A o \in Session : Replaying(o)' => Replaying(o)
      BY <1>0, <1>9 DEF DropOverflowed, DropAndSuspend, KeyShape, Replaying
    <2>4. ~keyTally.raced /\ ~keyTally.overlapped /\ handoff'.session # 0 => nav' \/ call'.hide = "quitting"
      BY <1>0, <1>9 DEF DropOverflowed, DropAndSuspend, NoHandoff, KeysOrdered, KeyShape, CallCells
    <2>5. Quiet
      BY <2>1, <2>2, <2>3, <2>4 DEF KeysAside
    <2> QED  BY <2>5, AsideStays
  <1>10. CASE StartEditing
    <2>1. UNCHANGED <<search, replay, inHook>>
      BY <1>10 DEF StartEditing
    <2>2. keyTally'.typed = keyTally.typed /\ (keyTally.raced => keyTally'.raced) /\ (keyTally.overlapped => keyTally'.overlapped)
      BY <1>0, <1>10 DEF StartEditing, KeyShape, KeyTallies
    <2>3. handoff' \in {handoff, NoHandoff} /\ \A o \in Session : Replaying(o)' => Replaying(o)
      BY <1>0, <1>10 DEF StartEditing, KeyShape, Replaying
    <2>4. ~keyTally.raced /\ ~keyTally.overlapped /\ handoff'.session # 0 => nav' \/ call'.hide = "quitting"
      BY <1>0, <1>10 DEF StartEditing, NoHandoff, KeysOrdered, KeyShape, CallCells
    <2>5. Quiet
      BY <2>1, <2>2, <2>3, <2>4 DEF KeysAside
    <2> QED  BY <2>5, AsideStays
  <1>11. CASE LookAfterEditing
    <2>1. UNCHANGED <<search, replay, inHook>>
      BY <1>11 DEF LookAfterEditing
    <2>2. keyTally'.typed = keyTally.typed /\ (keyTally.raced => keyTally'.raced) /\ (keyTally.overlapped => keyTally'.overlapped)
      BY <1>0, <1>11 DEF LookAfterEditing, KeyShape, KeyTallies
    <2>3. handoff' \in {handoff, NoHandoff} /\ \A o \in Session : Replaying(o)' => Replaying(o)
      BY <1>0, <1>11 DEF LookAfterEditing, KeyShape, Replaying
    <2>4. ~keyTally.raced /\ ~keyTally.overlapped /\ handoff'.session # 0 => nav' \/ call'.hide = "quitting"
      BY <1>0, <1>11 DEF LookAfterEditing, NoHandoff, KeysOrdered, KeyShape, CallCells
    <2>5. Quiet
      BY <2>1, <2>2, <2>3, <2>4 DEF KeysAside
    <2> QED  BY <2>5, AsideStays
  <1>12. CASE EnableAfterEditing
    <2>1. UNCHANGED <<search, replay, inHook>>
      BY <1>12 DEF EnableAfterEditing, EnableNavigation
    <2>2. keyTally'.typed = keyTally.typed /\ (keyTally.raced => keyTally'.raced) /\ (keyTally.overlapped => keyTally'.overlapped)
      BY <1>0, <1>12 DEF EnableAfterEditing, EnableNavigation, KeyShape, KeyTallies
    <2>3. handoff' \in {handoff, NoHandoff} /\ \A o \in Session : Replaying(o)' => Replaying(o)
      BY <1>0, <1>12 DEF EnableAfterEditing, EnableNavigation, KeyShape, Replaying
    <2>4. ~keyTally.raced /\ ~keyTally.overlapped /\ handoff'.session # 0 => nav' \/ call'.hide = "quitting"
      BY <1>0, <1>12 DEF EnableAfterEditing, EnableNavigation, NoHandoff, KeysOrdered, KeyShape, CallCells
    <2>5. Quiet
      BY <2>1, <2>2, <2>3, <2>4 DEF KeysAside
    <2> QED  BY <2>5, AsideStays
  <1>13. CASE Shows
    <2>1. UNCHANGED <<search, replay, inHook>>
      BY <1>13 DEF Shows
    <2>2. keyTally'.typed = keyTally.typed /\ (keyTally.raced => keyTally'.raced) /\ (keyTally.overlapped => keyTally'.overlapped)
      BY <1>0, <1>13 DEF Shows, KeyShape, KeyTallies
    <2>3. handoff' \in {handoff, NoHandoff} /\ \A o \in Session : Replaying(o)' => Replaying(o)
      BY <1>0, <1>13 DEF Shows, KeyShape, Replaying
    <2>4. ~keyTally.raced /\ ~keyTally.overlapped /\ handoff'.session # 0 => nav' \/ call'.hide = "quitting"
      BY <1>0, <1>13 DEF Shows, NoHandoff, KeysOrdered, KeyShape, CallCells
    <2>5. Quiet
      BY <2>1, <2>2, <2>3, <2>4 DEF KeysAside
    <2> QED  BY <2>5, AsideStays
  <1>14. CASE ShowEnables
    <2>1. UNCHANGED <<search, replay, inHook>>
      BY <1>14 DEF ShowEnables, EnableNavigation
    <2>2. keyTally'.typed = keyTally.typed /\ (keyTally.raced => keyTally'.raced) /\ (keyTally.overlapped => keyTally'.overlapped)
      BY <1>0, <1>14 DEF ShowEnables, EnableNavigation, KeyShape, KeyTallies
    <2>3. handoff' \in {handoff, NoHandoff} /\ \A o \in Session : Replaying(o)' => Replaying(o)
      BY <1>0, <1>14 DEF ShowEnables, EnableNavigation, KeyShape, Replaying
    <2>4. ~keyTally.raced /\ ~keyTally.overlapped /\ handoff'.session # 0 => nav' \/ call'.hide = "quitting"
      BY <1>0, <1>14 DEF ShowEnables, EnableNavigation, NoHandoff, KeysOrdered, KeyShape, CallCells
    <2>5. Quiet
      BY <2>1, <2>2, <2>3, <2>4 DEF KeysAside
    <2> QED  BY <2>5, AsideStays
  <1>15. CASE Hides
    <2>1. UNCHANGED <<search, replay, inHook>>
      BY <1>15 DEF Hides
    <2>2. keyTally'.typed = keyTally.typed /\ (keyTally.raced => keyTally'.raced) /\ (keyTally.overlapped => keyTally'.overlapped)
      BY <1>0, <1>15 DEF Hides, KeyShape, KeyTallies
    <2>3. handoff' \in {handoff, NoHandoff} /\ \A o \in Session : Replaying(o)' => Replaying(o)
      BY <1>0, <1>15 DEF Hides, KeyShape, Replaying
    <2>4. ~keyTally.raced /\ ~keyTally.overlapped /\ handoff'.session # 0 => nav' \/ call'.hide = "quitting"
      BY <1>0, <1>15 DEF Hides, NoHandoff, KeysOrdered, KeyShape, CallCells
    <2>5. Quiet
      BY <2>1, <2>2, <2>3, <2>4 DEF KeysAside
    <2> QED  BY <2>5, AsideStays
  <1>16. CASE HideCancels
    <2>1. UNCHANGED <<search, replay, inHook>>
      BY <1>16 DEF HideCancels
    <2>2. keyTally'.typed = keyTally.typed /\ (keyTally.raced => keyTally'.raced) /\ (keyTally.overlapped => keyTally'.overlapped)
      BY <1>0, <1>16 DEF HideCancels, KeyShape, KeyTallies
    <2>3. handoff' \in {handoff, NoHandoff} /\ \A o \in Session : Replaying(o)' => Replaying(o)
      BY <1>0, <1>16 DEF HideCancels, KeyShape, Replaying
    <2>4. ~keyTally.raced /\ ~keyTally.overlapped /\ handoff'.session # 0 => nav' \/ call'.hide = "quitting"
      BY <1>0, <1>16 DEF HideCancels, NoHandoff, KeysOrdered, KeyShape, CallCells
    <2>5. Quiet
      BY <2>1, <2>2, <2>3, <2>4 DEF KeysAside
    <2> QED  BY <2>5, AsideStays
  <1>17. CASE HideSuspends
    <2>1. UNCHANGED <<search, replay, inHook>>
      BY <1>17 DEF HideSuspends
    <2>2. keyTally'.typed = keyTally.typed /\ (keyTally.raced => keyTally'.raced) /\ (keyTally.overlapped => keyTally'.overlapped)
      BY <1>0, <1>17 DEF HideSuspends, KeyShape, KeyTallies
    <2>3. handoff' \in {handoff, NoHandoff} /\ \A o \in Session : Replaying(o)' => Replaying(o)
      BY <1>0, <1>17 DEF HideSuspends, KeyShape, Replaying
    <2>4. ~keyTally.raced /\ ~keyTally.overlapped /\ handoff'.session # 0 => nav' \/ call'.hide = "quitting"
      BY <1>0, <1>17 DEF HideSuspends, NoHandoff, KeysOrdered, KeyShape, CallCells
    <2>5. Quiet
      BY <2>1, <2>2, <2>3, <2>4 DEF KeysAside
    <2> QED  BY <2>5, AsideStays
  <1>18. CASE HideQuits
    <2>1. UNCHANGED <<search, replay, inHook>>
      BY <1>18 DEF HideQuits
    <2>2. keyTally'.typed = keyTally.typed /\ (keyTally.raced => keyTally'.raced) /\ (keyTally.overlapped => keyTally'.overlapped)
      BY <1>0, <1>18 DEF HideQuits, KeyShape, KeyTallies
    <2>3. handoff' \in {handoff, NoHandoff} /\ \A o \in Session : Replaying(o)' => Replaying(o)
      BY <1>0, <1>18 DEF HideQuits, KeyShape, Replaying
    <2>4. ~keyTally.raced /\ ~keyTally.overlapped /\ handoff'.session # 0 => nav' \/ call'.hide = "quitting"
      BY <1>0, <1>18 DEF HideQuits, NoHandoff, KeysOrdered, KeyShape, CallCells
    <2>5. Quiet
      BY <2>1, <2>2, <2>3, <2>4 DEF KeysAside
    <2> QED  BY <2>5, AsideStays
  <1>40. CASE (\E t \in HookThread : HookStarts(t) \/ HookEnds(t))
               \/ \E s \in Session : Prepare(s) \/ GiveUp(s) \/ Confirm(s) \/ TimeOut(s) \/ LookAfterCancel(s) \/ EnableAfterCancel(s)
    <2>1. Quiet
      <3> HIDE DEF Quiet
      <3> QED  BY <1>40, <1>1, <1>2, <1>3, <1>4, <1>5, <1>6, <1>7, <1>8
    <2> QED  BY <2>1, AsideStays
  <1> QED  BY <1>40, <1>9, <1>10, <1>11, <1>12, <1>13, <1>14, <1>15, <1>16, <1>17, <1>18

LEMMA HookStays == KeyInv /\ SearchKeysNext => HookRight'
  <1> SUFFICES ASSUME KeyInv, SearchKeysNext PROVE HookRight'
    OBVIOUS
  <1>0. KeyShape /\ HookRight
    BY DEF KeyInv
  <1> DEFINE Running == \E t \in HookThread : hooks[t] \in {"starting", "running"}
  <1> DEFINE Calm == ~keyTally.overlapped
  <1>c. /\ 0 \notin HookThread /\ hookId \in HookThread \cup {0} /\ hooks \in HookCells /\ call \in CallCells
        /\ clip \in ClipCells /\ edit \in EditCells /\ keyTally \in KeyTallies /\ tasks \in [Session -> TaskStep]
        /\ undo \in [Session -> UndoStep] /\ handoff \in Handoffs
    BY <1>0, KeyBounds DEF KeyShape
  <1>1. CASE TypeKey
    <2>1. hookId' # 0 => hooks'[hookId'] = "running"
      BY <1>1, <1>0, <1>c DEF TypeKey, HookRight, HookCells
    <2>2. \A o \in Session : o > keyTally'.begun => tasks'[o] = "none"
      BY <1>1, <1>0, <1>c DEF TypeKey, HookRight, KeyTallies
    <2>3. ASSUME ~keyTally'.overlapped
          PROVE  (call'.hide # "no" => ~clip'.visible) /\ (call'.hide = "quitting" => ~nav') /\ (clip'.visible => NavDue') /\ (nav' => Running')
      <3>0. ~keyTally.overlapped
        BY <1>1, <1>c, <2>3 DEF TypeKey, KeyTallies
      <3>1. (call'.hide # "no" => ~clip'.visible) /\ (call'.hide = "quitting" => ~nav')
        BY <1>1, <1>0, <1>c, <2>3, <3>0 DEF TypeKey, HookRight, KeyTallies, CallCells, ClipCells
      <3>2. clip'.visible => NavDue'
        BY <1>1, <1>0, <1>c, <2>3, <3>0 DEF TypeKey, HookRight, KeyTallies, NavDue, Replaying, CallCells, ClipCells, EditCells
      <3>3. nav' => Running'
        BY <1>1, <1>0, <1>c, <2>3, <3>0 DEF TypeKey, HookRight, KeyTallies, HookCells
      <3> QED  BY <3>1, <3>2, <3>3
    <2> QED  BY <2>1, <2>2, <2>3 DEF HookRight
  <1>2. CASE BufferKey
    <2>1. hookId' # 0 => hooks'[hookId'] = "running"
      BY <1>2, <1>0, <1>c DEF BufferKey, HookRight, HookCells
    <2>2. \A o \in Session : o > keyTally'.begun => tasks'[o] = "none"
      BY <1>2, <1>0, <1>c DEF BufferKey, HookRight, KeyTallies
    <2>3. ASSUME ~keyTally'.overlapped
          PROVE  (call'.hide # "no" => ~clip'.visible) /\ (call'.hide = "quitting" => ~nav') /\ (clip'.visible => NavDue') /\ (nav' => Running')
      <3>0. ~keyTally.overlapped
        BY <1>2, <1>c, <2>3 DEF BufferKey, KeyTallies
      <3>1. (call'.hide # "no" => ~clip'.visible) /\ (call'.hide = "quitting" => ~nav')
        BY <1>2, <1>0, <1>c, <2>3, <3>0 DEF BufferKey, HookRight, KeyTallies, CallCells, ClipCells
      <3>2. clip'.visible => NavDue'
        BY <1>2, <1>0, <1>c, <2>3, <3>0 DEF BufferKey, HookRight, KeyTallies, NavDue, Replaying, CallCells, ClipCells, EditCells
      <3>3. nav' => Running'
        BY <1>2, <1>0, <1>c, <2>3, <3>0 DEF BufferKey, HookRight, KeyTallies, HookCells
      <3> QED  BY <3>1, <3>2, <3>3
    <2> QED  BY <2>1, <2>2, <2>3 DEF HookRight
  <1>3. CASE RouteKey
    <2>1. hookId' # 0 => hooks'[hookId'] = "running"
      BY <1>3, <1>0, <1>c DEF RouteKey, HookRight, HookCells
    <2>2. \A o \in Session : o > keyTally'.begun => tasks'[o] = "none"
      BY <1>3, <1>0, <1>c DEF RouteKey, HookRight, KeyTallies
    <2>3. ASSUME ~keyTally'.overlapped
          PROVE  (call'.hide # "no" => ~clip'.visible) /\ (call'.hide = "quitting" => ~nav') /\ (clip'.visible => NavDue') /\ (nav' => Running')
      <3>0. ~keyTally.overlapped
        BY <1>3, <1>c, <2>3 DEF RouteKey, KeyTallies
      <3>1. (call'.hide # "no" => ~clip'.visible) /\ (call'.hide = "quitting" => ~nav')
        BY <1>3, <1>0, <1>c, <2>3, <3>0 DEF RouteKey, HookRight, KeyTallies, CallCells, ClipCells
      <3>2. clip'.visible => NavDue'
        BY <1>3, <1>0, <1>c, <2>3, <3>0 DEF RouteKey, HookRight, KeyTallies, NavDue, Replaying, CallCells, ClipCells, EditCells
      <3>3. nav' => Running'
        BY <1>3, <1>0, <1>c, <2>3, <3>0 DEF RouteKey, HookRight, KeyTallies, HookCells
      <3> QED  BY <3>1, <3>2, <3>3
    <2> QED  BY <2>1, <2>2, <2>3 DEF HookRight
  <1>4. CASE BeginHandoff
    <2>1. hookId' # 0 => hooks'[hookId'] = "running"
      BY <1>4, <1>0, <1>c DEF BeginHandoff, HookRight, HookCells
    <2>2. \A o \in Session : o > keyTally'.begun => tasks'[o] = "none"
      <3>1. keyTally.begun \in Nat /\ keyTally'.begun = keyTally.begun + 1 /\ Session \subseteq Int
        BY <1>4, <1>c, KeyBounds DEF BeginHandoff, KeyTallies
      <3>2. \A o \in Session : o # keyTally.begun + 1 => tasks'[o] = tasks[o]
        BY <1>4, <1>c DEF BeginHandoff
      <3> QED  BY <3>1, <3>2, <1>0 DEF HookRight
    <2>3. ASSUME ~keyTally'.overlapped
          PROVE  (call'.hide # "no" => ~clip'.visible) /\ (call'.hide = "quitting" => ~nav') /\ (clip'.visible => NavDue') /\ (nav' => Running')
      <3>0. ~keyTally.overlapped
        BY <1>4, <1>c, <2>3 DEF BeginHandoff, KeyTallies
      <3>1. (call'.hide # "no" => ~clip'.visible) /\ (call'.hide = "quitting" => ~nav')
        BY <1>4, <1>0, <1>c, <2>3, <3>0 DEF BeginHandoff, HookRight, KeyTallies, CallCells, ClipCells
      <3>2. clip'.visible => NavDue'
        BY <1>4, <1>0, <1>c, <2>3, <3>0 DEF BeginHandoff, HookRight, KeyTallies, NavDue, Replaying, CallCells, ClipCells, EditCells
      <3>3. nav' => Running'
        BY <1>4, <1>0, <1>c, <2>3, <3>0 DEF BeginHandoff, HookRight, KeyTallies, HookCells
      <3> QED  BY <3>1, <3>2, <3>3
    <2> QED  BY <2>1, <2>2, <2>3 DEF HookRight
  <1>5. ASSUME NEW t \in HookThread, HookStarts(t) PROVE HookRight'
    <2>1. hookId' # 0 => hooks'[hookId'] = "running"
      BY <1>5, <1>0, <1>c DEF HookStarts, HookRight, HookCells
    <2>2. \A o \in Session : o > keyTally'.begun => tasks'[o] = "none"
      BY <1>5, <1>0, <1>c DEF HookStarts, HookRight, KeyTallies
    <2>3. ASSUME ~keyTally'.overlapped
          PROVE  (call'.hide # "no" => ~clip'.visible) /\ (call'.hide = "quitting" => ~nav') /\ (clip'.visible => NavDue') /\ (nav' => Running')
      <3>0. ~keyTally.overlapped
        BY <1>5, <1>c, <2>3 DEF HookStarts, KeyTallies
      <3>1. (call'.hide # "no" => ~clip'.visible) /\ (call'.hide = "quitting" => ~nav')
        BY <1>5, <1>0, <1>c, <2>3, <3>0 DEF HookStarts, HookRight, KeyTallies, CallCells, ClipCells
      <3>2. clip'.visible => NavDue'
        BY <1>5, <1>0, <1>c, <2>3, <3>0 DEF HookStarts, HookRight, KeyTallies, NavDue, Replaying, CallCells, ClipCells, EditCells
      <3>3. nav' => Running'
        BY <1>5, <1>0, <1>c, <2>3, <3>0 DEF HookStarts, HookRight, KeyTallies, HookCells
      <3> QED  BY <3>1, <3>2, <3>3
    <2> QED  BY <2>1, <2>2, <2>3 DEF HookRight
  <1>6. ASSUME NEW t \in HookThread, HookEnds(t) PROVE HookRight'
    <2>1. hookId' # 0 => hooks'[hookId'] = "running"
      BY <1>6, <1>0, <1>c DEF HookEnds, HookRight, HookCells
    <2>2. \A o \in Session : o > keyTally'.begun => tasks'[o] = "none"
      BY <1>6, <1>0, <1>c DEF HookEnds, HookRight, KeyTallies
    <2>3. ASSUME ~keyTally'.overlapped
          PROVE  (call'.hide # "no" => ~clip'.visible) /\ (call'.hide = "quitting" => ~nav') /\ (clip'.visible => NavDue') /\ (nav' => Running')
      <3>0. ~keyTally.overlapped
        BY <1>6, <1>c, <2>3 DEF HookEnds, KeyTallies
      <3>1. (call'.hide # "no" => ~clip'.visible) /\ (call'.hide = "quitting" => ~nav')
        BY <1>6, <1>0, <1>c, <2>3, <3>0 DEF HookEnds, HookRight, KeyTallies, CallCells, ClipCells
      <3>2. clip'.visible => NavDue'
        BY <1>6, <1>0, <1>c, <2>3, <3>0 DEF HookEnds, HookRight, KeyTallies, NavDue, Replaying, CallCells, ClipCells, EditCells
      <3>3. nav' => Running'
        BY <1>6, <1>0, <1>c, <2>3, <3>0 DEF HookEnds, HookRight, KeyTallies, HookCells
      <3> QED  BY <3>1, <3>2, <3>3
    <2> QED  BY <2>1, <2>2, <2>3 DEF HookRight
  <1>7. ASSUME NEW s \in Session, Prepare(s) PROVE HookRight'
    <2>1. hookId' # 0 => hooks'[hookId'] = "running"
      BY <1>7, <1>0, <1>c DEF Prepare, HookRight, HookCells
    <2>2. \A o \in Session : o > keyTally'.begun => tasks'[o] = "none"
      BY <1>7, <1>0, <1>c DEF Prepare, HookRight, KeyTallies
    <2>3. ASSUME ~keyTally'.overlapped
          PROVE  (call'.hide # "no" => ~clip'.visible) /\ (call'.hide = "quitting" => ~nav') /\ (clip'.visible => NavDue') /\ (nav' => Running')
      <3>0. ~keyTally.overlapped
        BY <1>7, <1>c, <2>3 DEF Prepare, KeyTallies
      <3>1. (call'.hide # "no" => ~clip'.visible) /\ (call'.hide = "quitting" => ~nav')
        BY <1>7, <1>0, <1>c, <2>3, <3>0 DEF Prepare, HookRight, KeyTallies, CallCells, ClipCells
      <3>2. clip'.visible => NavDue'
        BY <1>7, <1>0, <1>c, <2>3, <3>0 DEF Prepare, HookRight, KeyTallies, NavDue, Replaying, CallCells, ClipCells, EditCells
      <3>3. nav' => Running'
        BY <1>7, <1>0, <1>c, <2>3, <3>0 DEF Prepare, HookRight, KeyTallies, HookCells
      <3> QED  BY <3>1, <3>2, <3>3
    <2> QED  BY <2>1, <2>2, <2>3 DEF HookRight
  <1>8. ASSUME NEW s \in Session, GiveUp(s) PROVE HookRight'
    <2>1. hookId' # 0 => hooks'[hookId'] = "running"
      BY <1>8, <1>0, <1>c DEF GiveUp, DropAndSuspend, HookRight, HookCells
    <2>2. \A o \in Session : o > keyTally'.begun => tasks'[o] = "none"
      BY <1>8, <1>0, <1>c DEF GiveUp, DropAndSuspend, HookRight, KeyTallies
    <2>3. ASSUME ~keyTally'.overlapped
          PROVE  (call'.hide # "no" => ~clip'.visible) /\ (call'.hide = "quitting" => ~nav') /\ (clip'.visible => NavDue') /\ (nav' => Running')
      <3>0. ~keyTally.overlapped
        BY <1>8, <1>c, <2>3 DEF GiveUp, DropAndSuspend, KeyTallies
      <3>1. (call'.hide # "no" => ~clip'.visible) /\ (call'.hide = "quitting" => ~nav')
        BY <1>8, <1>0, <1>c, <2>3, <3>0 DEF GiveUp, DropAndSuspend, HookRight, KeyTallies, CallCells, ClipCells
      <3>2. clip'.visible => NavDue'
        BY <1>8, <1>0, <1>c, <2>3, <3>0 DEF GiveUp, DropAndSuspend, HookRight, KeyTallies, NavDue, Replaying, CallCells, ClipCells, EditCells
      <3>3. nav' => Running'
        BY <1>8, <1>0, <1>c, <2>3, <3>0 DEF GiveUp, DropAndSuspend, HookRight, KeyTallies, HookCells
      <3> QED  BY <3>1, <3>2, <3>3
    <2> QED  BY <2>1, <2>2, <2>3 DEF HookRight
  <1>9. ASSUME NEW s \in Session, Confirm(s) PROVE HookRight'
    <2>1. hookId' # 0 => hooks'[hookId'] = "running"
      BY <1>9, <1>0, <1>c DEF Confirm, HookRight, HookCells
    <2>2. \A o \in Session : o > keyTally'.begun => tasks'[o] = "none"
      BY <1>9, <1>0, <1>c DEF Confirm, HookRight, KeyTallies
    <2>3. ASSUME ~keyTally'.overlapped
          PROVE  (call'.hide # "no" => ~clip'.visible) /\ (call'.hide = "quitting" => ~nav') /\ (clip'.visible => NavDue') /\ (nav' => Running')
      <3>0. ~keyTally.overlapped
        BY <1>9, <1>c, <2>3 DEF Confirm, KeyTallies
      <3>1. (call'.hide # "no" => ~clip'.visible) /\ (call'.hide = "quitting" => ~nav')
        BY <1>9, <1>0, <1>c, <2>3, <3>0 DEF Confirm, HookRight, KeyTallies, CallCells, ClipCells
      <3>2. clip'.visible => NavDue'
        BY <1>9, <1>0, <1>c, <2>3, <3>0 DEF Confirm, HookRight, KeyTallies, NavDue, Replaying, CallCells, ClipCells, EditCells
      <3>3. nav' => Running'
        BY <1>9, <1>0, <1>c, <2>3, <3>0 DEF Confirm, HookRight, KeyTallies, HookCells
      <3> QED  BY <3>1, <3>2, <3>3
    <2> QED  BY <2>1, <2>2, <2>3 DEF HookRight
  <1>10. ASSUME NEW s \in Session, Take(s) PROVE HookRight'
    <2>1. hookId' # 0 => hooks'[hookId'] = "running"
      BY <1>10, <1>0, <1>c DEF Take, Active, HookRight, HookCells
    <2>2. \A o \in Session : o > keyTally'.begun => tasks'[o] = "none"
      BY <1>10, <1>0, <1>c DEF Take, Active, HookRight, KeyTallies
    <2>3. ASSUME ~keyTally'.overlapped
          PROVE  (call'.hide # "no" => ~clip'.visible) /\ (call'.hide = "quitting" => ~nav') /\ (clip'.visible => NavDue') /\ (nav' => Running')
      <3>0. ~keyTally.overlapped
        BY <1>10, <1>c, <2>3 DEF Take, Active, KeyTallies
      <3>1. (call'.hide # "no" => ~clip'.visible) /\ (call'.hide = "quitting" => ~nav')
        BY <1>10, <1>0, <1>c, <2>3, <3>0 DEF Take, Active, HookRight, KeyTallies, CallCells, ClipCells
      <3>2. clip'.visible => NavDue'
        BY <1>10, <1>0, <1>c, <2>3, <3>0 DEF Take, Active, HookRight, KeyTallies, NavDue, Replaying, CallCells, ClipCells, EditCells
      <3>3. nav' => Running'
        BY <1>10, <1>0, <1>c, <2>3, <3>0 DEF Take, Active, HookRight, KeyTallies, HookCells
      <3> QED  BY <3>1, <3>2, <3>3
    <2> QED  BY <2>1, <2>2, <2>3 DEF HookRight
  <1>11. ASSUME NEW s \in Session, Replay(s) PROVE HookRight'
    <2>1. hookId' # 0 => hooks'[hookId'] = "running"
      BY <1>11, <1>0, <1>c DEF Replay, HookRight, HookCells
    <2>2. \A o \in Session : o > keyTally'.begun => tasks'[o] = "none"
      BY <1>11, <1>0, <1>c DEF Replay, HookRight, KeyTallies
    <2>3. ASSUME ~keyTally'.overlapped
          PROVE  (call'.hide # "no" => ~clip'.visible) /\ (call'.hide = "quitting" => ~nav') /\ (clip'.visible => NavDue') /\ (nav' => Running')
      <3>0. ~keyTally.overlapped
        BY <1>11, <1>c, <2>3 DEF Replay, KeyTallies
      <3>1. (call'.hide # "no" => ~clip'.visible) /\ (call'.hide = "quitting" => ~nav')
        BY <1>11, <1>0, <1>c, <2>3, <3>0 DEF Replay, HookRight, KeyTallies, CallCells, ClipCells
      <3>2. clip'.visible => NavDue'
        BY <1>11, <1>0, <1>c, <2>3, <3>0 DEF Replay, HookRight, KeyTallies, NavDue, Replaying, CallCells, ClipCells, EditCells
      <3>3. nav' => Running'
        BY <1>11, <1>0, <1>c, <2>3, <3>0 DEF Replay, HookRight, KeyTallies, HookCells
      <3> QED  BY <3>1, <3>2, <3>3
    <2> QED  BY <2>1, <2>2, <2>3 DEF HookRight
  <1>12. ASSUME NEW s \in Session, TimeOut(s) PROVE HookRight'
    <2>1. hookId' # 0 => hooks'[hookId'] = "running"
      BY <1>12, <1>0, <1>c DEF TimeOut, DropAndSuspend, HookRight, HookCells
    <2>2. \A o \in Session : o > keyTally'.begun => tasks'[o] = "none"
      BY <1>12, <1>0, <1>c DEF TimeOut, DropAndSuspend, HookRight, KeyTallies
    <2>3. ASSUME ~keyTally'.overlapped
          PROVE  (call'.hide # "no" => ~clip'.visible) /\ (call'.hide = "quitting" => ~nav') /\ (clip'.visible => NavDue') /\ (nav' => Running')
      <3>0. ~keyTally.overlapped
        BY <1>12, <1>c, <2>3 DEF TimeOut, DropAndSuspend, KeyTallies
      <3>1. (call'.hide # "no" => ~clip'.visible) /\ (call'.hide = "quitting" => ~nav')
        BY <1>12, <1>0, <1>c, <2>3, <3>0 DEF TimeOut, DropAndSuspend, HookRight, KeyTallies, CallCells, ClipCells
      <3>2. clip'.visible => NavDue'
        BY <1>12, <1>0, <1>c, <2>3, <3>0 DEF TimeOut, DropAndSuspend, HookRight, KeyTallies, NavDue, Replaying, CallCells, ClipCells, EditCells
      <3>3. nav' => Running'
        BY <1>12, <1>0, <1>c, <2>3, <3>0 DEF TimeOut, DropAndSuspend, HookRight, KeyTallies, HookCells
      <3> QED  BY <3>1, <3>2, <3>3
    <2> QED  BY <2>1, <2>2, <2>3 DEF HookRight
  <1>13. ASSUME NEW s \in Session, LookAfterCancel(s) PROVE HookRight'
    <2>1. hookId' # 0 => hooks'[hookId'] = "running"
      BY <1>13, <1>0, <1>c DEF LookAfterCancel, HookRight, HookCells
    <2>2. \A o \in Session : o > keyTally'.begun => tasks'[o] = "none"
      BY <1>13, <1>0, <1>c DEF LookAfterCancel, HookRight, KeyTallies
    <2>3. ASSUME ~keyTally'.overlapped
          PROVE  (call'.hide # "no" => ~clip'.visible) /\ (call'.hide = "quitting" => ~nav') /\ (clip'.visible => NavDue') /\ (nav' => Running')
      <3>0. ~keyTally.overlapped
        BY <1>13, <1>c, <2>3 DEF LookAfterCancel, KeyTallies
      <3>1. (call'.hide # "no" => ~clip'.visible) /\ (call'.hide = "quitting" => ~nav')
        BY <1>13, <1>0, <1>c, <2>3, <3>0 DEF LookAfterCancel, HookRight, KeyTallies, CallCells, ClipCells
      <3>2. clip'.visible => NavDue'
        BY <1>13, <1>0, <1>c, <2>3, <3>0 DEF LookAfterCancel, HookRight, KeyTallies, NavDue, Replaying, CallCells, ClipCells, EditCells
      <3>3. nav' => Running'
        BY <1>13, <1>0, <1>c, <2>3, <3>0 DEF LookAfterCancel, HookRight, KeyTallies, HookCells
      <3> QED  BY <3>1, <3>2, <3>3
    <2> QED  BY <2>1, <2>2, <2>3 DEF HookRight
  <1>14. ASSUME NEW s \in Session, EnableAfterCancel(s) PROVE HookRight'
    <2>1. hookId' # 0 => hooks'[hookId'] = "running"
      BY <1>14, <1>0, <1>c DEF EnableAfterCancel, EnableNavigation, FreshThread, HookRight, HookCells
    <2>2. \A o \in Session : o > keyTally'.begun => tasks'[o] = "none"
      BY <1>14, <1>0, <1>c DEF EnableAfterCancel, EnableNavigation, FreshThread, HookRight, KeyTallies
    <2>3. ASSUME ~keyTally'.overlapped
          PROVE  (call'.hide # "no" => ~clip'.visible) /\ (call'.hide = "quitting" => ~nav') /\ (clip'.visible => NavDue') /\ (nav' => Running')
      <3>0. ~keyTally.overlapped
        BY <1>14, <1>c, <2>3 DEF EnableAfterCancel, EnableNavigation, FreshThread, KeyTallies
      <3>1. (call'.hide # "no" => ~clip'.visible) /\ (call'.hide = "quitting" => ~nav')
        BY <1>14, <1>0, <1>c, <2>3, <3>0 DEF EnableAfterCancel, EnableNavigation, FreshThread, HookRight, KeyTallies, CallCells, ClipCells
      <3>2. clip'.visible => NavDue'
        BY <1>14, <1>0, <1>c, <2>3, <3>0 DEF EnableAfterCancel, EnableNavigation, FreshThread, HookRight, KeyTallies, NavDue, Replaying, CallCells, ClipCells, EditCells
      <3>3. nav' => Running'
        BY <1>14, <1>0, <1>c, <2>3, <3>0 DEF EnableAfterCancel, EnableNavigation, FreshThread, HookRight, KeyTallies, HookCells
      <3> QED  BY <3>1, <3>2, <3>3
    <2> QED  BY <2>1, <2>2, <2>3 DEF HookRight
  <1>15. CASE DropOverflowed
    <2>1. hookId' # 0 => hooks'[hookId'] = "running"
      BY <1>15, <1>0, <1>c DEF DropOverflowed, DropAndSuspend, HookRight, HookCells
    <2>2. \A o \in Session : o > keyTally'.begun => tasks'[o] = "none"
      BY <1>15, <1>0, <1>c DEF DropOverflowed, DropAndSuspend, HookRight, KeyTallies
    <2>3. ASSUME ~keyTally'.overlapped
          PROVE  (call'.hide # "no" => ~clip'.visible) /\ (call'.hide = "quitting" => ~nav') /\ (clip'.visible => NavDue') /\ (nav' => Running')
      <3>0. ~keyTally.overlapped
        BY <1>15, <1>c, <2>3 DEF DropOverflowed, DropAndSuspend, KeyTallies
      <3>1. (call'.hide # "no" => ~clip'.visible) /\ (call'.hide = "quitting" => ~nav')
        BY <1>15, <1>0, <1>c, <2>3, <3>0 DEF DropOverflowed, DropAndSuspend, HookRight, KeyTallies, CallCells, ClipCells
      <3>2. clip'.visible => NavDue'
        <4>1. UNCHANGED <<clip, edit, tasks>> /\ call'.show = call.show
          BY <1>15, <1>c DEF DropOverflowed, CallCells
        <4>2. CASE handoff.session = 0
          <5>1. UNCHANGED <<nav, undo>>
            BY <1>15, <4>2 DEF DropOverflowed
          <5> QED  BY <1>0, <3>0, <4>1, <5>1 DEF HookRight, NavDue, Replaying
        <4>3. CASE handoff.session # 0
          <5>1. handoff.session \in Session /\ undo' = [undo EXCEPT ![handoff.session] = "looking"]
            BY <1>15, <1>c, <4>3 DEF DropOverflowed, DropAndSuspend, Handoffs
          <5>2. undo'[handoff.session] = "looking"
            BY <1>c, <5>1
          <5> QED  BY <5>1, <5>2 DEF NavDue
        <4> QED  BY <4>2, <4>3
      <3>3. nav' => Running'
        BY <1>15, <1>0, <1>c, <2>3, <3>0 DEF DropOverflowed, DropAndSuspend, HookRight, KeyTallies, HookCells
      <3> QED  BY <3>1, <3>2, <3>3
    <2> QED  BY <2>1, <2>2, <2>3 DEF HookRight
  <1>16. CASE StartEditing
    <2>1. hookId' # 0 => hooks'[hookId'] = "running"
      BY <1>16, <1>0, <1>c DEF StartEditing, HookRight, HookCells
    <2>2. \A o \in Session : o > keyTally'.begun => tasks'[o] = "none"
      BY <1>16, <1>0, <1>c DEF StartEditing, HookRight, KeyTallies
    <2>3. ASSUME ~keyTally'.overlapped
          PROVE  (call'.hide # "no" => ~clip'.visible) /\ (call'.hide = "quitting" => ~nav') /\ (clip'.visible => NavDue') /\ (nav' => Running')
      <3>0. ~keyTally.overlapped
        BY <1>16, <1>c, <2>3 DEF StartEditing, KeyTallies
      <3>1. (call'.hide # "no" => ~clip'.visible) /\ (call'.hide = "quitting" => ~nav')
        BY <1>16, <1>0, <1>c, <2>3, <3>0 DEF StartEditing, HookRight, KeyTallies, CallCells, ClipCells
      <3>2. clip'.visible => NavDue'
        BY <1>16, <1>0, <1>c, <2>3, <3>0 DEF StartEditing, HookRight, KeyTallies, NavDue, Replaying, CallCells, ClipCells, EditCells
      <3>3. nav' => Running'
        BY <1>16, <1>0, <1>c, <2>3, <3>0 DEF StartEditing, HookRight, KeyTallies, HookCells
      <3> QED  BY <3>1, <3>2, <3>3
    <2> QED  BY <2>1, <2>2, <2>3 DEF HookRight
  <1>17. CASE LookAfterEditing
    <2>1. hookId' # 0 => hooks'[hookId'] = "running"
      BY <1>17, <1>0, <1>c DEF LookAfterEditing, HookRight, HookCells
    <2>2. \A o \in Session : o > keyTally'.begun => tasks'[o] = "none"
      BY <1>17, <1>0, <1>c DEF LookAfterEditing, HookRight, KeyTallies
    <2>3. ASSUME ~keyTally'.overlapped
          PROVE  (call'.hide # "no" => ~clip'.visible) /\ (call'.hide = "quitting" => ~nav') /\ (clip'.visible => NavDue') /\ (nav' => Running')
      <3>0. ~keyTally.overlapped
        BY <1>17, <1>c, <2>3 DEF LookAfterEditing, KeyTallies
      <3>1. (call'.hide # "no" => ~clip'.visible) /\ (call'.hide = "quitting" => ~nav')
        BY <1>17, <1>0, <1>c, <2>3, <3>0 DEF LookAfterEditing, HookRight, KeyTallies, CallCells, ClipCells
      <3>2. clip'.visible => NavDue'
        BY <1>17, <1>0, <1>c, <2>3, <3>0 DEF LookAfterEditing, HookRight, KeyTallies, NavDue, Replaying, CallCells, ClipCells, EditCells
      <3>3. nav' => Running'
        BY <1>17, <1>0, <1>c, <2>3, <3>0 DEF LookAfterEditing, HookRight, KeyTallies, HookCells
      <3> QED  BY <3>1, <3>2, <3>3
    <2> QED  BY <2>1, <2>2, <2>3 DEF HookRight
  <1>18. CASE EnableAfterEditing
    <2>1. hookId' # 0 => hooks'[hookId'] = "running"
      BY <1>18, <1>0, <1>c DEF EnableAfterEditing, EnableNavigation, FreshThread, HookRight, HookCells
    <2>2. \A o \in Session : o > keyTally'.begun => tasks'[o] = "none"
      BY <1>18, <1>0, <1>c DEF EnableAfterEditing, EnableNavigation, FreshThread, HookRight, KeyTallies
    <2>3. ASSUME ~keyTally'.overlapped
          PROVE  (call'.hide # "no" => ~clip'.visible) /\ (call'.hide = "quitting" => ~nav') /\ (clip'.visible => NavDue') /\ (nav' => Running')
      <3>0. ~keyTally.overlapped
        BY <1>18, <1>c, <2>3 DEF EnableAfterEditing, EnableNavigation, FreshThread, KeyTallies
      <3>1. (call'.hide # "no" => ~clip'.visible) /\ (call'.hide = "quitting" => ~nav')
        BY <1>18, <1>0, <1>c, <2>3, <3>0 DEF EnableAfterEditing, EnableNavigation, FreshThread, HookRight, KeyTallies, CallCells, ClipCells
      <3>2. clip'.visible => NavDue'
        BY <1>18, <1>0, <1>c, <2>3, <3>0 DEF EnableAfterEditing, EnableNavigation, FreshThread, HookRight, KeyTallies, NavDue, Replaying, CallCells, ClipCells, EditCells
      <3>3. nav' => Running'
        BY <1>18, <1>0, <1>c, <2>3, <3>0 DEF EnableAfterEditing, EnableNavigation, FreshThread, HookRight, KeyTallies, HookCells
      <3> QED  BY <3>1, <3>2, <3>3
    <2> QED  BY <2>1, <2>2, <2>3 DEF HookRight
  <1>19. CASE Shows
    <2>1. hookId' # 0 => hooks'[hookId'] = "running"
      BY <1>19, <1>0, <1>c DEF Shows, HookRight, HookCells
    <2>2. \A o \in Session : o > keyTally'.begun => tasks'[o] = "none"
      BY <1>19, <1>0, <1>c DEF Shows, HookRight, KeyTallies
    <2>3. ASSUME ~keyTally'.overlapped
          PROVE  (call'.hide # "no" => ~clip'.visible) /\ (call'.hide = "quitting" => ~nav') /\ (clip'.visible => NavDue') /\ (nav' => Running')
      <3>0. ~keyTally.overlapped
        BY <1>19, <1>c, <2>3 DEF Shows, KeyTallies
      <3>1. (call'.hide # "no" => ~clip'.visible) /\ (call'.hide = "quitting" => ~nav')
        BY <1>19, <1>0, <1>c, <2>3, <3>0 DEF Shows, HookRight, KeyTallies, CallCells, ClipCells
      <3>2. clip'.visible => NavDue'
        BY <1>19, <1>0, <1>c, <2>3, <3>0 DEF Shows, HookRight, KeyTallies, NavDue, Replaying, CallCells, ClipCells, EditCells
      <3>3. nav' => Running'
        BY <1>19, <1>0, <1>c, <2>3, <3>0 DEF Shows, HookRight, KeyTallies, HookCells
      <3> QED  BY <3>1, <3>2, <3>3
    <2> QED  BY <2>1, <2>2, <2>3 DEF HookRight
  <1>20. CASE ShowEnables
    <2>1. hookId' # 0 => hooks'[hookId'] = "running"
      BY <1>20, <1>0, <1>c DEF ShowEnables, EnableNavigation, FreshThread, HookRight, HookCells
    <2>2. \A o \in Session : o > keyTally'.begun => tasks'[o] = "none"
      BY <1>20, <1>0, <1>c DEF ShowEnables, EnableNavigation, FreshThread, HookRight, KeyTallies
    <2>3. ASSUME ~keyTally'.overlapped
          PROVE  (call'.hide # "no" => ~clip'.visible) /\ (call'.hide = "quitting" => ~nav') /\ (clip'.visible => NavDue') /\ (nav' => Running')
      <3>0. ~keyTally.overlapped
        BY <1>20, <1>c, <2>3 DEF ShowEnables, EnableNavigation, FreshThread, KeyTallies
      <3>1. (call'.hide # "no" => ~clip'.visible) /\ (call'.hide = "quitting" => ~nav')
        BY <1>20, <1>0, <1>c, <2>3, <3>0 DEF ShowEnables, EnableNavigation, FreshThread, HookRight, KeyTallies, CallCells, ClipCells
      <3>2. clip'.visible => NavDue'
        BY <1>20, <1>0, <1>c, <2>3, <3>0 DEF ShowEnables, EnableNavigation, FreshThread, HookRight, KeyTallies, NavDue, Replaying, CallCells, ClipCells, EditCells
      <3>3. nav' => Running'
        BY <1>20, <1>0, <1>c, <2>3, <3>0 DEF ShowEnables, EnableNavigation, FreshThread, HookRight, KeyTallies, HookCells
      <3> QED  BY <3>1, <3>2, <3>3
    <2> QED  BY <2>1, <2>2, <2>3 DEF HookRight
  <1>21. CASE Hides
    <2>1. hookId' # 0 => hooks'[hookId'] = "running"
      BY <1>21, <1>0, <1>c DEF Hides, HookRight, HookCells
    <2>2. \A o \in Session : o > keyTally'.begun => tasks'[o] = "none"
      BY <1>21, <1>0, <1>c DEF Hides, HookRight, KeyTallies
    <2>3. ASSUME ~keyTally'.overlapped
          PROVE  (call'.hide # "no" => ~clip'.visible) /\ (call'.hide = "quitting" => ~nav') /\ (clip'.visible => NavDue') /\ (nav' => Running')
      <3>0. ~keyTally.overlapped
        BY <1>21, <1>c, <2>3 DEF Hides, KeyTallies
      <3>1. (call'.hide # "no" => ~clip'.visible) /\ (call'.hide = "quitting" => ~nav')
        BY <1>21, <1>0, <1>c, <2>3, <3>0 DEF Hides, HookRight, KeyTallies, CallCells, ClipCells
      <3>2. clip'.visible => NavDue'
        BY <1>21, <1>0, <1>c, <2>3, <3>0 DEF Hides, HookRight, KeyTallies, NavDue, Replaying, CallCells, ClipCells, EditCells
      <3>3. nav' => Running'
        BY <1>21, <1>0, <1>c, <2>3, <3>0 DEF Hides, HookRight, KeyTallies, HookCells
      <3> QED  BY <3>1, <3>2, <3>3
    <2> QED  BY <2>1, <2>2, <2>3 DEF HookRight
  <1>22. CASE HideCancels
    <2>1. hookId' # 0 => hooks'[hookId'] = "running"
      BY <1>22, <1>0, <1>c DEF HideCancels, HookRight, HookCells
    <2>2. \A o \in Session : o > keyTally'.begun => tasks'[o] = "none"
      BY <1>22, <1>0, <1>c DEF HideCancels, HookRight, KeyTallies
    <2>3. ASSUME ~keyTally'.overlapped
          PROVE  (call'.hide # "no" => ~clip'.visible) /\ (call'.hide = "quitting" => ~nav') /\ (clip'.visible => NavDue') /\ (nav' => Running')
      <3>0. ~keyTally.overlapped
        BY <1>22, <1>c, <2>3 DEF HideCancels, KeyTallies
      <3>1. (call'.hide # "no" => ~clip'.visible) /\ (call'.hide = "quitting" => ~nav')
        BY <1>22, <1>0, <1>c, <2>3, <3>0 DEF HideCancels, HookRight, KeyTallies, CallCells, ClipCells
      <3>2. clip'.visible => NavDue'
        BY <1>22, <1>0, <1>c, <2>3, <3>0 DEF HideCancels, HookRight, KeyTallies, NavDue, Replaying, CallCells, ClipCells, EditCells
      <3>3. nav' => Running'
        BY <1>22, <1>0, <1>c, <2>3, <3>0 DEF HideCancels, HookRight, KeyTallies, HookCells
      <3> QED  BY <3>1, <3>2, <3>3
    <2> QED  BY <2>1, <2>2, <2>3 DEF HookRight
  <1>23. CASE HideSuspends
    <2>1. hookId' # 0 => hooks'[hookId'] = "running"
      BY <1>23, <1>0, <1>c DEF HideSuspends, HookRight, HookCells
    <2>2. \A o \in Session : o > keyTally'.begun => tasks'[o] = "none"
      BY <1>23, <1>0, <1>c DEF HideSuspends, HookRight, KeyTallies
    <2>3. ASSUME ~keyTally'.overlapped
          PROVE  (call'.hide # "no" => ~clip'.visible) /\ (call'.hide = "quitting" => ~nav') /\ (clip'.visible => NavDue') /\ (nav' => Running')
      <3>0. ~keyTally.overlapped
        BY <1>23, <1>c, <2>3 DEF HideSuspends, KeyTallies
      <3>1. (call'.hide # "no" => ~clip'.visible) /\ (call'.hide = "quitting" => ~nav')
        BY <1>23, <1>0, <1>c, <2>3, <3>0 DEF HideSuspends, HookRight, KeyTallies, CallCells, ClipCells
      <3>2. clip'.visible => NavDue'
        BY <1>23, <1>0, <1>c, <2>3, <3>0 DEF HideSuspends, HookRight, KeyTallies, NavDue, Replaying, CallCells, ClipCells, EditCells
      <3>3. nav' => Running'
        BY <1>23, <1>0, <1>c, <2>3, <3>0 DEF HideSuspends, HookRight, KeyTallies, HookCells
      <3> QED  BY <3>1, <3>2, <3>3
    <2> QED  BY <2>1, <2>2, <2>3 DEF HookRight
  <1>24. CASE HideQuits
    <2>1. hookId' # 0 => hooks'[hookId'] = "running"
      BY <1>24, <1>0, <1>c DEF HideQuits, RegisteredAfterQuit, HookRight, HookCells
    <2>2. \A o \in Session : o > keyTally'.begun => tasks'[o] = "none"
      BY <1>24, <1>0, <1>c DEF HideQuits, RegisteredAfterQuit, HookRight, KeyTallies
    <2>3. ASSUME ~keyTally'.overlapped
          PROVE  (call'.hide # "no" => ~clip'.visible) /\ (call'.hide = "quitting" => ~nav') /\ (clip'.visible => NavDue') /\ (nav' => Running')
      <3>0. ~keyTally.overlapped
        BY <1>24, <1>c, <2>3 DEF HideQuits, RegisteredAfterQuit, KeyTallies
      <3>1. (call'.hide # "no" => ~clip'.visible) /\ (call'.hide = "quitting" => ~nav')
        BY <1>24, <1>0, <1>c, <2>3, <3>0 DEF HideQuits, RegisteredAfterQuit, HookRight, KeyTallies, CallCells, ClipCells
      <3>2. clip'.visible => NavDue'
        BY <1>24, <1>0, <1>c, <2>3, <3>0 DEF HideQuits, RegisteredAfterQuit, HookRight, KeyTallies, NavDue, Replaying, CallCells, ClipCells, EditCells
      <3>3. nav' => Running'
        BY <1>24, <1>0, <1>c, <2>3, <3>0 DEF HideQuits, RegisteredAfterQuit, HookRight, KeyTallies, HookCells
      <3> QED  BY <3>1, <3>2, <3>3
    <2> QED  BY <2>1, <2>2, <2>3 DEF HookRight
  <1> QED  BY <1>1, <1>2, <1>3, <1>4, <1>5, <1>6, <1>7, <1>8, <1>9, <1>10, <1>11, <1>12, <1>13, <1>14, <1>15, <1>16, <1>17, <1>18, <1>19, <1>20, <1>21, <1>22, <1>23, <1>24 DEF SearchKeysNext

LEMMA KeysStay == KeyInv /\ [SearchKeysNext]_keyVars => KeyInv'
  <1> SUFFICES ASSUME KeyInv, [SearchKeysNext]_keyVars PROVE KeyInv'
    OBVIOUS
  <1>1. CASE UNCHANGED keyVars
    BY <1>1 DEF keyVars, KeyInv, KeyShape, KeysCounted, KeysOrdered, HookRight, Replaying, LastKey, NavDue
  <1>2. CASE SearchKeysNext
    <2>1. KeyShape'
      BY <1>2, KeyTypesStay DEF KeyInv
    <2>2. KeysCounted' /\ KeysOrdered'
      BY <1>2, TypeKeyCounts, BufferKeyCounts, RouteKeyCounts, BeginCounts, TakeCounts, ReplayCounts, OthersCount DEF SearchKeysNext
    <2>3. HookRight'
      BY <1>2, HookStays
    <2> QED  BY <2>1, <2>2, <2>3 DEF KeyInv
  <1> QED  BY <1>1, <1>2

LEMMA KeysServe == KeyInv => SearchKeysSound /\ SearchKeysTypeOK
  <1> SUFFICES ASSUME KeyInv PROVE SearchKeysSound /\ SearchKeysTypeOK
    OBVIOUS
  <1>1. SearchKeysTypeOK
    BY DEF KeyInv, KeyShape, SearchKeysTypeOK, HookCells, Handoffs, HookKeys, KeysSearched, ClipCells, CallCells, TaskStep, UndoStep, EditCells, KeyTallies
  <1>2. KeysInOrder
    BY DEF KeyInv, KeysOrdered, Growing, KeysInOrder
  <1>3. NavigationServed
    <2> SUFFICES ASSUME KeysAtRest, clip.visible, ~edit.on, ~keyTally.overlapped
                 PROVE  nav /\ \E t \in HookThread : hooks[t] = "running"
      BY DEF NavigationServed
    <2>1. nav
      BY DEF KeyInv, HookRight, NavDue, Replaying, KeysAtRest
    <2>2. \E t \in HookThread : hooks[t] \in {"starting", "running"}
      BY <2>1 DEF KeyInv, HookRight
    <2> QED  BY <2>1, <2>2 DEF KeysAtRest
  <1> QED  BY <1>1, <1>2, <1>3 DEF SearchKeysSound


-----------------------------------------------------------------------------
(* The old history: while a row is being made into a record it is one of those that are left, it  *)
(* makes a record, its picture is there, and what was found of it is so unless another record was  *)
(* committed since; and every row that is done with is accounted for.                              *)

\* Of a finite set of numbers there is a smallest.
LEMMA Smallest ==
  ASSUME NEW S, S \subseteq Nat, IsFiniteSet(S), S # {}
  PROVE  Min(S) \in S /\ \A x \in S : Min(S) =< x
  <1>1. PICK top \in S : \A e \in S : e =< top
    BY Greatest
  <1> DEFINE below == [e \in S |-> top - e]
  <1>2. \A e \in S : e \in Nat /\ top - e \in Nat
    BY <1>1
  <1>3. below \in [S -> Nat] /\ \A e \in S : below[e] = top - e
    BY <1>2
  <1> HIDE DEF below
  <1>4. PICK m \in S : \A e \in S : below[e] =< below[m]
    BY <1>3, GreatestOf
  <1>5. \A e \in S : m =< e
    BY <1>2, <1>3, <1>4
  <1> QED  BY <1>5 DEF Min

LEMMA Largest ==
  ASSUME NEW S, S \subseteq Nat, IsFiniteSet(S), S # {}
  PROVE  Max(S) \in S /\ \A x \in S : x =< Max(S)
  <1>1. PICK top \in S : \A e \in S : e =< top
    BY Greatest
  <1>2. \A e \in S : top >= e
    BY <1>1
  <1>3. Max(S) \in S /\ \A e \in S : Max(S) >= e
    BY <1>2 DEF Max
  <1> QED  BY <1>3

\* Of the places of the greatest values there is a first.
LEMMA FirstGreatest ==
  ASSUME NEW n \in Nat, n > 0, NEW f \in [1..n -> Nat]
  PROVE  \E i \in 1..n : /\ \A j \in 1..n : f[j] =< f[i]
                         /\ \A j \in 1..i - 1 : f[j] < f[i]
  <1>1. IsFiniteSet(1..n) /\ 1..n # {}
    <2>1. 1 \in 1..n
      OBVIOUS
    <2>2. IsFiniteSet(1..n)
      BY FS_Interval
    <2> QED  BY <2>1, <2>2
  <1>2. PICK m \in 1..n : \A j \in 1..n : f[j] =< f[m]
    BY <1>1, GreatestOf
  <1> DEFINE S == {i \in 1..n : f[i] = f[m]}
  <1>3. S \subseteq Nat /\ IsFiniteSet(S) /\ S # {}
    BY <1>1, FS_Subset
  <1>4. Min(S) \in S /\ \A x \in S : Min(S) =< x
    <2> HIDE DEF S
    <2> QED  BY <1>3, Smallest
  <1>5. ASSUME NEW j \in 1..Min(S) - 1 PROVE f[j] < f[Min(S)]
    <2>1. j \in 1..n /\ j \notin S
      BY <1>3, <1>4
    <2>2. f[j] # f[m] /\ f[j] =< f[m] /\ f[Min(S)] = f[m] /\ f[j] \in Nat /\ f[m] \in Nat
      BY <2>1, <1>2, <1>4
    <2> QED  BY <2>2
  <1>6. Min(S) \in 1..n /\ f[Min(S)] = f[m]
    BY <1>4
  <1> QED  BY <1>2, <1>5, <1>6

LEMMA Counts == \A d \in OldDatabase : ItemCount(d) \in Nat
  <1> SUFFICES ASSUME NEW d \in OldDatabase PROVE ItemCount(d) \in Nat
    OBVIOUS
  <1>1. IsFiniteSet(RowsIn[d])
    BY LegacyImportAssumption, FS_Subset
  <1> QED  BY <1>1, FS_CardinalityType DEF ItemCount

\* The best database of a folder is one of those that were found.
LEMMA BestIsFound ==
  ASSUME NEW f, FoundIn[f] \in Seq(OldDatabase)
  PROVE  BestDatabase(f) \subseteq OldDatabase /\ FolderCount(f) \in Nat
  <1> DEFINE n == Len(FoundIn[f])
             found == {FoundIn[f][i] : i \in 1..n}
             counts == {0} \cup {ItemCount(d) : d \in found}
             most == Max(counts)
             First(i) == /\ ItemCount(FoundIn[f][i]) = most
                         /\ \A j \in 1..i - 1 : ItemCount(FoundIn[f][j]) # most
             first == CHOOSE i \in 1..n : First(i)
  <1>1. n \in Nat /\ \A i \in 1..n : FoundIn[f][i] \in OldDatabase /\ ItemCount(FoundIn[f][i]) \in Nat
    BY Counts
  <1>2. counts \subseteq Nat /\ IsFiniteSet(counts) /\ counts # {}
    <2>1. IsFiniteSet(1..n)
      BY <1>1, FS_Interval
    <2> DEFINE value == [i \in 1..n |-> ItemCount(FoundIn[f][i])]
               values == {value[i] : i \in 1..n}
    <2>2. counts = values \cup {0}
      OBVIOUS
    <2>3. IsFiniteSet(values)
      <3>1. value \in [1..n -> Nat]
        BY <1>1
      <3> HIDE DEF value
      <3>2. value \in Surjection(1..n, values)
        BY <3>1 DEF Surjection
      <3> HIDE DEF values
      <3> QED  BY <2>1, <3>2, FS_Surjection
    <2>4. values \subseteq Nat
      BY <1>1
    <2> HIDE DEF values, counts
    <2>5. IsFiniteSet(values \cup {0})
      BY <2>3, FS_AddElement
    <2> QED  BY <2>2, <2>4, <2>5
  <1>3. most \in counts /\ \A x \in counts : x =< most
    <2> HIDE DEF counts
    <2> QED  BY <1>2, Largest
  <1>4. ASSUME most # 0 PROVE first \in 1..n
    <2> DEFINE S == {i \in 1..n : ItemCount(FoundIn[f][i]) = most}
    <2>1. S \subseteq Nat /\ IsFiniteSet(S) /\ S # {}
      <3>1. IsFiniteSet(1..n)
        BY <1>1, FS_Interval
      <3>2. S \subseteq 1..n /\ 1..n \subseteq Nat
        OBVIOUS
      <3>3. \E d \in found : ItemCount(d) = most
        BY <1>3, <1>4
      <3>4. S # {}
        BY <3>3
      <3> HIDE DEF S
      <3>5. IsFiniteSet(S)
        BY <3>1, <3>2, FS_Subset
      <3> QED  BY <3>2, <3>4, <3>5
    <2>2. Min(S) \in S /\ \A x \in S : Min(S) =< x
      <3> HIDE DEF S
      <3> QED  BY <2>1, Smallest
    <2>3. Min(S) \in 1..n /\ First(Min(S))
      <3>1. ASSUME NEW j \in 1..Min(S) - 1, ItemCount(FoundIn[f][j]) = most PROVE FALSE
        <4>1. Min(S) \in 1..n
          BY <2>2
        <4>2. j \in S /\ ~(Min(S) =< j)
          BY <3>1, <4>1, <1>1
        <4> QED  BY <2>2, <4>2
      <3> QED  BY <3>1, <2>2
    <2> HIDE DEF First, most, S
    <2> QED  BY <2>3
  <1>5. BestDatabase(f) = IF most = 0 THEN {} ELSE {FoundIn[f][first]}
    BY DEF BestDatabase
  <1>6. BestDatabase(f) \subseteq OldDatabase
    <2> HIDE DEF most, first
    <2> QED  BY <1>1, <1>4, <1>5
  <1>7. FolderCount(f) \in Nat
    <2> DEFINE these == {0} \cup {ItemCount(d) : d \in BestDatabase(f)}
    <2>1. these = {0} \/ \E d \in OldDatabase : these = {0, ItemCount(d)}
      <3> HIDE DEF most, first
      <3> QED  BY <1>5, <1>6
    <2>2. these \subseteq Nat /\ IsFiniteSet(these) /\ these # {}
      <3>1. IsFiniteSet({0}) /\ \A c : IsFiniteSet({0, c})
        <4>1. IsFiniteSet({0})
          BY FS_Singleton
        <4>2. ASSUME NEW c PROVE IsFiniteSet({0, c})
          <5>1. {0, c} = {0} \cup {c}
            OBVIOUS
          <5> QED  BY <4>1, <5>1, FS_AddElement
        <4> QED  BY <4>1, <4>2
      <3>2. \A d \in OldDatabase : {0, ItemCount(d)} \subseteq Nat
        BY Counts
      <3> HIDE DEF these
      <3>3. IsFiniteSet(these)
        BY <2>1, <3>1
      <3>4. these \subseteq Nat /\ 0 \in these
        BY <2>1, <3>2
      <3> QED  BY <3>3, <3>4
    <2>3. Max(these) \in these
      <3> HIDE DEF these
      <3> QED  BY <2>2, Largest
    <2> QED  BY <2>2, <2>3 DEF FolderCount
  <1> QED  BY <1>6, <1>7

\* The chosen folder is one of the folders.
LEMMA ChosenIsFolder ==
  ASSUME Len(Folders) > 0
  PROVE  ChosenFolder \in 1..Len(Folders)
  <1> DEFINE n == Len(Folders)
             count == [i \in 1..n |-> FolderCount(Folders[i])]
  <1>1. n \in Nat /\ n > 0 /\ count \in [1..n -> Nat]
    BY LegacyImportAssumption, BestIsFound
  <1>2. \A i \in 1..n : count[i] = FolderCount(Folders[i])
    OBVIOUS
  <1> HIDE DEF count
  <1>3. PICK i \in 1..n : /\ \A j \in 1..n : count[j] =< count[i]
                          /\ \A j \in 1..i - 1 : count[j] < count[i]
    BY <1>1, FirstGreatest
  <1>4. \A j \in 1..i - 1 : j \in 1..n
    BY <1>1
  <1>5. /\ \A j \in 1..n : FolderCount(Folders[j]) <= FolderCount(Folders[i])
        /\ \A j \in 1..i - 1 : FolderCount(Folders[j]) < FolderCount(Folders[i])
    BY <1>2, <1>3, <1>4
  <1> QED  BY <1>5 DEF ChosenFolder

ImportCell ==
    [at : {"idle", "rows", "finding", "storing"}, left : SUBSET OldRow,
     folder : {""} \cup {Folders[i] : i \in 1..Len(Folders)}, types : SUBSET {"normal", "favorite"},
     row : OldRow \cup {0}, found : BOOLEAN, stale : BOOLEAN, imported : SUBSET OldRow, skipped : SUBSET OldRow]
OutcomeCell == [ended : BOOLEAN, rows : SUBSET OldRow, imported : SUBSET OldRow, skipped : SUBSET OldRow]

ImportShape ==
    /\ capture \in CaptureChoice
    /\ \A x \in history : x.content[1] \in OldContent \cup Copied /\ x.favorite \in BOOLEAN
    /\ pictures \in SUBSET OldContent /\ filesLock \in {"nobody", "import"}
    /\ importing \in ImportCell /\ outcome \in OutcomeCell

\* An import that runs holds the lock.
LockHeld == importing.at # "idle" <=> filesLock = "import"

\* The row that is being made into a record.
ImportRowRight ==
    importing.at \in {"finding", "storing"} =>
        /\ importing.row \in importing.left /\ Importable(importing.row)
        /\ IsPicture(OldItem[importing.row].content) => OldItem[importing.row].content \in pictures
        /\ importing.at = "storing" /\ ~importing.stale => importing.found = Known(OldKey(importing.row))

\* A row that makes a record is in the history, or was deleted there.
Accounted(r) == Known(OldKey(r)) \/ OldKey(r) \in erased

RowsDone ==
    importing.at # "idle" =>
        /\ importing.imported \cap importing.skipped = {}
        /\ (importing.imported \cup importing.skipped) \cap importing.left = {}
        /\ \A r \in importing.imported \cup importing.skipped : Importable(r) => Accounted(r)

ImportInv == ImportShape /\ LockHeld /\ ImportRowRight /\ RowsDone /\ ImportSound

LEMMA NoImportIs == NoImport \in ImportCell /\ NoOutcome \in OutcomeCell /\ NoImport.at = "idle" /\ ~NoOutcome.ended
  BY DEF NoImport, NoOutcome, ImportCell, OutcomeCell

LEMMA ImportStarts == LegacyImportInit => ImportInv
  <1> SUFFICES ASSUME LegacyImportInit PROVE ImportInv
    OBVIOUS
  <1>1. ImportShape /\ LockHeld /\ ImportRowRight /\ RowsDone
    BY NoImportIs DEF LegacyImportInit, ImportShape, LockHeld, ImportRowRight, RowsDone
  <1>2. ImportSound
    BY NoImportIs DEF LegacyImportInit, ImportSound, OnePerContent, PicturesThere, NoSecrets, ImportedAll
  <1> QED  BY <1>1, <1>2 DEF ImportInv

\* What is recognized, importable and admitted depends on the settings, which do not change, and on
\* the folder of the import.
LEMMA BeginImportStays ==
  ASSUME ImportInv, NEW types \in SUBSET {"normal", "favorite"}, BeginImport(types)
  PROVE  ImportInv'
  <1>1. ImportShape /\ ImportSound
    BY DEF ImportInv
  <1> DEFINE folder == Folders[ChosenFolder]
             found == UNION {RowsIn[d] : d \in BestDatabase(folder)}
  <1>2. ChosenFolder \in 1..Len(Folders)
    <2>1. Len(Folders) > 0
      BY LegacyImportAssumption DEF BeginImport
    <2> QED  BY <2>1, ChosenIsFolder
  <1>3. found \in SUBSET OldRow
    BY <1>2, BestIsFound, LegacyImportAssumption
  <1>4. importing' = [NoImport EXCEPT !.at = "rows", !.types = types, !.folder = folder, !.left = found]
    BY DEF BeginImport
  <1> HIDE DEF found
  <1>5. importing' \in ImportCell /\ importing'.at = "rows" /\ importing'.imported = {} /\ importing'.skipped = {}
    BY <1>2, <1>3, <1>4 DEF NoImport, ImportCell
  <1>6. UNCHANGED <<capture, history, pictures>> /\ filesLock' = "import" /\ outcome' = NoOutcome
    BY DEF BeginImport, BeginsLocked
  <1>7. ImportShape' /\ LockHeld' /\ ImportRowRight' /\ RowsDone'
    BY <1>1, <1>5, <1>6, NoImportIs DEF ImportShape, LockHeld, ImportRowRight, RowsDone
  <1>8. ImportSound'
    BY <1>1, <1>6, NoImportIs DEF ImportSound, OnePerContent, PicturesThere, NoSecrets, ImportedAll
  <1> QED  BY <1>7, <1>8 DEF ImportInv

\* Steps of the import that leave the history alone.
LEMMA HistoryKept ==
  ASSUME ImportInv, UNCHANGED <<capture, history, outcome, erased>>, pictures \subseteq pictures'
  PROVE  ImportSound' /\ \A r : Accounted(r)' <=> Accounted(r)
  <1>1. ImportSound'
    BY DEF ImportInv, ImportSound, OnePerContent, PicturesThere, NoSecrets, ImportedAll, OldKey, KeyOf, FormatOf, Known
  <1>2. \A r : Accounted(r)' <=> Accounted(r)
    BY DEF Accounted, OldKey, KeyOf, FormatOf, Known
  <1> QED  BY <1>1, <1>2

LEMMA Recognized ==
  ASSUME UNCHANGED capture
  PROVE  /\ \A r : OldKey(r)' = OldKey(r)
         /\ importing'.folder = importing.folder => \A r : Importable(r)' <=> Importable(r)
  BY DEF OldKey, KeyOf, FormatOf, Importable, Admits

LEMMA Oldest ==
  ASSUME ImportInv, importing.left # {}
  PROVE  OldestRow \in importing.left /\ OldestRow \in OldRow
  <1>1. importing.left \subseteq Nat /\ IsFiniteSet(importing.left) /\ importing.left \subseteq OldRow
    BY LegacyImportAssumption, FS_Subset DEF ImportInv, ImportShape, ImportCell
  <1> QED  BY <1>1, Smallest DEF OldestRow

LEMMA PassOverStays ==
  ASSUME ImportInv, PassOver
  PROVE  ImportInv'
  <1> DEFINE r == OldestRow
  <1>1. r \in importing.left /\ r \in OldRow
    BY Oldest DEF PassOver
  <1>2. importing' = [importing EXCEPT !.left = importing.left \ {r},
                        !.skipped = IF Selected(r) THEN importing.skipped \cup {r} ELSE importing.skipped]
    BY DEF PassOver, ImportInv, ImportShape, ImportCell
  <1>3. UNCHANGED <<capture, history, pictures, filesLock, outcome, erased>> /\ importing.at = "rows"
        /\ (Selected(r) => ~Importable(r))
    BY DEF PassOver
  <1> HIDE DEF r
  <1>4. importing' \in ImportCell /\ importing'.at = "rows" /\ importing'.folder = importing.folder
        /\ importing'.left = importing.left \ {r} /\ importing'.imported = importing.imported
        /\ importing'.skipped = IF Selected(r) THEN importing.skipped \cup {r} ELSE importing.skipped
    BY <1>1, <1>2, <1>3 DEF ImportInv, ImportShape, ImportCell
  <1>5. ImportShape' /\ LockHeld' /\ ImportRowRight'
    BY <1>3, <1>4 DEF ImportInv, ImportShape, LockHeld, ImportRowRight
  <1>6. RowsDone'
    BY <1>1, <1>3, <1>4, HistoryKept, Recognized DEF ImportInv, RowsDone
  <1> QED  BY <1>3, <1>5, <1>6, HistoryKept DEF ImportInv

LEMMA MakeRecordStays ==
  ASSUME ImportInv, MakeRecord
  PROVE  ImportInv'
  <1> DEFINE r == OldestRow
  <1>1. r \in importing.left /\ r \in OldRow /\ Importable(r)
    BY Oldest DEF MakeRecord
  <1>2. importing' = [importing EXCEPT !.at = "finding", !.row = r]
    BY DEF MakeRecord
  <1>3. UNCHANGED <<capture, history, filesLock, outcome, erased>> /\ importing.at = "rows"
        /\ pictures' = pictures \cup (IF OldItem[r].kind = "image" THEN {OldItem[r].content} ELSE {})
    BY DEF MakeRecord
  <1> HIDE DEF r
  <1>4. importing' \in ImportCell /\ importing'.at = "finding" /\ importing'.row = r
        /\ UNCHANGED <<importing.folder, importing.left, importing.imported, importing.skipped>>
    BY <1>1, <1>2 DEF ImportInv, ImportShape, ImportCell
  <1>5. pictures' \in SUBSET OldContent /\ pictures \subseteq pictures'
    BY <1>1, <1>3 DEF ImportInv, ImportShape, OldContent
  <1>6. IsPicture(OldItem[r].content) => OldItem[r].content \in pictures'
    BY <1>1, <1>3, LegacyImportAssumption DEF IsPicture
  <1>7. ImportShape' /\ LockHeld'
    BY <1>3, <1>4, <1>5 DEF ImportInv, ImportShape, LockHeld
  <1>8. ImportRowRight'
    BY <1>1, <1>3, <1>4, <1>6, Recognized DEF ImportRowRight
  <1>9. RowsDone'
    BY <1>3, <1>4, <1>5, HistoryKept, Recognized DEF ImportInv, RowsDone
  <1> QED  BY <1>3, <1>5, <1>7, <1>8, <1>9, HistoryKept DEF ImportInv

LEMMA FindEqualStays ==
  ASSUME ImportInv, FindEqual
  PROVE  ImportInv'
  <1>1. importing' = [importing EXCEPT !.at = "storing", !.stale = FALSE, !.found = Known(OldKey(importing.row))]
    BY DEF FindEqual
  <1>2. UNCHANGED <<capture, history, pictures, filesLock, outcome, erased>> /\ importing.at = "finding"
    BY DEF FindEqual
  <1>3. Known(OldKey(importing.row)) \in BOOLEAN
    BY DEF Known
  <1>4. importing' \in ImportCell /\ importing'.at = "storing" /\ importing'.found = Known(OldKey(importing.row))
        /\ UNCHANGED <<importing.folder, importing.left, importing.imported, importing.skipped, importing.row>>
    BY <1>1, <1>3 DEF ImportInv, ImportShape, ImportCell
  <1>5. ImportShape' /\ LockHeld'
    BY <1>2, <1>4 DEF ImportInv, ImportShape, LockHeld
  <1>6. ImportRowRight'
    <2>1. Known(OldKey(importing.row))' = Known(OldKey(importing.row))
      BY <1>2, <1>4 DEF Known, OldKey, KeyOf, FormatOf
    <2> QED  BY <1>2, <1>4, <2>1, Recognized DEF ImportInv, ImportRowRight
  <1>7. RowsDone'
    BY <1>2, <1>4, HistoryKept, Recognized DEF ImportInv, RowsDone
  <1> QED  BY <1>2, <1>5, <1>6, <1>7, HistoryKept DEF ImportInv

LEMMA EndStays ==
  ASSUME ImportInv, ImportFails \/ FinishImport
  PROVE  ImportInv'
  <1>1. importing' = NoImport /\ UNCHANGED <<capture, history, pictures, erased>> /\ filesLock' = "nobody"
    BY DEF ImportFails, FinishImport, Released, ImportInv, LockHeld, ImportShape
  <1>2. outcome' \in OutcomeCell /\ ImportedAll'
    <2>1. CASE ImportFails
      <3>1. UNCHANGED <<capture, history, outcome, erased>> /\ pictures \subseteq pictures'
        BY <2>1 DEF ImportFails
      <3> QED  BY <3>1, HistoryKept DEF ImportInv, ImportShape, ImportSound
    <2>2. CASE FinishImport
      <3> DEFINE done == {r \in importing.imported \cup importing.skipped : Importable(r)}
      <3>1. outcome' = [ended |-> TRUE, imported |-> importing.imported, skipped |-> importing.skipped, rows |-> done]
            /\ importing.at = "rows"
        BY <2>2 DEF FinishImport
      <3>2. done \in SUBSET OldRow /\ importing.imported \in SUBSET OldRow /\ importing.skipped \in SUBSET OldRow
        BY DEF ImportInv, ImportShape, ImportCell
      <3>3. \A r \in done : Accounted(r)
        BY <3>1 DEF ImportInv, RowsDone
      <3> HIDE DEF done
      <3>4. \A r \in done : Accounted(r)'
        BY <3>3, <1>1 DEF Accounted, OldKey, KeyOf, FormatOf, Known
      <3>5. outcome' \in OutcomeCell /\ outcome'.rows = done
            /\ outcome'.imported = importing.imported /\ outcome'.skipped = importing.skipped
        BY <3>1, <3>2 DEF OutcomeCell
      <3>6. importing.imported \cap importing.skipped = {}
        BY <3>1 DEF ImportInv, RowsDone
      <3> QED  BY <3>4, <3>5, <3>6 DEF ImportedAll, Accounted
    <2> QED  BY <2>1, <2>2
  <1>3. ImportShape' /\ LockHeld' /\ ImportRowRight' /\ RowsDone'
    BY <1>1, <1>2, NoImportIs DEF ImportInv, ImportShape, LockHeld, ImportRowRight, RowsDone
  <1>4. ImportSound'
    BY <1>1, <1>2 DEF ImportInv, ImportSound, OnePerContent, PicturesThere, NoSecrets
  <1> QED  BY <1>3, <1>4 DEF ImportInv

\* A record joins a history that does not know its content.
LEMMA RecordJoins ==
  ASSUME ImportInv, NEW x, ~Known(x.content), history' = history \cup {x}, UNCHANGED <<capture, outcome, erased>>,
         x.content[1] \in OldContent \cup Copied, x.favorite \in BOOLEAN, pictures \subseteq pictures',
         IsPicture(x.content[1]) => x.content[1] \in pictures',
         ~capture.secrets => x.content[1] \notin Secrets
  PROVE  /\ \A y \in history' : y.content[1] \in OldContent \cup Copied /\ y.favorite \in BOOLEAN
         /\ ImportSound' /\ Known(x.content)' /\ \A r : Accounted(r) => Accounted(r)'
  <1>1. \A y \in history' : y.content[1] \in OldContent \cup Copied /\ y.favorite \in BOOLEAN
    BY DEF ImportInv, ImportShape
  <1>2. OnePerContent'
    BY DEF ImportInv, ImportSound, OnePerContent, Known
  <1>3. PicturesThere' /\ NoSecrets'
    BY DEF ImportInv, ImportSound, PicturesThere, NoSecrets, IsPicture
  <1>4. Known(x.content)' /\ \A r : Accounted(r) => Accounted(r)'
    BY DEF Accounted, Known, OldKey, KeyOf, FormatOf
  <1>5. ImportedAll'
    BY <1>4 DEF ImportInv, ImportSound, ImportedAll, Accounted
  <1> QED  BY <1>1, <1>2, <1>3, <1>4, <1>5 DEF ImportSound

LEMMA StoreFoundStays ==
  ASSUME ImportInv, StoreFound
  PROVE  ImportInv'
  <1>0. PICK r : r = importing.row
    OBVIOUS
  <1>9. PICK x : x = [id |-> FreshId, content |-> OldKey(r), favorite |-> OldItem[r].favorite]
    OBVIOUS
  <1>1. /\ importing.at = "storing" /\ r \in importing.left /\ r \in OldRow /\ Importable(r)
        /\ importing.found = Known(OldKey(r))
        /\ IsPicture(OldItem[r].content) => OldItem[r].content \in pictures
    BY <1>0 DEF StoreFound, ImportInv, ImportRowRight, ImportShape, ImportCell
  <1>2. UNCHANGED <<capture, pictures, filesLock, outcome, erased>>
        /\ history' = IF importing.found THEN history ELSE history \cup {x}
    BY <1>0, <1>9 DEF StoreFound
  <1>3. importing' = [importing EXCEPT !.at = "rows", !.left = importing.left \ {r},
                        !.imported = IF importing.found THEN importing.imported ELSE importing.imported \cup {r},
                        !.skipped = IF importing.found THEN importing.skipped \cup {r} ELSE importing.skipped]
    BY <1>0 DEF StoreFound, ImportInv, ImportShape, ImportCell
  <1>4. /\ importing' \in ImportCell /\ importing'.at = "rows" /\ importing'.folder = importing.folder
        /\ importing'.left = importing.left \ {r}
        /\ importing'.imported = IF importing.found THEN importing.imported ELSE importing.imported \cup {r}
        /\ importing'.skipped = IF importing.found THEN importing.skipped \cup {r} ELSE importing.skipped
    BY <1>1, <1>3 DEF ImportInv, ImportShape, ImportCell
  <1>5. /\ \A y \in history' : y.content[1] \in OldContent \cup Copied /\ y.favorite \in BOOLEAN
        /\ ImportSound' /\ Known(OldKey(r))' /\ \A q : Accounted(q) => Accounted(q)'
    <2>1. CASE importing.found
      <3>1. history' = history /\ Known(OldKey(r))
        BY <2>1, <1>1, <1>2
      <3>2. Known(OldKey(r))'
        BY <3>1, <1>2, <1>3 DEF Known, OldKey, KeyOf, FormatOf, ImportInv, ImportShape, ImportCell
      <3> QED  BY <3>1, <3>2, <1>2, HistoryKept DEF ImportInv, ImportShape
    <2>2. CASE ~importing.found
      <3>1. x.content = OldKey(r) /\ x.content[1] = OldItem[r].content /\ x.favorite = OldItem[r].favorite
        BY <1>9 DEF OldKey, KeyOf
      <3>2. OldItem[r].content \in OldContent /\ OldItem[r].favorite \in BOOLEAN
        BY <1>1, LegacyImportAssumption DEF OldContent
      <3>3. ~capture.secrets => OldItem[r].content \notin Secrets
        BY <1>1, LegacyImportAssumption DEF Importable, Admits
      <3>4. ~Known(x.content) /\ history' = history \cup {x}
        BY <2>2, <3>1, <1>1, <1>2
      <3>5. /\ \A y \in history' : y.content[1] \in OldContent \cup Copied /\ y.favorite \in BOOLEAN
            /\ ImportSound' /\ Known(x.content)' /\ \A q : Accounted(q) => Accounted(q)'
        BY <3>1, <3>2, <3>3, <3>4, <1>1, <1>2, RecordJoins
      <3>6. Known(OldKey(r))'
        BY <3>1, <3>5, <1>2 DEF Known, OldKey, KeyOf, FormatOf
      <3> QED  BY <3>5, <3>6
    <2> QED  BY <2>1, <2>2
  <1>6. Accounted(r)'
    BY <1>5 DEF Accounted
  <1>7. ImportShape' /\ LockHeld' /\ ImportRowRight'
    BY <1>1, <1>2, <1>4, <1>5 DEF ImportInv, ImportShape, LockHeld, ImportRowRight
  <1>8. RowsDone'
    BY <1>1, <1>2, <1>4, <1>5, <1>6, Recognized DEF ImportInv, RowsDone
  <1> QED  BY <1>5, <1>7, <1>8 DEF ImportInv

\* What another writer commits overtakes an import that has read.
LEMMA OvertakenStays ==
  ASSUME ImportInv, Overtaken, UNCHANGED <<capture, filesLock, outcome>>, \A r : Accounted(r) => Accounted(r)',
         pictures \subseteq pictures' \/ importing.at = "idle", pictures' \in SUBSET OldContent,
         \A y \in history' : y.content[1] \in OldContent \cup Copied /\ y.favorite \in BOOLEAN,
         ImportSound'
  PROVE  ImportInv'
  <1>1. importing \in ImportCell
    BY DEF ImportInv, ImportShape
  <1>2. PICK late \in BOOLEAN : /\ importing' = [importing EXCEPT !.stale = late]
                                /\ importing.at = "storing" => late
    <2>1. (importing.stale \/ importing.at = "storing") \in BOOLEAN
      BY <1>1 DEF ImportCell
    <2> QED  BY <2>1, <1>1 DEF Overtaken, ImportCell
  <1>3. importing' \in ImportCell /\ (importing.at = "storing" => importing'.stale)
        /\ UNCHANGED <<importing.at, importing.folder, importing.left, importing.imported, importing.skipped, importing.row>>
    BY <1>1, <1>2 DEF ImportCell
  <1>4. ImportShape' /\ LockHeld'
    BY <1>3 DEF ImportInv, ImportShape, LockHeld
  <1>5. ImportRowRight'
    BY <1>3, Recognized DEF ImportInv, ImportRowRight
  <1>6. RowsDone'
    BY <1>3, Recognized DEF ImportInv, RowsDone
  <1> QED  BY <1>4, <1>5, <1>6 DEF ImportInv

LEMMA ImportCopyStays ==
  ASSUME ImportInv, (\E c \in Copied : CopyText(c)) \/ (\E r \in OldRow : CopyPicture(OldItem[r].content))
  PROVE  ImportInv'
  <1>1. PICK c, kind, formats :
           /\ history' = Stored(KeyOf(kind, c, formats), FALSE) /\ Overtaken
           /\ UNCHANGED <<capture, filesLock, outcome, erased>>
           /\ \/ c \in Copied /\ kind = "text" /\ Admits(kind, c, formats) /\ pictures' = pictures
              \/ c \in OldContent /\ IsPicture(c) /\ pictures' = pictures \cup {c}
    BY DEF CopyText, CopyPicture, OldContent
  <1> DEFINE x == [id |-> FreshId, content |-> KeyOf(kind, c, formats), favorite |-> FALSE]
  <1>2. c \in OldContent \cup Copied /\ pictures \subseteq pictures' /\ pictures' \in SUBSET OldContent
    BY <1>1 DEF ImportInv, ImportShape
  <1>3. IsPicture(c) => c \in pictures'
    BY <1>1, LegacyImportAssumption DEF IsPicture
  <1>4. ~capture.secrets => c \notin Secrets
    BY <1>1, LegacyImportAssumption DEF IsPicture, Admits
  <1>5. /\ \A y \in history' : y.content[1] \in OldContent \cup Copied /\ y.favorite \in BOOLEAN
        /\ ImportSound' /\ \A q : Accounted(q) => Accounted(q)'
    <2>1. CASE Known(KeyOf(kind, c, formats))
      <3>1. history' = history
        BY <2>1, <1>1 DEF Stored
      <3> QED  BY <3>1, <1>1, <1>2, HistoryKept DEF ImportInv, ImportShape
    <2>2. CASE ~Known(KeyOf(kind, c, formats))
      <3>1. history' = history \cup {x}
        BY <2>2, <1>1 DEF Stored
      <3>2. x.content = KeyOf(kind, c, formats) /\ x.content[1] = c /\ x.favorite = FALSE
        BY DEF KeyOf
      <3> HIDE DEF x
      <3> QED  BY <3>1, <3>2, <2>2, <1>1, <1>2, <1>3, <1>4, RecordJoins
    <2> QED  BY <2>1, <2>2
  <1> QED  BY <1>1, <1>2, <1>5, OvertakenStays

LEMMA ImportDeleteStays ==
  ASSUME ImportInv, NEW x \in history, DeleteRecord(x)
  PROVE  ImportInv'
  <1> DEFINE others == {y.content[1] : y \in history \ {x}}
  <1>1. /\ filesLock = "nobody" /\ history' = history \ {x} /\ erased' = erased \cup {x.content}
        /\ pictures' = pictures \ ({x.content[1]} \ others)
        /\ Overtaken /\ UNCHANGED <<capture, filesLock, outcome>>
    BY DEF DeleteRecord
  <1>2. importing.at = "idle" /\ pictures' \in SUBSET OldContent
    BY <1>1 DEF ImportInv, LockHeld, ImportShape
  <1>3. \A r : Accounted(r) => Accounted(r)'
    BY <1>1 DEF Accounted, Known, OldKey, KeyOf, FormatOf
  <1>4. OnePerContent' /\ NoSecrets'
    BY <1>1 DEF ImportInv, ImportSound, OnePerContent, NoSecrets
  <1>5. PicturesThere'
    BY <1>1 DEF ImportInv, ImportSound, PicturesThere, IsPicture
  <1>6. ImportedAll'
    BY <1>1, <1>3 DEF ImportInv, ImportSound, ImportedAll, Accounted
  <1>7. \A y \in history' : y.content[1] \in OldContent \cup Copied /\ y.favorite \in BOOLEAN
    BY <1>1 DEF ImportInv, ImportShape
  <1> QED  BY <1>1, <1>2, <1>3, <1>4, <1>5, <1>6, <1>7, OvertakenStays DEF ImportSound

LEMMA CleanStays ==
  ASSUME ImportInv, CleanPictures
  PROVE  ImportInv'
  <1>1. /\ filesLock = "nobody" /\ pictures' = pictures \cap {x.content[1] : x \in history}
        /\ UNCHANGED <<capture, history, filesLock, importing, outcome, erased>>
    BY DEF CleanPictures
  <1>2. importing.at = "idle"
    BY <1>1 DEF ImportInv, LockHeld
  <1>3. ImportShape' /\ LockHeld' /\ ImportRowRight' /\ RowsDone'
    BY <1>1, <1>2 DEF ImportInv, ImportShape, LockHeld, ImportRowRight, RowsDone
  <1>4. PicturesThere'
    BY <1>1 DEF ImportInv, ImportSound, PicturesThere, IsPicture
  <1>5. OnePerContent' /\ NoSecrets'
    BY <1>1 DEF ImportInv, ImportSound, OnePerContent, NoSecrets
  <1>6. ImportedAll'
    BY <1>1 DEF ImportInv, ImportSound, ImportedAll, Known, OldKey, KeyOf, FormatOf
  <1> QED  BY <1>3, <1>4, <1>5, <1>6 DEF ImportInv, ImportSound

LEMMA ImportsStay == ImportInv /\ [LegacyImportNext]_importVars => ImportInv'
  <1> SUFFICES ASSUME ImportInv, [LegacyImportNext]_importVars PROVE ImportInv'
    OBVIOUS
  <1>1. CASE UNCHANGED importVars
    <2>1. UNCHANGED <<capture, history, outcome, erased>> /\ pictures \subseteq pictures'
          /\ UNCHANGED <<pictures, filesLock, importing>>
      BY <1>1 DEF importVars
    <2>2. ImportShape' /\ LockHeld'
      BY <2>1 DEF ImportInv, ImportShape, LockHeld
    <2>3. ImportRowRight'
      BY <2>1 DEF ImportInv, ImportRowRight, Importable, Admits, FormatOf, Known, OldKey, KeyOf
    <2>4. RowsDone'
      BY <2>1, HistoryKept, Recognized DEF ImportInv, RowsDone
    <2> QED  BY <2>1, <2>2, <2>3, <2>4, HistoryKept DEF ImportInv
  <1>2. CASE LegacyImportNext
    BY <1>2, BeginImportStays, PassOverStays, MakeRecordStays, FindEqualStays, StoreFoundStays, EndStays,
       ImportCopyStays, ImportDeleteStays, CleanStays DEF LegacyImportNext
  <1> QED  BY <1>1, <1>2

LEMMA ImportsServe == ImportInv => ImportSound /\ LegacyImportTypeOK
  BY DEF ImportInv, ImportShape, LegacyImportTypeOK, ImportCell, OutcomeCell


-----------------------------------------------------------------------------
(* Backups: no record names an attachment by its path of the day, each is what it was when it was   *)
(* made, and records are told apart by their identities and by their contents.  A merge goes        *)
(* through the rows of the backup; what holds after each row holds at its end.                      *)

\* A property of the numbers up to one that holds of 0 and, if of a number, of the next.
LEMMA StepByStep ==
  ASSUME NEW n \in Nat, NEW S \in SUBSET (0..n), 0 \in S, \A k \in 1..n : k - 1 \in S => k \in S
  PROVE  S = 0..n
  <1> SUFFICES ASSUME S # 0..n PROVE FALSE
    OBVIOUS
  <1> DEFINE T == (0..n) \ S
  <1>1. IsFiniteSet(0..n)
    BY FS_Interval
  <1>2. T \subseteq Nat /\ T # {} /\ T \subseteq 0..n
    <2>1. T \subseteq 0..n /\ 0..n \subseteq Nat
      OBVIOUS
    <2>2. T # {}
      OBVIOUS
    <2> QED  BY <2>1, <2>2
  <1>a. IsFiniteSet(T)
    <2> HIDE DEF T
    <2> QED  BY <1>1, <1>2, FS_Subset
  <1>3. Min(T) \in T /\ \A x \in T : Min(T) =< x
    <2> HIDE DEF T
    <2> QED  BY <1>2, <1>a, Smallest
  <1>4. Min(T) \in 1..n /\ Min(T) - 1 \in 0..n /\ ~(Min(T) =< Min(T) - 1)
    BY <1>3
  <1>5. Min(T) - 1 \in S
    BY <1>3, <1>4
  <1> QED  BY <1>3, <1>4, <1>5

Content == Note \cup Attachment
AttachedSets == SUBSET (Attachment \X Reference)
Stores == [at : {"idle", "packing", "packed", "written"}, encrypted : BOOLEAN, rows : Seq(Row), files : AttachedSets]
Archives == [there : BOOLEAN, whole : BOOLEAN, brought : BOOLEAN, encrypted : BOOLEAN,
             root : Root \cup {"unknown"}, rows : Seq(Row), files : AttachedSets]
Merges == [at : {"idle", "prepared", "copied", "merged"}, rows : Seq(Row), files : AttachedSets, root : Root \cup {"unknown"}]

\* Paths of the day.
Dated == Root \X Name

LEMMA PathKinds ==
  /\ Shared \in Reference /\ Outside \notin Reference \cup Dated /\ Reference \cap Dated = {}
  /\ Path = Reference \cup Dated \cup {Outside} /\ Shared[2] = "file" /\ Outside[2] = "file"
  /\ \A path \in Dated : path[1] \in Root /\ path[2] \in Name /\ <<"resource", path[2]>> \in Reference
  /\ \A path \in Reference \cup {Outside} : path[1] \notin Root
  /\ \A path \in Reference : path = <<"resource", path[2]>> /\ (path[2] \in Received \/ path = Shared)
  /\ "file" \notin Received /\ \A e \in Received : <<"resource", e>> \in Reference
  BY BackupAssumption DEF Shared, Outside, Reference, Dated, Path, Name

\* A history: no paths of the day, everything once, and what it refers to is there.
HistoryRight(s, there) ==
    /\ s \in Seq(Row)
    /\ \A i \in 1..Len(s) : RowFits(s[i]) /\ s[i].path \notin Dated
    /\ \A i, j \in 1..Len(s) : i < j =>
         HashOf(s[i]) # HashOf(s[j]) /\ (s[i].key = s[j].key => CopiedAnyway(s[i], s[j]))
    /\ Referred(s) \subseteq there

\* A backup: what its rows refer to is in it, under its root if they name it by a path.
BackupRight(s, files, root) ==
    \A i \in 1..Len(s) :
        /\ RowFits(s[i])
        /\ s[i].content \in Attachment /\ s[i].path # Outside => Settled(s[i]) \in files
        /\ s[i].path[1] \in Root => root \in {"unknown", s[i].path[1]}

\* A row is in a history, by its identity or as what it became there.
Present(s, r) == HasKey(s, r.key) \/ HasHash(s, Settled(r))
NotLost(r) == Present(rows, r) \/ {r.key, Settled(r)} \cap taken # {}

BackupShape ==
    /\ attached \in AttachedSets /\ resLock \in {"nobody", "export", "import"}
    /\ archive \in Archives /\ packing \in Stores /\ incoming \in Merges
    /\ merged \in [ok : BOOLEAN, rows : Seq(Row)]

LocksRight ==
    /\ packing.at # "idle" <=> resLock = "export"
    /\ incoming.at \in {"copied", "merged"} <=> resLock = "import"

CarriedRight ==
    /\ archive.there => BackupRight(archive.rows, archive.files, archive.root)
    /\ incoming.at # "idle" => BackupRight(incoming.rows, incoming.files, incoming.root)
    /\ packing.at \in {"packed", "written"} => BackupRight(packing.rows, packing.files, "here")
    /\ incoming.at \in {"copied", "merged"} => incoming.files \subseteq attached
    /\ incoming.at = "merged" => \A r \in RowsOf(incoming.rows) : NotLost(r)

BackupInv ==
    /\ BackupShape /\ LocksRight /\ HistoryRight(rows, attached) /\ CarriedRight
    /\ MergedAll /\ BackupUsable

LEMMA Blanks ==
  /\ NoArchive \in Archives /\ NoPacking \in Stores /\ NoMerging \in Merges /\ NoMerge \in [ok : BOOLEAN, rows : Seq(Row)]
  /\ NoPacking.at = "idle" /\ NoMerging.at = "idle" /\ ~NoMerge.ok /\ NoArchive.whole /\ ~NoArchive.there
  BY DEF NoArchive, NoPacking, NoMerging, NoMerge, Archives, Stores, Merges, AttachedSets

LEMMA BackupsStart == BackupsInit => BackupInv
  <1> SUFFICES ASSUME BackupsInit PROVE BackupInv
    OBVIOUS
  <1>1. BackupShape /\ LocksRight /\ CarriedRight /\ MergedAll /\ BackupUsable
    BY Blanks DEF BackupsInit, BackupShape, LocksRight, CarriedRight, MergedAll, BackupUsable, AttachedSets
  <1>2. HistoryRight(rows, attached)
    BY DEF BackupsInit, HistoryRight, Referred, RowsOf
  <1> QED  BY <1>1, <1>2 DEF BackupInv

\* A record joins a history that does not have its content, nor its identity unless it is a copy.
LEMMA RowJoins ==
  ASSUME NEW s, NEW there, HistoryRight(s, there), NEW r \in Row, RowFits(r), r.path \notin Dated,
         \A q \in RowsOf(s) : q.key = r.key => CopiedAnyway(q, r), ~HasHash(s, HashOf(r)),
         NEW more, there \subseteq more, r.path \in Reference /\ r.content \in Attachment => HashOf(r) \in more
  PROVE  /\ HistoryRight(Append(s, r), more) /\ RowsOf(Append(s, r)) = RowsOf(s) \cup {r}
         /\ \A q : Present(s, q) => Present(Append(s, r), q)
  <1>1. s \in Seq(Row) /\ Append(s, r) \in Seq(Row) /\ Len(s) \in Nat /\ Len(Append(s, r)) = Len(s) + 1
        /\ Append(s, r)[Len(s) + 1] = r /\ \A i \in 1..Len(s) : Append(s, r)[i] = s[i]
    BY DEF HistoryRight
  <1>2. \A i \in 1..Len(s) + 1 : i \in 1..Len(s) \/ i = Len(s) + 1
    BY <1>1
  <1> DEFINE t == Append(s, r)
  <1>3. Len(t) = Len(s) + 1 /\ t[Len(s) + 1] = r /\ (\A i \in 1..Len(s) : t[i] = s[i]) /\ t \in Seq(Row)
    BY <1>1
  <1> HIDE DEF t
  <1>4. RowsOf(t) = RowsOf(s) \cup {r}
    <2>1. Len(s) + 1 \in 1..Len(t) /\ \A i \in 1..Len(s) : i \in 1..Len(t)
      BY <1>1, <1>3
    <2> QED  BY <1>2, <1>3, <2>1 DEF RowsOf
  <1>5. \A i \in 1..Len(t) : RowFits(t[i]) /\ t[i].path \notin Dated
    BY <1>2, <1>3 DEF HistoryRight
  <1>6. \A i \in 1..Len(s) : HashOf(s[i]) # HashOf(r) /\ (s[i].key = r.key => CopiedAnyway(s[i], r))
    BY DEF HasHash, RowsOf
  <1>7. ASSUME NEW i \in 1..Len(t), NEW j \in 1..Len(t), i < j
        PROVE  HashOf(t[i]) # HashOf(t[j]) /\ (t[i].key = t[j].key => CopiedAnyway(t[i], t[j]))
    <2>1. i \in 1..Len(s) /\ (j \in 1..Len(s) \/ j = Len(s) + 1)
      BY <1>1, <1>3, <1>7
    <2> QED  BY <2>1, <1>3, <1>6, <1>7 DEF HistoryRight
  <1>8. Referred(t) \subseteq more
    BY <1>4 DEF HistoryRight, Referred
  <1>9. \A q : Present(s, q) => Present(t, q)
    BY <1>4 DEF Present, HasKey, HasHash
  <1> QED  BY <1>3, <1>4, <1>5, <1>7, <1>8, <1>9 DEF HistoryRight, t

\* A record that was made by a copy on this computer: what has its identity is it, or was received.
LEMMA CopyJoins ==
  ASSUME BackupInv, NEW c \in Content, NEW path \in {Shared, Outside}, c \in Note => path = Shared,
         NEW more, attached \subseteq more, c \in Attachment /\ path = Shared => <<c, path>> \in more
  PROVE  HistoryRight(WithCopy(c, path), more) /\ \A q : Present(rows, q) => Present(WithCopy(c, path), q)
  <1>1. HistoryRight(rows, attached)
    BY DEF BackupInv
  <1> DEFINE r == RowOf(c, <<c, path>>, path)
  <1>2. CASE HasHash(rows, <<c, path>>)
    BY <1>1, <1>2 DEF WithCopy, HistoryRight
  <1>3. CASE ~HasHash(rows, <<c, path>>)
    <2>1. HashOf(r) = <<c, path>> /\ r.key = <<c, path>> /\ r.content = c /\ r.path = path
      BY DEF RowOf, HashOf
    <2>2. path \in Path /\ path \notin Dated /\ path[2] \notin Received /\ path \in CopiedAs(path)
          /\ (path \in Reference => path = Shared)
      BY PathKinds DEF CopiedAs
    <2>3. r \in Row /\ RowFits(r) /\ r.path \notin Dated
      <3>1. r \in Row
        BY <2>2 DEF Row, RowOf, Content
      <3>2. r.key[1] = c /\ r.key[2] = path
        BY <2>1
      <3> QED  BY <2>1, <2>2, <3>1, <3>2 DEF RowFits
    <2>4. ASSUME NEW q \in RowsOf(rows), q.key = r.key PROVE CopiedAnyway(q, r)
      <3>1. q \in Row /\ RowFits(q) /\ q.path \notin Dated
        BY <1>1 DEF HistoryRight, RowsOf
      <3>2. q.content = c /\ q.key[2] = path
        BY <2>1, <2>4, <3>1 DEF RowFits
      <3>3. q.path # path
        BY <1>3, <2>4, <3>2 DEF HasHash, HashOf
      <3>4. q.path \in Reference \cup {Outside}
        BY <3>1, PathKinds DEF Row
      <3>5. q.path[2] \in Received
        <4> SUFFICES ASSUME q.path[2] \notin Received PROVE FALSE
          OBVIOUS
        <4>1. q.path \in {Shared, Outside} /\ path \in CopiedAs(q.path)
          BY <3>1, <3>2, <3>4, PathKinds DEF RowFits
        <4>2. Outside \notin Root \X {"file"} /\ Shared \notin Root \X {"file"} /\ Shared # Outside
          BY BackupAssumption DEF Outside, Shared
        <4> QED  BY <4>1, <4>2, <3>3 DEF CopiedAs
      <3> QED  BY <2>1, <2>2, <3>5 DEF CopiedAnyway
    <2>5. WithCopy(c, path) = Append(rows, r)
      BY <1>3 DEF WithCopy
    <2> HIDE DEF r
    <2> QED  BY <1>1, <1>3, <2>1, <2>2, <2>3, <2>4, <2>5, RowJoins
  <1> QED  BY <1>2, <1>3

\* A history that only grows, and attachments that only grow: what is carried stays as it was.
LEMMA GrowingStays ==
  ASSUME BackupInv, UNCHANGED <<resLock, archive, packing, incoming, merged, taken>>,
         HistoryRight(rows', attached'), attached \subseteq attached', attached' \in AttachedSets,
         \A q : Present(rows, q) => Present(rows', q)
  PROVE  BackupInv'
  <1>1. \A r : NotLost(r) => NotLost(r)'
    BY DEF NotLost
  <1>2. BackupShape' /\ LocksRight' /\ BackupUsable'
    BY DEF BackupInv, BackupShape, LocksRight, BackupUsable
  <1>3. CarriedRight'
    BY <1>1 DEF BackupInv, CarriedRight
  <1>4. MergedAll'
    BY <1>1 DEF BackupInv, MergedAll, NotLost, Present
  <1> QED  BY <1>2, <1>3, <1>4 DEF BackupInv

LEMMA BackupCopyStays ==
  ASSUME BackupInv, (\E c \in Note : CopyNote(c)) \/ (\E c \in Attachment : CopyAttachment(c) \/ CopyOutside(c))
  PROVE  BackupInv'
  <1>1. attached \in AttachedSets
    BY DEF BackupInv, BackupShape
  <1>2. CASE \E c \in Note : CopyNote(c)
    <2>1. PICK c \in Note : CopyNote(c)
      BY <1>2
    <2>2. c \in Content /\ c \notin Attachment
      BY BackupAssumption DEF Content
    <2> QED  BY <1>1, <2>1, <2>2, CopyJoins, GrowingStays DEF CopyNote
  <1>3. CASE \E c \in Attachment : CopyAttachment(c)
    <2>1. PICK c \in Attachment : CopyAttachment(c)
      BY <1>3
    <2>2. attached' = attached \cup {<<c, Shared>>} /\ c \in Content /\ c \notin Note
      BY <2>1, BackupAssumption DEF CopyAttachment, Content
    <2>3. attached' \in AttachedSets /\ attached \subseteq attached' /\ <<c, Shared>> \in attached'
      BY <1>1, <2>2, PathKinds DEF AttachedSets
    <2> QED  BY <2>1, <2>2, <2>3, CopyJoins, GrowingStays DEF CopyAttachment
  <1>4. CASE \E c \in Attachment : CopyOutside(c)
    <2>1. PICK c \in Attachment : CopyOutside(c)
      BY <1>4
    <2>2. c \in Content /\ c \notin Note /\ Outside # Shared
      BY BackupAssumption DEF Content, Outside, Shared
    <2> QED  BY <1>1, <2>1, <2>2, CopyJoins, GrowingStays DEF CopyOutside
  <1> QED  BY <1>2, <1>3, <1>4

LEMMA ReceiveStays ==
  ASSUME BackupInv, NEW e \in Received, ReceiveFile(e)
  PROVE  BackupInv'
  <1> DEFINE c == SentKey[e][1]
             brought == <<"resource", e>>
             r == RowOf(c, SentKey[e], brought)
  <1>1. HistoryRight(rows, attached) /\ attached \in AttachedSets
    BY DEF BackupInv, BackupShape
  <1>2. /\ rows' = (IF HasKey(rows, SentKey[e]) THEN rows ELSE Append(rows, r))
        /\ attached' = attached \cup {<<c, brought>>}
        /\ UNCHANGED <<resLock, archive, packing, incoming, merged, taken>>
    BY DEF ReceiveFile
  <1>3. c \in Attachment /\ SentKey[e] \in Attachment \X Path /\ brought \in Reference /\ brought[2] = e
    BY BackupAssumption, PathKinds
  <1>4. attached' \in AttachedSets /\ attached \subseteq attached' /\ <<c, brought>> \in attached'
    BY <1>1, <1>2, <1>3 DEF AttachedSets
  <1>5. HashOf(r) = <<c, brought>> /\ r.key = SentKey[e] /\ r.content = c /\ r.path = brought
    BY DEF RowOf, HashOf
  <1>6. r \in Row /\ RowFits(r) /\ r.path \notin Dated
    <2>1. r \in Row
      BY <1>3, PathKinds DEF Row, RowOf
    <2>2. brought \notin Dated
      BY <1>3, PathKinds
    <2> HIDE DEF r, brought
    <2> QED  BY <1>3, <1>5, <2>1, <2>2, BackupAssumption DEF RowFits
  <1> HIDE DEF r, c, brought
  <1>7. HistoryRight(rows', attached') /\ \A q : Present(rows, q) => Present(rows', q)
    <2>1. CASE HasKey(rows, SentKey[e])
      BY <2>1, <1>1, <1>2 DEF HistoryRight
    <2>2. CASE ~HasKey(rows, SentKey[e])
      <3>1. ASSUME HasHash(rows, <<c, brought>>) PROVE FALSE
        <4>1. PICK q \in RowsOf(rows) : q.path = brought
          BY <3>1 DEF HasHash, HashOf
        <4>2. RowFits(q)
          BY <1>1 DEF HistoryRight, RowsOf
        <4>3. q.key = SentKey[e]
          BY <1>3, <4>1, <4>2 DEF RowFits
        <4> QED  BY <4>3, <2>2 DEF HasKey
      <3>2. \A q \in RowsOf(rows) : q.key # r.key
        BY <1>5, <2>2 DEF HasKey
      <3> QED  BY <1>1, <1>2, <1>4, <1>5, <1>6, <2>2, <3>1, <3>2, RowJoins
    <2> QED  BY <2>1, <2>2
  <1> QED  BY <1>2, <1>4, <1>7, GrowingStays

\* Without a row, the others stay in their order.
LEMMA RowGoes ==
  ASSUME NEW Element, NEW s \in Seq(Element), NEW i \in 1..Len(s)
  PROVE  LET t == RemoveAt(s, i)
         IN  /\ t \in Seq(Element) /\ Len(t) = Len(s) - 1
             /\ \A k \in 1..Len(t) : t[k] = IF k < i THEN s[k] ELSE s[k + 1]
  <1>1. Len(s) \in Nat /\ i \in Nat /\ 1 =< i /\ i =< Len(s)
    OBVIOUS
  <1> DEFINE a == SubSeq(s, 1, i - 1)
             b == SubSeq(s, i + 1, Len(s))
  <1>2. a \in Seq(Element) /\ Len(a) = i - 1 /\ \A k \in 1..i - 1 : a[k] = s[k]
    BY <1>1
  <1>3. b \in Seq(Element) /\ Len(b) = Len(s) - i /\ \A k \in 1..Len(s) - i : b[k] = s[i + k]
    <2>1. i + 1 \in 1..Len(s) + 1 /\ Len(s) - (i + 1) + 1 = Len(s) - i
      BY <1>1
    <2>2. b \in Seq(Element) /\ Len(b) = Len(s) - i
      <3>1. \A k \in i + 1..Len(s) : s[k] \in Element
        BY <1>1
      <3>2. i + 1 \in Int /\ Len(s) \in Int
        BY <1>1
      <3>3. b \in Seq(Element) /\ Len(b) = IF i + 1 =< Len(s) THEN Len(s) - (i + 1) + 1 ELSE 0
        <4> DEFINE from == i + 1
                   to == Len(s)
        <4> HIDE DEF from, to
        <4>1. from \in Int /\ to \in Int /\ \A k \in from..to : s[k] \in Element
          BY <3>1, <3>2 DEF from, to
        <4>2. SubSeq(s, from, to) \in Seq(Element) /\ Len(SubSeq(s, from, to)) = IF from =< to THEN to - from + 1 ELSE 0
          BY <4>1, SubSeqProperties
        <4> QED  BY <4>2 DEF from, to
      <3> HIDE DEF b
      <3>4. Len(b) = Len(s) - i
        BY <3>3, <1>1
      <3> QED  BY <3>3, <3>4
    <2>3. ASSUME NEW k \in 1..Len(s) - i PROVE b[k] = s[i + k]
      <3>1. b[k] = s[i + 1 + k - 1] /\ i + 1 + k - 1 = i + k
        BY <1>1
      <3> QED  BY <3>1
    <2> QED  BY <2>2, <2>3
  <1> HIDE DEF a, b
  <1>4. a \o b \in Seq(Element) /\ Len(a \o b) = Len(s) - 1
    <2>1. a \o b \in Seq(Element) /\ Len(a \o b) = Len(a) + Len(b)
      <3>1. a \in Seq(Element) /\ b \in Seq(Element)
        BY <1>2, <1>3
      <3> QED  BY <3>1, ConcatProperties
    <2> QED  BY <2>1, <1>1, <1>2, <1>3
  <1>5. ASSUME NEW k \in 1..Len(s) - 1 PROVE (a \o b)[k] = IF k < i THEN s[k] ELSE s[k + 1]
    <2>1. CASE k < i
      <3>1. k \in 1..Len(a) /\ k \in 1..i - 1
        BY <2>1, <1>1, <1>2
      <3>2. (a \o b)[k] = a[k]
        BY <3>1, <1>2, <1>3
      <3> QED  BY <3>1, <3>2, <1>2, <2>1
    <2>2. CASE ~(k < i)
      <3>1. k - (i - 1) \in 1..Len(s) - i /\ k > Len(a) /\ k =< Len(a) + Len(b) /\ i + (k - (i - 1)) = k + 1
        BY <2>2, <1>1, <1>2, <1>3
      <3>2. (a \o b)[k] = b[k - Len(a)]
        BY <3>1, <1>2, <1>3
      <3> QED  BY <3>1, <3>2, <1>2, <1>3, <2>2
    <2> QED  BY <2>1, <2>2
  <1> QED  BY <1>4, <1>5 DEF RemoveAt, a, b

LEMMA RemoveStays ==
  ASSUME BackupInv, NEW i \in 1..Len(rows), RemoveRow(i)
  PROVE  BackupInv'
  <1>1. HistoryRight(rows, attached) /\ attached \in AttachedSets /\ rows \in Seq(Row) /\ Len(rows) \in Nat
    BY DEF BackupInv, BackupShape, HistoryRight
  <1>2. /\ resLock = "nobody" /\ rows' = RemoveAt(rows, i) /\ attached' = attached \cap Referred(rows')
        /\ taken' = taken \cup {rows[i].key, HashOf(rows[i])}
        /\ UNCHANGED <<resLock, archive, packing, incoming, merged>>
    BY DEF RemoveRow
  <1>3. /\ rows' \in Seq(Row) /\ Len(rows') = Len(rows) - 1
        /\ \A k \in 1..Len(rows') : rows'[k] = IF k < i THEN rows[k] ELSE rows[k + 1]
    BY <1>1, <1>2, RowGoes
  <1>4. \A k \in 1..Len(rows') : k \in 1..Len(rows) /\ k + 1 \in 1..Len(rows)
    BY <1>1, <1>3
  <1>5. RowsOf(rows') \subseteq RowsOf(rows)
    BY <1>3, <1>4 DEF RowsOf
  <1>6. ASSUME NEW q \in RowsOf(rows), q # rows[i] PROVE q \in RowsOf(rows')
    <2>1. PICK k \in 1..Len(rows) : q = rows[k]
      BY DEF RowsOf
    <2>2. CASE k < i
      <3>1. k \in 1..Len(rows')
        BY <2>2, <1>1, <1>3
      <3> QED  BY <3>1, <2>1, <2>2, <1>3 DEF RowsOf
    <2>3. CASE k > i
      <3>1. k - 1 \in 1..Len(rows') /\ ~(k - 1 < i) /\ (k - 1) + 1 = k
        BY <2>3, <1>1, <1>3
      <3>2. rows'[k - 1] = rows[k]
        BY <3>1, <1>3
      <3> QED  BY <3>1, <3>2, <2>1 DEF RowsOf
    <2> QED  BY <2>1, <2>2, <2>3, <1>6
  <1>7. HistoryRight(rows', attached')
    <2>1. \A k \in 1..Len(rows') : RowFits(rows'[k]) /\ rows'[k].path \notin Dated
      BY <1>1, <1>3, <1>4 DEF HistoryRight
    <2>2. ASSUME NEW k \in 1..Len(rows'), NEW l \in 1..Len(rows'), k < l
          PROVE  /\ HashOf(rows'[k]) # HashOf(rows'[l])
                 /\ rows'[k].key = rows'[l].key => CopiedAnyway(rows'[k], rows'[l])
      <3>1. PICK m, n \in 1..Len(rows) : m < n /\ rows'[k] = rows[m] /\ rows'[l] = rows[n]
        <4>1. PICK m \in 1..Len(rows) : rows'[k] = rows[m] /\ m = IF k < i THEN k ELSE k + 1
          BY <1>3, <1>4
        <4>2. PICK n \in 1..Len(rows) : rows'[l] = rows[n] /\ n = IF l < i THEN l ELSE l + 1
          BY <1>3, <1>4
        <4>3. m < n
          BY <4>1, <4>2, <2>2, <1>1
        <4> QED  BY <4>1, <4>2, <4>3
      <3> QED  BY <3>1, <1>1 DEF HistoryRight
    <2>3. Referred(rows') \subseteq Referred(rows)
      BY <1>5 DEF Referred
    <2>4. Referred(rows') \subseteq attached'
      BY <2>3, <1>1, <1>2 DEF HistoryRight
    <2> QED  BY <1>3, <2>1, <2>2, <2>4 DEF HistoryRight
  <1>8. \A q : NotLost(q) => NotLost(q)'
    <2> SUFFICES ASSUME NEW q, NotLost(q) PROVE NotLost(q)'
      OBVIOUS
    <2>1. \A k : HasKey(rows, k) => HasKey(rows', k) \/ k \in taken'
      BY <1>2, <1>6 DEF HasKey
    <2>2. \A h : HasHash(rows, h) => HasHash(rows', h) \/ h \in taken'
      BY <1>2, <1>6 DEF HasHash
    <2> QED  BY <1>2, <2>1, <2>2 DEF NotLost, Present
  <1>9. attached' \in AttachedSets
    BY <1>1, <1>2 DEF AttachedSets
  <1>10. BackupShape' /\ LocksRight' /\ BackupUsable'
    BY <1>2, <1>9 DEF BackupInv, BackupShape, LocksRight, BackupUsable
  <1>11. CarriedRight'
    BY <1>2, <1>8 DEF BackupInv, CarriedRight, LocksRight
  <1>12. MergedAll'
    BY <1>2, <1>8 DEF BackupInv, MergedAll, NotLost, Present
  <1> QED  BY <1>7, <1>10, <1>11, <1>12 DEF BackupInv

LEMMA ReclaimStays ==
  ASSUME BackupInv, Reclaim
  PROVE  BackupInv'
  <1>1. attached' = attached \cap Referred(rows) /\ resLock = "nobody"
        /\ UNCHANGED <<rows, resLock, archive, packing, incoming, merged, taken>>
    BY DEF Reclaim
  <1>2. HistoryRight(rows', attached')
    BY <1>1 DEF BackupInv, HistoryRight
  <1>3. attached' \in AttachedSets
    BY <1>1 DEF BackupInv, BackupShape, AttachedSets
  <1>4. BackupShape' /\ LocksRight' /\ BackupUsable'
    BY <1>1, <1>3 DEF BackupInv, BackupShape, LocksRight, BackupUsable
  <1>5. CarriedRight' /\ MergedAll'
    BY <1>1 DEF BackupInv, CarriedRight, MergedAll, NotLost, LocksRight
  <1> QED  BY <1>2, <1>4, <1>5 DEF BackupInv

\* What is exported is a backup: the history of this computer and its attachments.
LEMMA Exported ==
  ASSUME BackupInv
  PROVE  BackupRight(rows, attached, "here")
  <1> SUFFICES ASSUME NEW i \in 1..Len(rows)
               PROVE  /\ RowFits(rows[i]) /\ rows[i].path[1] \notin Root
                      /\ rows[i].content \in Attachment /\ rows[i].path # Outside => Settled(rows[i]) \in attached
    BY DEF BackupRight
  <1>1. rows[i] \in Row /\ RowFits(rows[i]) /\ rows[i].path \notin Dated /\ Referred(rows) \subseteq attached
    BY DEF BackupInv, HistoryRight
  <1>2. rows[i].path \in Reference \cup {Outside}
    BY <1>1, PathKinds DEF Row
  <1>3. ASSUME rows[i].content \in Attachment, rows[i].path # Outside PROVE Settled(rows[i]) \in attached
    <2>1. Settled(rows[i]) = HashOf(rows[i])
      BY <1>2, <1>3, PathKinds DEF Settled, HashOf
    <2> QED  BY <1>1, <1>2, <1>3, <2>1 DEF Referred, RowsOf
  <1> QED  BY <1>1, <1>2, <1>3, PathKinds

\* The steps of an export, and a backup that is brought.
LEMMA ExportStays ==
  ASSUME BackupInv,
         \/ \E sealed \in BOOLEAN : BeginPacking(sealed)
         \/ PackPayload \/ WriteContainer \/ PersistContainer \/ PackingFails
         \/ \E a \in OldArchive, whole \in BOOLEAN : BringArchive(a, whole)
  PROVE  BackupInv'
  <1>1. UNCHANGED <<rows, attached, incoming, merged, taken>>
    BY DEF BeginPacking, PackPayload, WriteContainer, PersistContainer, PackingFails, BringArchive
  <1>2. BackupShape /\ LocksRight /\ CarriedRight /\ HistoryRight(rows, attached)
    BY DEF BackupInv
  <1>3. packing \in Stores /\ archive \in Archives /\ rows \in Seq(Row) /\ attached \in AttachedSets
    BY <1>2 DEF BackupShape, HistoryRight
  <1>4. /\ packing' \in Stores /\ archive' \in Archives /\ BackupUsable'
        /\ packing'.at \in {"packed", "written"} => BackupRight(packing'.rows, packing'.files, "here")
        /\ archive'.there => BackupRight(archive'.rows, archive'.files, archive'.root)
        /\ LocksRight'
    <2>1. CASE \E sealed \in BOOLEAN : BeginPacking(sealed)
      <3>1. PICK sealed \in BOOLEAN : BeginPacking(sealed)
        BY <2>1
      <3>2. packing' = [NoPacking EXCEPT !.at = "packing", !.encrypted = sealed] /\ archive' = archive
            /\ resLock = "nobody" /\ resLock' = "export"
        BY <3>1 DEF BeginPacking
      <3>3. packing' \in Stores /\ packing'.at = "packing"
        <4>1. NoPacking \in Stores
          BY Blanks
        <4>2. \A p \in Stores : [p EXCEPT !.at = "packing", !.encrypted = sealed] \in Stores
          BY DEF Stores
        <4>3. \A p \in Stores : [p EXCEPT !.at = "packing", !.encrypted = sealed].at = "packing"
          BY DEF Stores
        <4> QED  BY <3>2, <4>1, <4>2, <4>3
      <3> QED  BY <3>2, <3>3, <1>1, <1>2, <1>3 DEF BackupInv, CarriedRight, LocksRight, BackupUsable
    <2>2. CASE PackPayload
      <3>1. packing' = [packing EXCEPT !.at = "packed", !.rows = rows, !.files = attached] /\ packing.at = "packing"
            /\ UNCHANGED <<archive, resLock>>
        BY <2>2 DEF PackPayload
      <3>2. packing' \in Stores /\ packing'.at = "packed" /\ packing'.rows = rows /\ packing'.files = attached
        BY <3>1, <1>3 DEF Stores
      <3> QED  BY <3>1, <3>2, <1>1, <1>2, <1>3, Exported DEF BackupInv, CarriedRight, LocksRight, BackupUsable
    <2>3. CASE WriteContainer
      <3>1. packing' = [packing EXCEPT !.at = "written"] /\ packing.at = "packed" /\ UNCHANGED <<archive, resLock>>
        BY <2>3 DEF WriteContainer, OpenedTemporary
      <3>2. packing' \in Stores /\ packing'.at = "written" /\ packing'.rows = packing.rows /\ packing'.files = packing.files
        BY <3>1, <1>3 DEF Stores
      <3> QED  BY <3>1, <3>2, <1>1, <1>2, <1>3 DEF BackupInv, CarriedRight, LocksRight, BackupUsable
    <2>4. CASE PersistContainer
      <3>1. /\ archive' = [NoArchive EXCEPT !.there = TRUE, !.root = "here", !.encrypted = packing.encrypted,
                             !.rows = packing.rows, !.files = packing.files]
            /\ packing' = NoPacking /\ packing.at = "written" /\ resLock' = "nobody"
        BY <2>4 DEF PersistContainer
      <3>2. archive' \in Archives /\ archive'.whole /\ archive'.rows = packing.rows /\ archive'.files = packing.files
            /\ archive'.root = "here"
        BY <3>1, <1>3, BackupAssumption DEF NoArchive, Archives, Stores
      <3> QED  BY <3>1, <3>2, <1>1, <1>2, <1>3, Blanks DEF CarriedRight, LocksRight, BackupUsable
    <2>5. CASE PackingFails
      <3>1. packing' = NoPacking /\ packing.at # "idle" /\ resLock' = "nobody" /\ archive' = archive
        BY <2>5 DEF PackingFails
      <3> QED  BY <3>1, <1>1, <1>2, <1>3, Blanks DEF BackupInv, CarriedRight, LocksRight, BackupUsable
    <2>6. CASE \E a \in OldArchive, whole \in BOOLEAN : BringArchive(a, whole)
      <3>1. PICK a \in OldArchive, whole \in BOOLEAN : BringArchive(a, whole)
        BY <2>6
      <3>2. archive' = [there |-> TRUE, whole |-> whole, brought |-> TRUE,
                        encrypted |-> a.encrypted, root |-> a.root, rows |-> a.rows, files |-> a.files]
            /\ UNCHANGED <<resLock, packing>>
        BY <3>1 DEF BringArchive
      <3>3. archive' \in Archives /\ archive'.brought /\ BackupRight(archive'.rows, archive'.files, archive'.root)
        BY <3>2, BackupAssumption DEF Archives, AttachedSets, BackupRight
      <3> QED  BY <3>2, <3>3, <1>1, <1>2, <1>3 DEF CarriedRight, LocksRight, BackupUsable
    <2> QED  BY <2>1, <2>2, <2>3, <2>4, <2>5, <2>6
  <1>5. resLock' \in {"nobody", "export", "import"}
    BY <1>2 DEF BackupShape, BeginPacking, PackPayload, WriteContainer, PersistContainer, PackingFails, BringArchive
  <1>6. BackupShape' /\ CarriedRight' /\ HistoryRight(rows', attached') /\ MergedAll'
    BY <1>1, <1>2, <1>4, <1>5 DEF BackupInv, BackupShape, CarriedRight, MergedAll, NotLost
  <1> QED  BY <1>4, <1>6 DEF BackupInv

\* The steps of an import around the merge itself.
LEMMA ImportStays ==
  ASSUME BackupInv, (\E password \in BOOLEAN : PrepareImport(password)) \/ CopyMissing \/ EndImport \/ ImportBreaks
  PROVE  BackupInv'
  <1>1. UNCHANGED <<rows, archive, packing>>
    BY DEF PrepareImport, CopyMissing, EndImport, ImportBreaks
  <1>2. BackupShape /\ LocksRight /\ CarriedRight /\ HistoryRight(rows, attached) /\ MergedAll
    BY DEF BackupInv
  <1>3. archive \in Archives /\ incoming \in Merges /\ attached \in AttachedSets
    BY <1>2 DEF BackupShape
  <1>4. CASE \E password \in BOOLEAN : PrepareImport(password)
    <2>1. /\ incoming' = [at |-> "prepared", rows |-> archive.rows, files |-> archive.files, root |-> archive.root]
          /\ merged' = NoMerge /\ UNCHANGED <<attached, resLock>> /\ archive.there /\ incoming.at = "idle"
      BY <1>4 DEF PrepareImport, Opens
    <2>2. incoming' \in Merges /\ incoming'.at = "prepared" /\ incoming'.rows = archive.rows
          /\ incoming'.files = archive.files /\ incoming'.root = archive.root
      BY <2>1, <1>3 DEF Archives, Merges
    <2>3. BackupShape' /\ LocksRight' /\ CarriedRight' /\ MergedAll'
      BY <1>1, <1>2, <2>1, <2>2, Blanks DEF BackupShape, LocksRight, CarriedRight, MergedAll
    <2> QED  BY <1>1, <1>2, <2>1, <2>3 DEF BackupInv, BackupUsable
  <1>5. CASE CopyMissing
    <2>1. attached' = attached \cup incoming.files /\ incoming' = [incoming EXCEPT !.at = "copied"]
          /\ incoming.at = "prepared" /\ resLock = "nobody" /\ resLock' = "import" /\ UNCHANGED <<merged, taken>>
      BY <1>5 DEF CopyMissing, HoldsFiles
    <2>2. incoming' \in Merges /\ incoming'.at = "copied" /\ incoming'.rows = incoming.rows
          /\ incoming'.files = incoming.files /\ incoming'.root = incoming.root
      BY <2>1, <1>3 DEF Merges
    <2>3. attached' \in AttachedSets
      BY <2>1, <1>3 DEF Merges, AttachedSets
    <2>4. BackupShape' /\ LocksRight' /\ CarriedRight'
      BY <1>1, <1>2, <2>1, <2>2, <2>3 DEF BackupShape, LocksRight, CarriedRight
    <2>5. HistoryRight(rows', attached') /\ MergedAll' /\ BackupUsable'
      BY <1>1, <1>2, <2>1 DEF HistoryRight, MergedAll, BackupInv, BackupUsable
    <2> QED  BY <2>4, <2>5 DEF BackupInv
  <1>6. CASE EndImport
    <2>1. merged' = [ok |-> TRUE, rows |-> incoming.rows] /\ incoming' = NoMerging /\ incoming.at = "merged"
          /\ resLock' = (IF resLock = "import" THEN "nobody" ELSE resLock) /\ UNCHANGED <<attached, taken>>
      BY <1>6 DEF EndImport, LetsGo
    <2>2. BackupShape' /\ LocksRight' /\ CarriedRight'
      BY <1>1, <1>2, <1>3, <2>1, Blanks DEF BackupShape, LocksRight, CarriedRight, Merges
    <2>3. MergedAll'
      BY <1>1, <1>2, <2>1 DEF CarriedRight, MergedAll, NotLost, Present
    <2> QED  BY <1>1, <1>2, <2>1, <2>2, <2>3 DEF BackupInv, BackupUsable
  <1>7. CASE ImportBreaks
    <2>1. incoming' = NoMerging /\ UNCHANGED <<attached, merged, taken>>
          /\ resLock' = IF resLock = "import" THEN "nobody" ELSE resLock
      BY <1>7 DEF ImportBreaks, LetsGo
    <2>2. BackupShape' /\ LocksRight' /\ CarriedRight' /\ MergedAll'
      BY <1>1, <1>2, <2>1, Blanks DEF BackupShape, LocksRight, CarriedRight, MergedAll
    <2> QED  BY <1>1, <1>2, <2>1, <2>2 DEF BackupInv, BackupUsable
  <1> QED  BY <1>4, <1>5, <1>6, <1>7

\* A row of the backup as it is put into the history: its attachment is there by now.
LEMMA ImportedRight ==
  ASSUME BackupInv, incoming.at = "copied", NEW k \in 1..Len(incoming.rows)
  PROVE  LET r == incoming.rows[k]
         IN  /\ Imported(r) \in Row /\ RowFits(Imported(r)) /\ Imported(r).path \notin Dated
             /\ Imported(r).key = r.key /\ HashOf(Imported(r)) = Settled(r)
             /\ Imported(r).path \in Reference /\ Imported(r).content \in Attachment => HashOf(Imported(r)) \in attached
  <1> DEFINE r == incoming.rows[k]
             q == Imported(r)
  <1>1. incoming.rows \in Seq(Row) /\ BackupRight(incoming.rows, incoming.files, incoming.root)
        /\ incoming.files \subseteq attached
    BY DEF BackupInv, BackupShape, CarriedRight, Merges
  <1>2. r \in Row
    BY <1>1
  <1>3. /\ RowFits(r)
        /\ r.content \in Attachment /\ r.path # Outside => Settled(r) \in attached
        /\ r.path[1] \in Root => incoming.root \in {"unknown", r.path[1]}
    BY <1>1 DEF BackupRight
  <1> HIDE DEF r
  <1>4. /\ q.content = r.content /\ q.key = r.key /\ q.path = Rewritten(r, incoming.root, attached)
        /\ q.path \in Path => q \in Row
    BY <1>2 DEF Imported, Row
  <1>5. r.path \in Path /\ r.content \in Note \cup Attachment /\ Settled(r)[2] = (IF r.path = Outside THEN Outside ELSE <<"resource", r.path[2]>>)
    BY <1>2 DEF Row, Settled
  <1>6. q.path = Settled(r)[2]
    <2>1. CASE r.path \in Dated
      <3>1. r.content \in Attachment /\ r.path # Outside /\ r.path[1] \in Root
        BY <1>3, <1>5, <2>1, PathKinds DEF RowFits
      <3> QED  BY <3>1, <1>3, <1>4 DEF Rewritten
    <2>2. CASE r.path \in Reference \cup {Outside}
      BY <2>2, <1>4, <1>5, PathKinds DEF Rewritten
    <2> QED  BY <2>1, <2>2, <1>5, PathKinds
  <1>7. q.path \in Reference \cup {Outside} /\ q.path[2] = r.path[2]
        /\ (r.path \in Dated => q.path = <<"resource", r.path[2]>>) /\ (r.path \notin Dated => q.path = r.path)
    BY <1>5, <1>6, PathKinds
  <1>8. q.path \in Path /\ q.path \notin Dated
    BY <1>7, PathKinds
  <1>9. RowFits(q)
    <2>1. r.path[2] \notin Received => CopiedAs(r.path) \subseteq CopiedAs(q.path)
      <3> SUFFICES ASSUME r.path[2] \notin Received, r.path \in Dated PROVE CopiedAs(r.path) \subseteq CopiedAs(q.path)
        BY <1>7
      <3>1. q.path = Shared
        BY <1>7, PathKinds
      <3>2. r.path # Outside /\ r.path # Shared
        BY PathKinds
      <3> QED  BY <3>1, <3>2 DEF CopiedAs
    <2>2. r.content \in Note => q.path = Shared
      BY <1>3, <1>7, PathKinds DEF RowFits
    <2> HIDE DEF q
    <2> QED  BY <1>3, <1>4, <1>7, <2>1, <2>2 DEF RowFits
  <1>10. HashOf(q) = Settled(r)
    <2>1. Settled(r) = <<r.content, Settled(r)[2]>>
      BY DEF Settled
    <2> QED  BY <2>1, <1>4, <1>6 DEF HashOf
  <1>11. ASSUME q.path \in Reference, q.content \in Attachment PROVE HashOf(q) \in attached
    <2>1. r.path # Outside /\ r.content \in Attachment
      BY <1>4, <1>7, <1>11, PathKinds
    <2> QED  BY <2>1, <1>3, <1>10
  <1> QED  BY <1>4, <1>8, <1>9, <1>10, <1>11 DEF r

\* A row joins the history, or is there.
LEMMA RowTaken ==
  ASSUME BackupInv, incoming.at = "copied", NEW k \in 1..Len(incoming.rows), NEW s, HistoryRight(s, attached)
  PROVE  LET t == WithRow(s, incoming.rows[k])
         IN  /\ HistoryRight(t, attached) /\ Present(t, incoming.rows[k])
             /\ \A q : Present(s, q) => Present(t, q)
  <1> DEFINE r == incoming.rows[k]
             x == Imported(r)
  <1>1. /\ x \in Row /\ RowFits(x) /\ x.path \notin Dated /\ x.key = r.key /\ HashOf(x) = Settled(r)
        /\ x.path \in Reference /\ x.content \in Attachment => HashOf(x) \in attached
    BY ImportedRight
  <1>2. WithRow(s, r) = IF Duplicate(s, x) THEN s ELSE Append(s, x)
    BY DEF WithRow
  <1> HIDE DEF x, r
  <1>3. CASE Duplicate(s, x)
    BY <1>1, <1>2, <1>3 DEF Duplicate, Present, r
  <1>4. CASE ~Duplicate(s, x)
    <2>1. HistoryRight(Append(s, x), attached) /\ RowsOf(Append(s, x)) = RowsOf(s) \cup {x}
          /\ \A q : Present(s, q) => Present(Append(s, x), q)
      <3>1. (\A q \in RowsOf(s) : q.key # x.key) /\ ~HasHash(s, HashOf(x))
        BY <1>4 DEF Duplicate, HasKey
      <3> QED  BY <1>1, <3>1, RowJoins
    <2>2. HasKey(Append(s, x), r.key)
      BY <2>1, <1>1 DEF HasKey
    <2> QED  BY <1>2, <1>4, <2>1, <2>2 DEF Present, r
  <1> QED  BY <1>3, <1>4

\* The rows so far are what the recursion says.
LEMMA RowsAfterIs ==
  ASSUME Len(incoming.rows) \in Nat
  PROVE  /\ RowsAfter[0] = rows
         /\ \A n \in 1..Len(incoming.rows) : RowsAfter[n] = WithRow(RowsAfter[n - 1], incoming.rows[n])
  <1> DEFINE last == Len(incoming.rows)
             Follows(f, m) == f = [n \in 0..m |-> IF n = 0 THEN rows ELSE WithRow(f[n - 1], incoming.rows[n])]
             S == {m \in 0..last : \E f : Follows(f, m)}
  <1>1. 0 \in S
    <2>1. Follows([n \in 0..0 |-> rows], 0)
      BY \A n \in 0..0 : n = 0
    <2> HIDE DEF Follows
    <2> QED  BY <2>1
  <1>2. ASSUME NEW k \in 1..last, k - 1 \in S PROVE k \in S
    <2>1. PICK f : Follows(f, k - 1)
      BY <1>2
    <2> DEFINE g == [n \in 0..k |-> IF n = k THEN WithRow(f[k - 1], incoming.rows[k]) ELSE f[n]]
    <2>2. ASSUME NEW n \in 0..k PROVE g[n] = IF n = 0 THEN rows ELSE WithRow(g[n - 1], incoming.rows[n])
      <3>1. CASE n = k
        <4>1. k # 0 /\ k - 1 \in 0..k /\ k - 1 # k
          OBVIOUS
        <4>2. g[k - 1] = f[k - 1] /\ g[k] = WithRow(f[k - 1], incoming.rows[k])
          BY <4>1
        <4> HIDE DEF g
        <4> QED  BY <3>1, <4>1, <4>2
      <3>2. CASE n # k
        <4>1. n \in 0..k - 1 /\ (n # 0 => n - 1 \in 0..k /\ n - 1 # k)
          BY <3>2
        <4>2. g[n] = f[n] /\ (n # 0 => g[n - 1] = f[n - 1])
          BY <3>2, <4>1
        <4>3. f[n] = IF n = 0 THEN rows ELSE WithRow(f[n - 1], incoming.rows[n])
          BY <2>1, <4>1
        <4> HIDE DEF g
        <4> QED  BY <4>2, <4>3
      <3> QED  BY <3>1, <3>2
    <2>3. Follows(g, k)
      <3>1. g = [n \in 0..k |-> g[n]]
        OBVIOUS
      <3> HIDE DEF g
      <3> QED  BY <2>2, <3>1
    <2> HIDE DEF Follows, g
    <2> QED  BY <2>3
  <1>3. S = 0..last
    <2> HIDE DEF S
    <2>1. S \in SUBSET (0..last)
      BY DEF S
    <2> QED  BY <1>1, <1>2, <2>1, StepByStep
  <1>4. PICK f : Follows(f, last)
    BY <1>3
  <1>5. RowsAfter = CHOOSE f0 : Follows(f0, last)
    BY DEF RowsAfter
  <1>6. Follows(RowsAfter, last)
    BY <1>4, <1>5
  <1> HIDE DEF last
  <1>7. ASSUME NEW n \in 0..last PROVE RowsAfter[n] = IF n = 0 THEN rows ELSE WithRow(RowsAfter[n - 1], incoming.rows[n])
    BY <1>6
  <1> HIDE DEF Follows
  <1> QED  BY <1>7 DEF last

\* The merge.
LEMMA MergeTakesAll ==
  ASSUME BackupInv, incoming.at = "copied"
  PROVE  /\ HistoryRight(MergedRows, attached)
         /\ \A q : Present(rows, q) => Present(MergedRows, q)
         /\ \A r \in RowsOf(incoming.rows) : Present(MergedRows, r)
  <1> DEFINE last == Len(incoming.rows)
             Good(n) == /\ HistoryRight(RowsAfter[n], attached)
                        /\ \A q : Present(rows, q) => Present(RowsAfter[n], q)
                        /\ \A i \in 1..n : Present(RowsAfter[n], incoming.rows[i])
             S == {n \in 0..last : Good(n)}
  <1>1. last \in Nat /\ HistoryRight(rows, attached)
    BY DEF BackupInv, BackupShape, Merges
  <1>2. /\ RowsAfter[0] = rows
        /\ \A n \in 1..last : RowsAfter[n] = WithRow(RowsAfter[n - 1], incoming.rows[n])
    BY <1>1, RowsAfterIs
  <1>3. 0 \in S
    BY <1>1, <1>2
  <1>4. ASSUME NEW k \in 1..last, k - 1 \in S PROVE k \in S
    <2>1. Good(k - 1) /\ k \in 0..last /\ RowsAfter[k] = WithRow(RowsAfter[k - 1], incoming.rows[k])
      BY <1>2, <1>4
    <2>2. /\ HistoryRight(RowsAfter[k], attached) /\ Present(RowsAfter[k], incoming.rows[k])
          /\ \A q : Present(RowsAfter[k - 1], q) => Present(RowsAfter[k], q)
      BY <2>1, RowTaken
    <2>3. \A i \in 1..k : i \in 1..k - 1 \/ i = k
      OBVIOUS
    <2> QED  BY <2>1, <2>2, <2>3
  <1>5. S = 0..last
    <2> HIDE DEF S
    <2>1. S \in SUBSET (0..last)
      BY DEF S
    <2> QED  BY <1>1, <1>3, <1>4, <2>1, StepByStep
  <1>6. Good(last)
    BY <1>1, <1>5
  <1> QED  BY <1>6 DEF MergedRows, RowsOf

LEMMA BackupMergeStays ==
  ASSUME BackupInv, MergeHistory
  PROVE  BackupInv'
  <1>1. /\ incoming.at = "copied" /\ rows' = MergedRows /\ incoming' = [incoming EXCEPT !.at = "merged"]
        /\ UNCHANGED <<attached, resLock, archive, packing, merged, taken>>
    BY DEF MergeHistory
  <1>2. HistoryRight(rows', attached') /\ (\A q : Present(rows, q) => Present(rows', q))
        /\ \A r \in RowsOf(incoming.rows) : Present(rows', r)
    BY <1>1, MergeTakesAll
  <1>3. incoming \in Merges
    BY DEF BackupInv, BackupShape
  <1>4. incoming' \in Merges /\ incoming'.at = "merged" /\ incoming'.rows = incoming.rows
        /\ incoming'.files = incoming.files /\ incoming'.root = incoming.root
    BY <1>1, <1>3 DEF Merges
  <1>5. \A r : NotLost(r) => NotLost(r)'
    BY <1>1, <1>2 DEF NotLost
  <1>6. BackupShape' /\ LocksRight' /\ BackupUsable'
    BY <1>1, <1>4 DEF BackupInv, BackupShape, LocksRight, BackupUsable
  <1>7. CarriedRight'
    BY <1>1, <1>2, <1>4 DEF BackupInv, CarriedRight, NotLost
  <1>8. MergedAll'
    BY <1>1, <1>5 DEF BackupInv, MergedAll, NotLost, Present
  <1> QED  BY <1>2, <1>6, <1>7, <1>8 DEF BackupInv

\* No record names an attachment by a path of the day: there is nothing to migrate.
LEMMA StartStays ==
  ASSUME BackupInv, RestartApplication
  PROVE  BackupInv'
  <1>1. /\ packing' = NoPacking /\ incoming' = NoMerging /\ resLock' = "nobody"
        /\ rows' = Migrated(rows, attached) /\ UNCHANGED <<attached, archive, merged, taken>>
    BY DEF RestartApplication
  <1>2. rows \in Seq(Row) /\ \A i \in 1..Len(rows) : rows[i] \in Row /\ rows[i].path \notin Dated
    BY DEF BackupInv, HistoryRight
  <1>3. ASSUME NEW i \in 1..Len(rows) PROVE [rows[i] EXCEPT !.path = Rewritten(rows[i], "unknown", attached)] = rows[i]
    <2>1. Rewritten(rows[i], "unknown", attached) = rows[i].path
      <3>1. rows[i].path[1] \notin Root
        BY <1>2, PathKinds DEF Row
      <3> QED  BY <3>1 DEF Rewritten
    <2> QED  BY <2>1, <1>2 DEF Row
  <1>4. rows = [i \in 1..Len(rows) |-> rows[i]]
    BY <1>2
  <1>5. rows' = rows
    BY <1>1, <1>3, <1>4 DEF Migrated
  <1>6. BackupShape' /\ LocksRight' /\ BackupUsable' /\ CarriedRight' /\ MergedAll'
    BY <1>1, <1>5, Blanks
    DEF BackupInv, BackupShape, LocksRight, BackupUsable, CarriedRight, MergedAll
  <1> QED  BY <1>1, <1>5, <1>6 DEF BackupInv

LEMMA BackupsStay == BackupInv /\ [BackupsNext]_backupVars => BackupInv'
  <1> SUFFICES ASSUME BackupInv, [BackupsNext]_backupVars PROVE BackupInv'
    OBVIOUS
  <1>1. CASE UNCHANGED backupVars
    BY <1>1 DEF backupVars, BackupInv, BackupShape, LocksRight, CarriedRight, MergedAll, BackupUsable, NotLost
  <1>2. CASE BackupsNext
    BY <1>2, BackupCopyStays, ReceiveStays, RemoveStays, ReclaimStays, ExportStays, ImportStays, BackupMergeStays, StartStays
    DEF BackupsNext
  <1> QED  BY <1>1, <1>2

LEMMA BackupsServe == BackupInv => BackupsSound /\ BackupsTypeOK
  <1> SUFFICES ASSUME BackupInv PROVE BackupsSound /\ BackupsTypeOK
    OBVIOUS
  <1>1. OneOfEach /\ AttachmentsThere
    BY DEF BackupInv, HistoryRight, OneOfEach, AttachmentsThere
  <1>2. \A r \in RowsOf(rows) : r \in Row
    BY DEF BackupInv, HistoryRight, RowsOf
  <1>3. BackupsTypeOK
    BY <1>2 DEF BackupInv, BackupShape, BackupsTypeOK, Row, Archives, Stores, Merges, AttachedSets
  <1> QED  BY <1>1, <1>3 DEF BackupInv, BackupsSound
=============================================================================
