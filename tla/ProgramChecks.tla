---------------------------- MODULE ProgramChecks ----------------------------
(***************************************************************************)
(* Installed programs: which of them and which versions                    *)
(* WindowsInstalledProgramReader finds, how ProgramVersionCheck compares   *)
(* them with the latest, how much data WindowsBrowserDataReader counts,    *)
(* and the list for the report.                                            *)
(*                                                                         *)
(* The text of a version is a sequence of numbers, each a sequence of      *)
(* digits: <<<<1>>, <<7>>, <<2, 1, 2, 1, 2>>>> is "1.7.21212".  An empty   *)
(* text is one that cannot be read.                                        *)
(***************************************************************************)
EXTENDS Integers, Sequences, SequencesExt, FiniteSets, FiniteSetsExt, Lists

NoVersion == <<>>

NumberOf(digits) == FoldLeft(LAMBDA n, d : 10 * n + d, 0, digits)

Numbers(v) == [i \in DOMAIN v |-> NumberOf(v[i])]

\* compare_versions pads with zeros ...
Part(v, i) == IF i \in DOMAIN v THEN Numbers(v)[i] ELSE 0

\* ... and compares from the left.
AtLeast(v, w) ==
    LET parts == 1..(IF Len(v) > Len(w) THEN Len(v) ELSE Len(w))
        differing == {i \in parts : Part(v, i) # Part(w, i)}
    IN  differing = {} \/ Part(v, Min(differing)) > Part(w, Min(differing))

-----------------------------------------------------------------------------
(* PotPlayer: a version is a date of six digits *)

\* _is_valid_potplayer_date_version
IsDate(d) ==
    /\ Len(d) = 6
    /\ 10 * d[3] + d[4] \in 1..12
    /\ 10 * d[5] + d[6] \in 1..31

\* The runs of six digits in the text without its separators, in order.
Runs(v) ==
    LET compact == FlattenSeq(v)
    IN  [i \in 1..(Len(compact) - 5) |-> SubSeq(compact, i, i + 5)]

\* _extract_potplayer_date_version: a number of six digits that is a date, else
\* the first run of digits that happens to be one.
DateIn(v) ==
    LET number == SelectInSeq(v, LAMBDA d : Len(d) = 6)
        run == SelectInSeq(Runs(v), IsDate)
    IN  IF number # 0 /\ IsDate(v[number]) THEN <<v[number]>>
        ELSE IF run # 0 THEN <<Runs(v)[run]>>
        ELSE NoVersion

\* _get_potplayer_registry_version: the first entry with a date.
RegistryVersion(entries) ==
    LET i == SelectInSeq(entries, LAMBDA v : DateIn(v) # NoVersion)
    IN  IF i = 0 THEN NoVersion ELSE DateIn(entries[i])

\* _get_program_version: the history file, then the file's version, then the
\* registry; without the program's file only the registry.
PotPlayerVersion(p) ==
    IF p.file /\ p.history # NoVersion /\ IsDate(p.history[1]) THEN p.history
    ELSE IF p.file /\ DateIn(p.version) # NoVersion THEN DateIn(p.version)
    ELSE RegistryVersion(p.entries)

-----------------------------------------------------------------------------
(* The check of a program *)

\* _extract_bandizip_version, _major_minor_version
MajorMinor(v) == IF Len(v) < 2 THEN NoVersion ELSE SubSeq(v, 1, 2)

\* get_program: PotPlayer counts as installed by its registry entry as well.
Installed(p) == p.file \/ (p.id = "potplayer" /\ RegistryVersion(p.entries) # NoVersion)

\* "0.0" and "0.0.0.0" are no versions.
IsZero(v) == Len(v) \in {0, 2, 4} /\ \A i \in DOMAIN v : NumberOf(v[i]) = 0

\* _get_program_version and _normalize_local_version
LocalVersion(p) ==
    IF p.id = "potplayer" THEN DateIn(PotPlayerVersion(p))
    ELSE IF p.id = "bandizip" THEN
        IF IsZero(MajorMinor(p.version)) THEN NoVersion ELSE MajorMinor(p.version)
    ELSE IF IsZero(p.version) THEN NoVersion
    ELSE p.version

\* get_latest_version: what the web page says, cut for Bandizip; no answer, no
\* version.
LatestVersion(id, published) == IF id = "bandizip" THEN MajorMinor(published) ELSE published

\* ProgramVersionCheck.run
Verdict(p, published) ==
    LET local == LocalVersion(p)
        latest == LatestVersion(p.id, published)
    IN  IF ~Installed(p) THEN "missing"
        ELSE IF local = NoVersion \/ latest = NoVersion THEN "unknown"
        ELSE IF AtLeast(local, latest) THEN "latest"
        ELSE "outdated"

-----------------------------------------------------------------------------
(* Browser data: the files of the default profile and of the others, each  *)
(* a sequence of sizes in the order they are looked at, Denied for a file   *)
(* that cannot be read.                                                    *)

Denied == -1
SizeOf(f) == IF f = Denied THEN 0 ELSE f

\* A wrong variant: looks no further than half the budget.
HalfBudget(budget, files) ==
    FoldLeft(LAMBDA n, f : IF 2 * n >= budget THEN n ELSE n + SizeOf(f), 0, files)

\* _browser_data_size and _directory_size: no further file is looked at when
\* the budget is used up.
CountUpTo(budget, files) ==
    FoldLeft(LAMBDA n, f : IF n >= budget THEN n ELSE n + SizeOf(f), 0, files)

\* get_browser_data_status: from profile to profile with what is left of the
\* budget, which is the threshold and one byte more.
BudgetedSize(threshold, browser) ==
    FoldLeft(LAMBDA n, files : IF n >= threshold + 1 THEN n
                               ELSE n + CountUpTo(threshold + 1 - n, files),
             0, <<browser.default>> \o browser.others)

\* has_history: another profile than the default one, or the size.
HasHistory(threshold, browser) ==
    browser.others # <<>> \/ BudgetedSize(threshold, browser) >= threshold

-----------------------------------------------------------------------------
(* The list for the report: three roots of uninstall entries, two of the   *)
(* machine and the user's, each a sequence of [name, version, kind,        *)
(* office]: kind "shown", "system" or "nameless", office the year that the *)
(* name of an Office has, "365", "other" or, for any other program, "none".*)

\* Names are numbers, compared without regard to case.
Shown(entries) == Those(entries, {e \in Range(entries) : e.kind = "shown"})

\* The first entry of a name stays.
FirstOfName(list, e) ==
    IF \E i \in DOMAIN list : list[i].name = e.name THEN list ELSE Append(list, e)

\* list_installed_programs: root by root, one that fails is left out; sorted.
ListPrograms(roots, answering) ==
    LET read == FlattenSeq([i \in DOMAIN roots |->
                    IF i \in answering THEN Shown(roots[i]) ELSE <<>>])
        unique == Range(FoldLeft(FirstOfName, <<>>, read))
    IN  Sorted(unique, {p \in unique \X unique : p[1].name < p[2].name})

\* get_installed_office_name: the first Office of the machine's roots, also a
\* system component; _is_office_display_name and _classify_office_version.
OfficeFound(roots, answering) ==
    LET read == FlattenSeq([i \in 1..2 |->
                    IF i \in answering THEN roots[i] ELSE <<>>])
        i == SelectInSeq(read, LAMBDA e : e.kind # "nameless" /\ e.office # "none")
    IN  IF i = 0 THEN "none" ELSE read[i].office

\* OfficeInstallCheck.run
OfficeVerdict(office) ==
    IF office = "none" THEN "missing"
    ELSE IF office \in {"2021", "2024", "365"} THEN "supported"
    ELSE "not recommended"

=============================================================================
