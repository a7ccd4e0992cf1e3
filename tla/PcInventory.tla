----------------------------- MODULE PcInventory -----------------------------
(***************************************************************************)
(* What the tool reads of a PC and shows or reports: the PC information    *)
(* (PcInfoViewModel over WmiPcInfoReader), the network page's listing, the *)
(* program checks and the list of programs.  The readers are operators of  *)
(* the modules extended here; each reading meets the PC of that moment,    *)
(* with some of its sources silent, and stays shown while the PC changes.  *)
(*                                                                         *)
(* Bounded: the PC's parts are those of the constants; at most MaxEvents readings *)
(* and changes.                                                            *)
(***************************************************************************)
EXTENDS PcInfoReader, NetworkIdentity, ProgramChecks

CONSTANTS
    Hardware,   \* build, boot, secureBoot, tpm, gpus and disks of PCs
    Networks,   \* sets of adapters
    Programs,   \* installed programs, with the version of each published last
    Browsers,   \* browser data
    Roots,      \* uninstall entries
    Typical,    \* the PC to begin with
    Threshold,  \* from which size on browser data counts as history
    MaxEvents

\* Disks of one model have the same bus and medium, an NVMe disk is an SSD, and
\* so is one whose name says so.
ASSUME HardwareAssumption ==
    \A h \in Hardware :
        /\ h.gpus \in Seq([kind : {"real", "virtual", "basic", "software"}, memory : Nat])
        /\ h.disks \in Seq([id : Nat \ {0}, model : SUBSET STRING, size : Nat,
                            bus : {"NVMe", "SATA", "USB"}, media : {"SSD", "HDD"}])
        /\ h.disks # <<>>
        /\ \A i \in DOMAIN h.disks :
               /\ h.disks[i].model # {}
               /\ "nvme" \in h.disks[i].model => h.disks[i].bus = "NVMe"
               /\ h.disks[i].bus = "NVMe" \/ "ssd" \in h.disks[i].model =>
                      h.disks[i].media = "SSD"
        /\ \A i, j \in DOMAIN h.disks :
               /\ h.disks[i].id = h.disks[j].id => i = j
               /\ h.disks[i].model = h.disks[j].model =>
                      h.disks[i].media = h.disks[j].media /\ h.disks[i].bus = h.disks[j].bus

ASSUME NetworkAssumption ==
    \A net \in Networks :
        /\ IsFiniteSet(net)
        /\ net \subseteq [id : Nat \ {0}, kind : {"Ethernet", "Wi-Fi", "virtual"},
                          up : BOOLEAN, ip : {"valid", "linklocal", "none"},
                          gateway4 : BOOLEAN, gateway6 : BOOLEAN, metric : Nat,
                          named : BOOLEAN, dhcp : BOOLEAN, dns : SUBSET {"static", "leased"}]
        /\ \A a, b \in net : a.id = b.id => a = b

\* What can be read of a program's version is its real release: the file's, but
\* for PotPlayer what history file and registry have, and its file's only where
\* that has a date.
ASSUME ProgramAssumption ==
    \A p \in Programs :
        /\ p.file \in BOOLEAN
        /\ p.version \in Seq(Seq(0..9)) /\ p.published \in Seq(Seq(0..9))
        /\ p.id # "potplayer" => p.version \in {NoVersion, p.release}
        /\ p.id = "potplayer" =>
               /\ p.release \in Seq(Seq(0..9)) /\ Len(p.release) = 1 /\ IsDate(p.release[1])
               /\ p.history \in {NoVersion, p.release}
               /\ (\E i \in DOMAIN p.version : Len(p.version[i]) = 6) => p.version = p.release
               /\ p.entries \in Seq(Seq(Seq(0..9)))
               /\ \A i \in DOMAIN p.entries : DateIn(p.entries[i]) \in {NoVersion, p.release}

ASSUME BrowserAssumption ==
    \A b \in Browsers : b.default \in Seq(Nat \cup {Denied})

ASSUME RootsAssumption ==
    \A r \in Roots :
        /\ r \in [1..3 -> Seq([name : Nat, version : Nat, kind : {"shown", "system", "nameless"},
                               office : {"none", "2021", "2024", "365", "other"}])]
        /\ \A k \in 1..3 : \A i \in DOMAIN r[k] :
               r[k][i].kind = "nameless" => r[k][i].office = "none"

ASSUME InventoryAssumption ==
    /\ Typical \in [hardware : Hardware, adapters : Networks, program : Programs,
                    browser : Browsers, roots : Roots]
    /\ Threshold \in Nat /\ MaxEvents \in Nat

VARIABLES
    hardware, adapters, program, browser, roots,  \* the PC
    info,     \* PcInfoViewModel: what was read last, of which PC, from what
    message,  \* and its message
    page,     \* the listing of adapters, and of what
    checked,  \* the verdict on the program and the browser, and of what
    office,   \* the verdict on Office, and of what
    listed,   \* the list of programs, and of what
    events

pcVars == <<hardware, adapters, program, browser, roots>>
vars == <<pcVars, info, message, page, checked, office, listed, events>>

Nothing == [of |-> "nothing"]

Another == events < MaxEvents /\ events' = events + 1

\* refresh: one source silent at a time for the hardware, any for the network.
LoadPcInfo ==
    /\ Another
    /\ \E a \in OneSilent, fast, powershell, wmi \in BOOLEAN :
        /\ a # AllAnswer => fast /\ powershell /\ wmi
        /\ info' = [of |-> hardware, answers |-> a,
                    windows |-> WindowsSeen(hardware, a),
                    boot |-> BootSeen(hardware, a),
                    secureBoot |-> SecureBootSeen(hardware, a),
                    tpm |-> TpmSeen(hardware, a),
                    gpu |-> GpuSeen(hardware, a),
                    disks |-> DisksSeen(hardware, a),
                    summaries |-> Summaries(DisksSeen(hardware, a)),
                    adapters |-> adapters, fast |-> fast,
                    blind |-> ~fast /\ ~powershell /\ ~wmi,
                    active |-> ActiveAdapter(adapters, fast, powershell, wmi)]
    /\ message' = "loaded"
    /\ UNCHANGED <<pcVars, page, checked, office, listed>>

\* The reading raises: the fields keep what was read before.
LoadRaises ==
    /\ Another
    /\ message' = "failed"
    /\ UNCHANGED <<pcVars, info, page, checked, office, listed>>

\* read_network_adapters_fast
ListAdapters ==
    /\ Another
    /\ \E registry \in BOOLEAN :
        page' = [of |-> adapters, registry |-> registry, rows |-> Page(adapters, registry)]
    /\ UNCHANGED <<pcVars, info, message, checked, office, listed>>

\* ProgramVersionCheck and BrowserHistoryCheck; the web may not answer.
CheckPrograms ==
    /\ Another
    /\ \E latest \in {program.published, NoVersion} :
        checked' = [of |-> program, browser |-> browser, latest |-> latest,
                    verdict |-> Verdict(program, latest),
                    history |-> HasHistory(Threshold, browser)]
    /\ UNCHANGED <<pcVars, info, message, page, office, listed>>

\* OfficeInstallCheck; a root that fails is left out.
CheckOffice ==
    /\ Another
    /\ \E answering \in SUBSET DOMAIN roots :
        office' = [of |-> roots, answering |-> answering,
                   verdict |-> OfficeVerdict(OfficeFound(roots, answering))]
    /\ UNCHANGED <<pcVars, info, message, page, checked, listed>>

\* ListInstalledPrograms; when every root fails or is empty the four known
\* programs are looked for one by one, and Office.
ReportPrograms ==
    /\ Another
    /\ \E answering \in SUBSET DOMAIN roots :
        listed' = [of |-> roots, answering |-> answering, program |-> program,
                   list |-> ListPrograms(roots, answering),
                   fallback |-> /\ ListPrograms(roots, answering) = <<>>
                                /\ \/ Installed(program)
                                   \/ OfficeFound(roots, answering) # "none"]
    /\ UNCHANGED <<pcVars, info, message, page, checked, office>>

\* Somebody plugs, unplugs, installs and updates.
PcChanges ==
    /\ Another
    /\ \/ hardware' \in Hardware \ {hardware} /\ UNCHANGED <<adapters, program, browser, roots>>
       \/ adapters' \in Networks \ {adapters} /\ UNCHANGED <<hardware, program, browser, roots>>
       \/ program' \in Programs \ {program} /\ UNCHANGED <<hardware, adapters, browser, roots>>
       \/ browser' \in Browsers \ {browser} /\ UNCHANGED <<hardware, adapters, program, roots>>
       \/ roots' \in Roots \ {roots} /\ UNCHANGED <<hardware, adapters, program, browser>>
    /\ UNCHANGED <<info, message, page, checked, office, listed>>

Init ==
    /\ hardware = Typical.hardware /\ adapters = Typical.adapters
    /\ program = Typical.program /\ browser = Typical.browser /\ roots = Typical.roots
    /\ info = Nothing /\ message = "not loaded"
    /\ page = Nothing /\ checked = Nothing /\ office = Nothing /\ listed = Nothing
    /\ events = 0

Next == LoadPcInfo \/ LoadRaises \/ ListAdapters \/ CheckPrograms \/ CheckOffice
        \/ ReportPrograms \/ PcChanges

Spec == Init /\ [][Next]_vars

-----------------------------------------------------------------------------
(* Properties *)

DiskOf(pc, row) == CHOOSE d \in Range(pc.disks) : d.id = row.id

\* No disk is left that Win32_DiskDrive lists and that is not removable; the
\* physical disks are shown instead.
StandIn(pc, a) == ~a.drives \/ Fixed(pc.disks) = <<>>

\* The bus shown of a disk is that of another one: of one whose name is part of
\* its name, or the other way round, when Win32_DiskDrive has no serial numbers,
\* and of one like that or of about its size when MSFT_PhysicalDisk misses it.
Lent(bus, d, disks, a) ==
    /\ d.bus # "NVMe"
    /\ \E e \in Range(disks) :
          /\ e.bus = bus
          /\ \/ ~a.serials /\ Alike(e, d)
             \/ /\ a.physical = "incomplete" /\ d = Head(disks)
                /\ Alike(e, d) \/ Distance(e, d) <= 4

\* What a row says of its disk.
DiskTold(row, pc, a) ==
    LET d == DiskOf(pc, row)
    IN  /\ \/ row.type = d.media
           \/ row.type = "Unknown" /\ a.physical = "no media" /\ StandIn(pc, a)
        /\ row.bus = d.bus \/ Lent(row.bus, d, pc.disks, a)
        /\ d.bus = "USB" => StandIn(pc, a)

\* The graphics adapter is a real one if there is a real one, and none has more
\* memory, as far as the source can tell (Win32_VideoController cannot beyond
\* 4 GB).
GpuTold(gpu, pc, a) ==
    LET real == WithKind(pc.gpus, "real")
    IN  /\ gpu.kind = "real" <=> real # <<>>
        /\ \A i \in DOMAIN real :
              real[i].memory <= gpu.memory \/ (~a.dxgi /\ gpu.memory = 4)

\* Whichever single source is silent, the page tells of the PC as it was at the
\* last load that did not fail: the Windows that the activation is chosen by;
\* that there is a TPM when there is one, and a version only of one there is
\* ("installed" only says that the driver's service is registered); the real
\* graphics adapter with most memory; the medium of every disk and its bus,
\* unless that is lent; and as many disks by category as there are fixed ones.
\* Only when Win32_DiskDrive has no fixed disk the physical disks stand in, the
\* removable ones too (see RemovableNotListed).
InfoTold ==
    info # Nothing =>
        LET pc == info.of
            a == info.answers
        IN  /\ info.windows = IF pc.build >= 22000 THEN "windows_11" ELSE "windows_10"
            /\ pc.tpm => info.tpm \in {"version", "installed"}
            /\ info.tpm = "version" => pc.tpm
            /\ GpuTold(info.gpu, pc, a)
            /\ \A i \in DOMAIN info.disks : DiskTold(info.disks[i], pc, a)
            /\ info.summaries["NVMe"] + info.summaries["SSD"] + info.summaries["HDD"]
                   + info.summaries["Unknown"]
               = IF StandIn(pc, a) THEN Len(PhysicalRows(pc.disks, a))
                 ELSE Len(Fixed(pc.disks))

\* No removable disk is shown (README.md:65).  The code fails this when
\* Win32_DiskDrive is silent or has no fixed disk.
RemovableNotListed ==
    info # Nothing =>
        \A i \in DOMAIN info.disks : DiskOf(info.of, info.disks[i]).bus # "USB"

\* Connected as the documents ask: up, real, a valid address, a gateway.
Connected(a) == a.up /\ a.kind \in {"Ethernet", "Wi-Fi"} /\ a.ip = "valid" /\ a.gateway4

\* Whichever sources answer, no connected adapter that the answering source can
\* recognise comes before the one shown, or is wired while that is not; none is
\* shown only when there is none to recognise.  What is shown is connected,
\* unless the fast source let an IPv6 gateway or a link-local address pass (see
\* ShownIsConnected), and can be chosen on the network page, if that is read
\* from the same adapters.  The page's name servers are those in force; only an
\* adapter with a static address and no servers of its own lists those of an
\* earlier lease, from the registry.
AdapterIsBest ==
    /\ info # Nothing =>
        LET known == {a \in info.adapters : Connected(a) /\ (a.named \/ info.fast)}
            active == info.active
        IN  IF active = NoAdapter THEN known = {} \/ info.blind
            ELSE /\ Connected(active)
                    \/ (info.fast /\ (active.gateway6 \/ active.ip = "linklocal"))
                 /\ \A a \in known \ {active} :
                        /\ a.kind = "Ethernet" => active.kind = "Ethernet"
                        /\ a.kind = active.kind => Metric(active) <= Metric(a)
                 /\ page # Nothing /\ page.of = info.adapters =>
                        \E i \in DOMAIN page.rows : page.rows[i].id = active.id
    /\ page # Nothing =>
        \A i \in DOMAIN page.rows : \A a \in page.of :
            a.id = page.rows[i].id =>
                \/ page.rows[i].dns = InForce(a)
                \/ ~a.dhcp /\ a.dns = {"leased"} /\ page.registry

\* The adapter shown is connected: it has an IPv4 address that is not link-local
\* and an IPv4 gateway (docs/SKHU_PC_MANAGEMENT_SPEC.md:34).  The code fails this:
\* the filter of its fast source asks for neither.
ShownIsConnected ==
    info # Nothing => info.active = NoAdapter \/ Connected(info.active)

\* At least one of these two rules of the documents is kept at any time.  The code
\* fails this, so neither holds: a counterexample is one page that lists a removable
\* disk and shows an adapter that is not connected.
FixedOrConnected == RemovableNotListed \/ ShownIsConnected

\* Only a run of digits in the version of PotPlayer's file looks like a date.
ByAccident(p) ==
    /\ p.id = "potplayer" /\ p.file /\ p.history = NoVersion
    /\ \A i \in DOMAIN p.version : Len(p.version[i]) # 6
    /\ DateIn(p.version) # NoVersion

\* What a check says of a program is right about its real release, at the
\* precision that can be read, or it says that it does not know; only the
\* digits of a PotPlayer build may look like another date.  A browser without
\* another profile has history exactly if the files that can be read add up to
\* the threshold, although counting stops early.  The verdict on Office is that
\* of one that is installed for the machine (with several, the first).  The list for the report names
\* each program once, in order, as the first answering root has it, and is
\* empty only if there is nothing to list.
ProgramsTold ==
    /\ checked # Nothing =>
        LET p == checked.of
        IN  /\ checked.verdict = "missing" => ~p.file
            /\ checked.verdict \in {"latest", "outdated"} =>
                  \/ ByAccident(p)
                  \/ (checked.verdict = "latest")
                     <=> AtLeast(p.release, LatestVersion(p.id, checked.latest))
            /\ checked.history <=>
                  \/ checked.browser.others # <<>>
                  \/ FoldLeft(LAMBDA n, f : n + SizeOf(f), 0, checked.browser.default)
                     >= Threshold
    /\ office # Nothing =>
        LET found == {e.office : e \in
                UNION {Range(office.of[r]) : r \in office.answering \ {3}}} \ {"none"}
        IN  /\ office.verdict = "missing" <=> found = {}
            /\ office.verdict = "supported" => found # {"other"}
            /\ office.verdict = "not recommended" => "other" \in found
    /\ listed # Nothing =>
        LET list == listed.list
            entries(r) == Range(Shown(listed.of[r]))
        IN  /\ \A i, j \in DOMAIN list : i < j => list[i].name < list[j].name
            /\ \A r \in listed.answering : \A e \in entries(r) :
                  \E i \in DOMAIN list :
                      /\ list[i].name = e.name
                      /\ \E s \in listed.answering : s <= r /\ list[i] \in entries(s)
            /\ list = <<>> /\ listed.program.file => listed.fallback

=============================================================================
