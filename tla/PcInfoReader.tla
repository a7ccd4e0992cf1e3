---------------------------- MODULE PcInfoReader ----------------------------
(***************************************************************************)
(* What WmiPcInfoReader and dxgi_gpu_reader make of what Windows answers   *)
(* about the PC itself: the version of Windows, how it boots, the TPM, the *)
(* graphics adapter and the disks.                                         *)
(*                                                                         *)
(* Each fact has several sources, any of which may fail; the first that    *)
(* answers counts.  Answers describe which do:                             *)
(*   registry   "all", "no build" or "none"                                *)
(*   wmi        do the classes of the default namespace answer?            *)
(*   drives     does Win32_DiskDrive?                                      *)
(*   physical   MSFT_PhysicalDisk: "all", "incomplete" (the first disk is  *)
(*              missing), "no media" (no MediaType) or "none"              *)
(*   storage    MSFT_Disk: "all", "other ids" or "none"                    *)
(*   serials    has Win32_DiskDrive the serial numbers?                    *)
(*   ioctl      does DeviceIoControl answer?                               *)
(*   dxgi, bcdedit, tpm   do these?                                        *)
(*                                                                         *)
(* Left out: sizes of memory modules, names of CPU, PC and user, which are *)
(* read and shown; SCM disks.                                              *)
(***************************************************************************)
EXTENDS Integers, Sequences, FiniteSets, SequencesExt, Lists

Answers == [registry : {"all", "no build", "none"}, wmi : BOOLEAN, drives : BOOLEAN,
            physical : {"all", "incomplete", "no media", "none"},
            storage : {"all", "other ids", "none"}, serials : BOOLEAN,
            ioctl : BOOLEAN, dxgi : BOOLEAN, bcdedit : BOOLEAN, tpm : BOOLEAN]

AllAnswer == [registry |-> "all", wmi |-> TRUE, drives |-> TRUE, physical |-> "all",
              storage |-> "all", serials |-> TRUE, ioctl |-> TRUE, dxgi |-> TRUE,
              bcdedit |-> TRUE, tpm |-> TRUE]

\* All sources answer but one.
OneSilent == {AllAnswer} \cup
    {[AllAnswer EXCEPT !.registry = r] : r \in {"no build", "none"}} \cup
    {[AllAnswer EXCEPT !.physical = p] : p \in {"incomplete", "no media", "none"}} \cup
    {[AllAnswer EXCEPT !.storage = s] : s \in {"other ids", "none"}} \cup
    {[AllAnswer EXCEPT ![f] = FALSE] :
        f \in {"wmi", "drives", "serials", "ioctl", "dxgi", "bcdedit", "tpm"}}

\* The first element that passes, or none.
FirstOf(s, Test(_), none) ==
    LET i == SelectInSeq(s, Test) IN IF i = 0 THEN none ELSE s[i]

-----------------------------------------------------------------------------
(* Windows, firmware, TPM *)

\* _normalize_registry_windows_caption: the registry of Windows 11 still says
\* "Windows 10".
RegistryCaption(build) == IF build >= 22000 THEN "windows_11" ELSE "windows_10"

\* _get_windows_version_info: without a build the registry does not count.
WindowsSeen(pc, a) ==
    IF a.registry = "all" THEN RegistryCaption(pc.build)
    ELSE IF ~a.wmi THEN "unknown"
    ELSE IF pc.build >= 22000 THEN "windows_11" ELSE "windows_10"

\* _get_boot_mode
BootSeen(pc, a) ==
    IF a.registry # "none" \/ a.bcdedit THEN pc.boot ELSE "unknown"

\* _get_secure_boot_info
SecureBootSeen(pc, a) ==
    IF a.registry = "none" THEN "unknown"
    ELSE IF pc.secureBoot THEN "Enabled" ELSE "Disabled"

\* _get_tpm_info: the service is registered on PCs without a TPM as well.
TpmSeen(pc, a) ==
    IF a.tpm /\ pc.tpm THEN "version"
    ELSE IF a.registry # "none" THEN "installed"
    ELSE "unknown"

-----------------------------------------------------------------------------
(* Graphics *)

NoGpu == [kind |-> "none", memory |-> 0]
NoDriver == [kind |-> "basic", memory |-> 0]
WithKind(gpus, k) == Those(gpus, {g \in Range(gpus) : g.kind = k})

\* The first of those with most memory.
Largest(gpus) ==
    FirstOf(gpus, LAMBDA g : \A i \in DOMAIN gpus : gpus[i].memory <= g.memory, NoGpu)

\* select_representative_dxgi_gpu: software adapters do not count, a virtual
\* one only when there is no real one.
DxgiGpu(gpus) ==
    IF WithKind(gpus, "real") # <<>> THEN Largest(WithKind(gpus, "real"))
    ELSE IF WithKind(gpus, "virtual") # <<>> THEN Head(WithKind(gpus, "virtual"))
    ELSE IF WithKind(gpus, "basic") # <<>> THEN NoDriver
    ELSE NoGpu

\* Win32_VideoController: AdapterRAM ends at 4 GB.
WmiGpu(gpus) ==
    LET real == WithKind(gpus, "real")
        most == Largest([i \in DOMAIN real |->
                            [kind |-> "real", memory |-> IF real[i].memory > 4 THEN 4
                                                         ELSE real[i].memory]])
    IN  IF real # <<>> THEN most
        ELSE IF WithKind(gpus, "basic") # <<>> THEN NoDriver
        ELSE NoGpu

\* _get_gpu_info
GpuSeen(pc, a) ==
    IF a.dxgi /\ DxgiGpu(pc.gpus) # NoGpu THEN DxgiGpu(pc.gpus)
    ELSE IF a.wmi THEN WmiGpu(pc.gpus)
    ELSE NoGpu

-----------------------------------------------------------------------------
(* Disks: [id, model, size, bus, media]; the name of a model is the set of *)
(* its words, sizes are in GiB.                                            *)

NoDisk == [id |-> 0, model |-> {}, size |-> 0, bus |-> "Unknown", media |-> "Unknown"]

\* The rows of MSFT_PhysicalDisk.
PhysicalRows(disks, a) ==
    LET rows == IF a.physical = "none" THEN <<>>
                ELSE IF a.physical = "incomplete" THEN Tail(disks)
                ELSE disks
    IN  [i \in DOMAIN rows |->
            IF a.physical = "no media" THEN [rows[i] EXCEPT !.media = "Unknown"]
            ELSE rows[i]]

Distance(d, e) == IF d.size > e.size THEN d.size - e.size ELSE e.size - d.size

\* One name is part of the other.
Alike(d, e) == d.model \subseteq e.model \/ e.model \subseteq d.model

\* _find_best_physical_disk: by serial number, by model, else the nearest in
\* size within 4 GiB.
BestPhysical(rows, d, a) ==
    LET same == FirstOf(rows, LAMBDA r : a.serials /\ r.id = d.id, NoDisk)
        like == FirstOf(rows, LAMBDA r : Alike(r, d), NoDisk)
        near == FirstOf(rows, LAMBDA r : Distance(r, d) <= 4 /\
                    \A i \in DOMAIN rows : Distance(r, d) <= Distance(rows[i], d), NoDisk)
    IN  IF same # NoDisk THEN same ELSE IF like # NoDisk THEN like ELSE near

\* _find_storage_physical_disk: by unique id, else by model and size.
StoragePhysical(rows, d, a) ==
    LET same == FirstOf(rows, LAMBDA r : a.storage = "all" /\ r.id = d.id, NoDisk)
    IN  IF same # NoDisk THEN same
        ELSE FirstOf(rows, LAMBDA r : r.model = d.model /\ r.size = d.size, NoDisk)

\* _classify_disk_type_from_storage_metadata; "" leaves the disk out of the
\* types by index.
MappedType(rows, d, a) ==
    LET row == StoragePhysical(rows, d, a)
    IN  IF a.storage = "none" THEN ""
        ELSE IF (IF row = NoDisk THEN d.bus ELSE row.bus) = "NVMe" THEN "NVMe"
        ELSE IF row.media = "Unknown" THEN ""
        ELSE row.media

\* _detect_disk_type_from_physical_drive: the bus, then the seek penalty.
IoctlType(d, a) ==
    IF ~a.ioctl THEN "Unknown" ELSE IF d.bus = "NVMe" THEN "NVMe" ELSE d.media

\* _infer_disk_type: every fixed disk's MediaType reads "Fixed hard disk media".
InferredType(matched, d) ==
    IF matched.media # "Unknown" THEN matched.media
    ELSE IF {"nvme", "ssd"} \cap d.model # {} THEN "SSD"
    ELSE "HDD"

\* A wrong variant: what is inferred comes before what is known.
MatchFirst(mapped, ioctl, inferred) == inferred

\* The precedence of _build_disk_info: the storage map, DeviceIoControl when
\* the map has nothing, and what can be inferred.
DiskType(mapped, ioctl, inferred) ==
    LET known == IF mapped # "" THEN mapped ELSE ioctl
    IN  IF known = "NVMe" THEN "SSD"
        ELSE IF known \in {"SSD", "HDD"} THEN known
        ELSE inferred

\* _infer_bus_type: an NVMe disk's interface is called SCSI.
InferredBus(matched, d) ==
    IF matched.bus # "Unknown" THEN matched.bus
    ELSE IF "nvme" \in d.model THEN "NVMe"
    ELSE "SATA"

\* _build_disk_info
DiskRow(rows, d, a) ==
    LET matched == BestPhysical(rows, d, a)
        mapped == MappedType(rows, d, a)
        ioctl == IF mapped = "" THEN IoctlType(d, a) ELSE "Unknown"
    IN  [id |-> d.id,
         type |-> DiskType(mapped, ioctl, InferredType(matched, d)),
         bus |-> IF "NVMe" \in {mapped, ioctl} THEN "NVMe" ELSE InferredBus(matched, d)]

\* _build_disk_info_from_physical
PhysicalRow(d) == [id |-> d.id, type |-> d.media, bus |-> d.bus]

Fixed(disks) == Those(disks, {d \in Range(disks) : d.bus # "USB"})

\* _get_disks: the drives that are not removable or, when there are none, all
\* the physical disks.
DisksSeen(pc, a) ==
    LET rows == PhysicalRows(pc.disks, a)
        fixed == IF a.drives THEN Fixed(pc.disks) ELSE <<>>
    IN  IF fixed # <<>> THEN [i \in DOMAIN fixed |-> DiskRow(rows, fixed[i], a)]
        ELSE [i \in DOMAIN rows |-> PhysicalRow(rows[i])]

\* _disk_summary_category
Category(row) ==
    IF row.bus = "NVMe" THEN "NVMe"
    ELSE IF row.type \in {"SSD", "HDD"} THEN row.type
    ELSE "Unknown"

\* _disk_type_summaries: how many disks of each category.
Summaries(rows) ==
    [c \in {"NVMe", "SSD", "HDD", "Unknown"} |->
        Cardinality({i \in DOMAIN rows : Category(rows[i]) = c})]

=============================================================================
