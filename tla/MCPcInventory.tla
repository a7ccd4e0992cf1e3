---------------------------- MODULE MCPcInventory ----------------------------
(***************************************************************************)
(* An instance of PcInventory for TLC: disks of equal size and of equal    *)
(* model, graphics adapters of every kind, wired and wireless adapters in  *)
(* every condition, programs older and newer than what is published.       *)
(***************************************************************************)
EXTENDS PcInventory

Disk(id, model, size, bus, media) ==
    [id |-> id, model |-> model, size |-> size, bus |-> bus, media |-> media]

Gpu(kind, memory) == [kind |-> kind, memory |-> memory]

Pc(build, tpm, gpus, disks) ==
    [build |-> build, boot |-> IF tpm THEN "UEFI" ELSE "Legacy/BIOS",
     secureBoot |-> tpm, tpm |-> tpm, gpus |-> gpus, disks |-> disks]

Stick(id) == Disk(id, {"stick"}, 28, "USB", "SSD")

MCHardware ==
    {Pc(22631, TRUE, <<Gpu("virtual", 0), Gpu("real", 2), Gpu("real", 8)>>,
        <<Disk(1, {"pro", "nvme", "ssd"}, 476, "NVMe", "SSD"),
          Disk(2, {"pro", "ssd"}, 477, "SATA", "SSD"), Stick(3)>>),
     Pc(19045, FALSE, <<Gpu("basic", 0), Gpu("software", 0)>>,
        <<Disk(1, {"plain"}, 477, "SATA", "SSD"),
          Disk(2, {"nvme", "ssd"}, 476, "NVMe", "SSD")>>),
     Pc(26100, FALSE, <<Gpu("virtual", 1)>>,
        <<Disk(1, {"disk"}, 931, "SATA", "HDD"),
          Disk(2, {"bare"}, 931, "NVMe", "SSD"), Disk(3, {"disk"}, 931, "SATA", "HDD")>>),
     Pc(19045, TRUE, <<>>, <<Disk(1, {"bare"}, 476, "NVMe", "SSD")>>),
     Pc(22631, TRUE, <<Gpu("real", 0)>>, <<Stick(1)>>)}

Adapter(id, kind, up, ip, gateway4, gateway6, metric, named, dhcp, dns) ==
    [id |-> id, kind |-> kind, up |-> up, ip |-> ip, gateway4 |-> gateway4,
     gateway6 |-> gateway6, metric |-> metric, named |-> named, dhcp |-> dhcp, dns |-> dns]

Wired == Adapter(1, "Ethernet", TRUE, "valid", TRUE, FALSE, 25, TRUE, FALSE, {"static"})
Wireless == Adapter(2, "Wi-Fi", TRUE, "valid", TRUE, TRUE, 10, TRUE, TRUE, {"static", "leased"})
Second == Adapter(3, "Ethernet", TRUE, "valid", TRUE, FALSE, 5, FALSE, TRUE, {"leased"})
Automatic == Adapter(4, "Ethernet", TRUE, "valid", TRUE, FALSE, 0, TRUE, TRUE, {"leased"})
LinkLocal == Adapter(5, "Ethernet", TRUE, "linklocal", FALSE, TRUE, 1, TRUE, TRUE, {})
Unplugged == Adapter(6, "Ethernet", FALSE, "none", FALSE, FALSE, 5, TRUE, TRUE, {})
Switch == Adapter(7, "virtual", TRUE, "valid", TRUE, FALSE, 1, TRUE, FALSE, {})
Leftover == Adapter(8, "Ethernet", TRUE, "valid", TRUE, FALSE, 20, TRUE, FALSE, {"leased"})

MCNetworks ==
    {{Wired, Wireless, Switch}, {Wired, Second, Automatic}, {Wireless, Second},
     {LinkLocal, Wireless}, {Unplugged, Switch}, {Unplugged, Wireless}, {Automatic, Leftover}}

\* Dates and versions, digit by digit.
D(a, b, c, d, e, f) == <<a, b, c, d, e, f>>
Build(a, b, c, d, e) == <<<<1>>, <<7>>, <<a, b, c, d, e>>, <<0>>>>

Program(id, file, version, history, entries, release, published) ==
    [id |-> id, file |-> file, version |-> version, history |-> history,
     entries |-> entries, release |-> release, published |-> published]

Old == <<D(2, 3, 0, 2, 0, 8)>>
New == <<D(2, 4, 0, 6, 1, 8)>>

MCPrograms ==
    {Program("chrome", TRUE, v, NoVersion, <<>>, v, w) :
        v \in {<<<<9>>, <<1, 0>>>>, <<<<1, 0>>>>, <<<<1, 0>>, <<0>>, <<1>>>>, <<<<0>>, <<0>>>>},
        w \in {<<<<1, 0>>, <<0>>>>, <<<<9>>, <<9>>, <<1>>>>}} \cup
    {Program("bandizip", file, v, NoVersion, <<>>, v, w) : file \in BOOLEAN,
        v \in {<<<<7>>, <<3, 6>>, <<1>>>>, <<<<7>>, <<9>>>>},
        w \in {<<<<7>>, <<3, 6>>, <<2>>>>, <<<<7>>, <<1, 0>>>>}} \cup
    {Program("potplayer", file, v, h, <<<<<<1>>, <<7>>>>, Old>>, Old, New) : file \in BOOLEAN,
        v \in {Old, Build(2, 2, 3, 1, 9), Build(2, 1, 2, 1, 2)}, h \in {Old, NoVersion}} \cup
    {Program("potplayer", TRUE, New, NoVersion, <<>>, New, New)}

MCBrowsers ==
    {[default |-> f, others |-> <<>>] :
        f \in {<<>>, <<2, 1>>, <<1, Denied, 3, 1>>, <<2, 2, 2, 2>>, <<9>>, <<Denied, 4>>}} \cup
    {[default |-> <<1>>, others |-> <<<<>>>>]}

Entry(name, version, kind, edition) ==
    [name |-> name, version |-> version, kind |-> kind, office |-> edition]

MCRoots ==
    {<<<<>>, <<>>, <<>>>>,
     <<<<Entry(2, 1, "shown", "none"), Entry(1, 1, "system", "other")>>,
       <<Entry(2, 2, "shown", "none"), Entry(1, 2, "shown", "2024")>>,
       <<Entry(3, 3, "shown", "365"), Entry(2, 3, "shown", "none")>>>>}

MCTypical ==
    [hardware |-> CHOOSE h \in MCHardware : h.build = 22631,
     adapters |-> {Wired, Wireless, Switch},
     program |-> CHOOSE p \in MCPrograms : p.published = New /\ p.history = Old,
     browser |-> [default |-> <<2, 1>>, others |-> <<>>],
     roots |-> CHOOSE r \in MCRoots : r[1] # <<>>]

=============================================================================
