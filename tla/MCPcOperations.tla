--------------------------- MODULE MCPcOperations ---------------------------
(***************************************************************************)
(* An instance of PcOperations for TLC: a PC never set up and one set up   *)
(* by someone else; the operations make the others.                        *)
(***************************************************************************)
EXTENDS PcOperations

Pc(bin, never, task, shortcut, data, office) ==
    [bin |-> bin, never |-> never, task |-> task, shortcut |-> shortcut,
     data |-> [b \in Browsers |-> data], office |-> office]

MCInitialPcs ==
    {Pc("items", {}, "absent", "absent", "history", "none"),
     Pc("items", {"standby-ac"}, "wrong", "other", "small", "other")}

=============================================================================
