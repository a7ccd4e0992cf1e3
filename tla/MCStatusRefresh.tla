-------------------------- MODULE MCStatusRefresh --------------------------
(***************************************************************************)
(* StatusRefresh for TLC: two settings, one of them for Windows 11 only,   *)
(* and two PC checks, both with a card, in pools of two threads.           *)
(***************************************************************************)
EXTENDS StatusRefresh

VisibleOn11 == <<"win11_hide_recent_apps", "set_taskbar_icons">>
VisibleOn10 == <<"set_taskbar_icons">>

VisibleLists == {VisibleOn11, VisibleOn10}

ChecksInOrder == <<"auto_shutdown_schedule", "office_install">>

Raising == {"set_taskbar_icons", "auto_shutdown_schedule"}
=============================================================================
