----------------------------- MODULE MCSetupApp -----------------------------
(* Setup of an application by the jobs of one workflow, on small instances. *)
EXTENDS SetupApp, TLC

MCMachines ==
    [platform : {"linux"}, arch : {"x64", "ia32"}]
        \cup [platform : {"win32", "freebsd"}, arch : {"x64"}]

MCWorkflows ==
    [preset : {"werf"}, url : {NoUrl}, channel : {NoChannel}, force : {TRUE}]
        \cup [preset : {"unknown"}, url : {NoUrl, PresetUrl}, channel : Channels,
              force : {FALSE}]
        \cup [preset : {"mistyped"}, url : {NoUrl}, channel : {NoChannel}, force : {TRUE}]
=============================================================================
