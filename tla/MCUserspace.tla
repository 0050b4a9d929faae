----------------------------- MODULE MCUserspace -----------------------------
(***************************************************************************)
(* The programs of userspace and the tools, side by side.  They share no   *)
(* state (`focus` says which a behaviour is about), so the states to       *)
(* explore are the sum of those of the parts.                              *)
(***************************************************************************)
EXTENDS MCGinkgo, MCDevices, MCFormats, MCConsole, MCPci

VARIABLE focus

uvars == <<focus, hvars, bvars, pcivars, evars, qvars, dvars, rvars, cvars, gvars, pvars, tvars,
           fvars>>

Parts == {"host", "bus", "pci", "ehci", "virtio", "hid", "runtime", "console", "ginkgo", "ptah",
          "toml", "tftp"}

MCInit ==
    /\ focus \in Parts
    /\ HostInit /\ PlatformBusInit /\ PciInit /\ EhciInit /\ VirtioInit /\ HidInit /\ RuntimeInit
    /\ ConsoleInit /\ GinkgoInit /\ PtahInit /\ TomlInit /\ TftpInit

\* Only the part in focus takes a step.
Only(part) ==
    /\ focus = part /\ focus' = part
    /\ part # "host" => UNCHANGED hvars
    /\ part # "bus" => UNCHANGED bvars
    /\ part # "pci" => UNCHANGED pcivars
    /\ part # "ehci" => UNCHANGED evars
    /\ part # "virtio" => UNCHANGED qvars
    /\ part # "hid" => UNCHANGED dvars
    /\ part # "runtime" => UNCHANGED rvars
    /\ part # "console" => UNCHANGED cvars
    /\ part # "ginkgo" => UNCHANGED gvars
    /\ part # "ptah" => UNCHANGED pvars
    /\ part # "toml" => UNCHANGED tvars
    /\ part # "tftp" => UNCHANGED fvars

MCNext ==
    \/ Only("host") /\ HostNext
    \/ Only("bus") /\ PlatformBusNext
    \/ Only("pci") /\ PciNext
    \/ Only("ehci") /\ EhciNext
    \/ Only("virtio") /\ VirtioNext
    \/ Only("hid") /\ HidNext
    \/ Only("runtime") /\ RuntimeNext
    \/ Only("console") /\ ConsoleNext
    \/ Only("ginkgo") /\ GinkgoNext
    \/ Only("ptah") /\ PtahNext
    \/ Only("toml") /\ TomlNext
    \/ Only("tftp") /\ TftpNext

\* The kernel schedules every task, and every turn of these programs ends in a
\* yield: the tasks around the service host, the futures of the platform bus and of
\* its clients whose channels have messages, the EHCI driver and the program of the
\* runtime go on. The kernel also delivers interrupts; nothing is assumed of devices
\* and of whoever signals.
Programs ==
    \/ Only("host") /\ HostNext
    \/ Only("bus") /\ FutureReads
    \/ Only("ehci") /\ DriverStep
    \/ Only("runtime") /\ ProgramStep

MCSpec ==
    /\ MCInit /\ [][MCNext]_uvars
    /\ WF_uvars(Programs) /\ WF_uvars(Only("ehci") /\ DeliverInterrupt)
=============================================================================
