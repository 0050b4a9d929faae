-------------------------------- MODULE MCPci --------------------------------
(***************************************************************************)
(* Machines with a host bridge, a card with three regions and a disk with  *)
(* a 64-bit one and different ways to interrupt, over bridge windows that  *)
(* are large enough and too small; a machine with nothing, with a bridge,  *)
(* with two buses, and with a region of ports.                             *)
(***************************************************************************)
EXTENDS Pci, TLC

PciFunction(header, multi, bars, capabilities, pin) ==
    [header |-> header, multi |-> multi,
     bars |-> bars \o [i \in 1 .. MAX_BARS - Len(bars) |-> NoBar],
     capabilities |-> capabilities, pin |-> pin]

PciRegion(kind, size) == [kind |-> kind, size |-> size]
PciWindow(space, base, size) == [space |-> space, base |-> base, size |-> size]

PciHostBridge(multi) == PciFunction("endpoint", multi, <<>>, <<>>, 0)

PciCard(size) ==
    PciFunction("endpoint", TRUE,
                <<PciRegion("mem32", 1), PciRegion("mem32", size), NoBar, PciRegion("mem32", 1)>>,
                <<>>, 1)

PciDisk(capabilities, pin) ==
    PciFunction("endpoint", FALSE,
                <<PciRegion("mem32", 2), PciRegion("mem64", 2), PciRegion("upper", 0)>>,
                capabilities, pin)

PciCapabilities ==
    { <<>>, <<[kind |-> "other"], [kind |-> "msi"]>>,
      <<[kind |-> "msix", table |-> 1]>>, <<[kind |-> "msix", table |-> 3]>> }

PciWindows ==
    { <<PciWindow("io", 0, 4), PciWindow("mem32", 8, 16), PciWindow("mem64", 32, 8)>>,
      <<PciWindow("mem32", 8, 2), PciWindow("mem32", 16, 8), PciWindow("mem64", 32, 8)>> }

PciOddities ==
    { <<>>,
      (<<0, 0, 0>> :> PciHostBridge(TRUE))
        @@ (<<1, 0, 0>> :> PciFunction("endpoint", FALSE, <<PciRegion("mem32", 2)>>, <<>>, 2)),
      <<0, 1, 0>> :> PciFunction("bridge", FALSE, <<>>, <<>>, 0),
      <<0, 0, 0>> :> PciFunction("endpoint", FALSE, <<PciRegion("io", 1)>>, <<>>, 0) }

MCPciMachines ==
    { [ranges |-> windows,
       functions |-> (<<0, 0, 0>> :> PciHostBridge(FALSE)) @@ (<<0, 1, 0>> :> PciCard(size))
                       @@ (<<0, 1, 1>> :> PciDisk(capabilities, pin))] :
      windows \in PciWindows, size \in {1, 4}, capabilities \in PciCapabilities, pin \in {0, 1, 5} }
    \cup { [ranges |-> <<PciWindow("mem32", 8, 8)>>, functions |-> fs] : fs \in PciOddities }
=============================================================================
