----------------------------- MODULE MCDevices ------------------------------
(***************************************************************************)
(* Instances for the service host, the platform bus and the drivers.       *)
(***************************************************************************)
EXTENDS ServiceHost, PlatformBus, Ehci, Virtio, Hid, Runtime

\* The programs of an image and what they ask of the service host.
MCProgram ==
    [platform_bus |-> << <<"register", "bus_driver">>, <<"register", "device_driver">>,
                         <<"register", "inspect">> >>,
     usb_bus_ehci |-> << <<"subscribe", "bus_driver">>, <<"subscribe", "device_driver">> >>,
     virtio_gpu |-> << <<"subscribe", "bus_driver">>, <<"subscribe", "device_driver">> >>,
     fb_console |-> << <<"yield">>, <<"subscribe", "device_driver">>, <<"event">>,
                       <<"subscribe", "inspect">> >>,
     hello_world |-> << <<"register", "hello_world">> >>]

\* Manifests that list the platform bus before the programs that need it.
MCManifests ==
    { names \in [1 .. 5 -> DOMAIN MCProgram] :
        /\ \A i, j \in 1 .. 5 : i # j => names[i] # names[j]
        /\ \A i, j \in 1 .. 5 :
             names[i] = "platform_bus" /\ names[j] \notin {"platform_bus", "hello_world"} => i < j }

\* Two USB controllers, one of which two drivers would take, with a device each;
\* both of these are registered under the same name, as each controller numbers its
\* devices from the same address on.
MCDevice(id, name, properties, parent) ==
    [id |-> id, name |-> name, properties |-> properties, parent |-> parent]

MCKernelDevices ==
    { MCDevice("c1", "pci-1", "class" :> "usb" @@ "interface" :> "ehci", "kernel"),
      MCDevice("c2", "pci-2", "class" :> "usb" @@ "interface" :> "xhci", "kernel") }

MCBusDevices ==
    MCKernelDevices
    \cup { MCDevice("u1", "usb-0.127", "usb.class" :> 0 @@ "config0" :> "keyboard", "c1"),
           MCDevice("u2", "usb-0.127", "usb.class" :> 0 @@ "config0" :> "disk", "c2") }

\* The order of the names.
MCNames == <<"pci-1", "pci-2", "usb-0.127">>
MCBefore(a, b) == \E i, j \in DOMAIN MCNames : MCNames[i] = a /\ MCNames[j] = b /\ i < j

MCDeviceDrivers == {"ehci", "usb", "hid"}
MCBusDrivers == {"ehci", "usb"}

MCFilters ==
    [ehci |-> { All({Matches("class", "usb"), Matches("interface", "ehci")}) },
     usb |-> { Matches("interface", "ehci"), Matches("interface", "xhci") },
     hid |-> { All({Matches("usb.class", 0)}) }]

MCSupports(driver_name, properties) ==
    driver_name = "hid" =>
        "config0" \in DOMAIN properties /\ properties["config0"] = "keyboard"

\* Ports with two high-speed devices, one for a companion controller by its line
\* and one after a reset, and one with nothing.
MCAttached(p) == <<"high", "low", "full", "none", "high">>[p]
MCRequests(p) ==
    CASE p = 1 -> <<"interface", "endpoint", "report">>
      [] p = 5 -> <<"descriptor", "configuration">>
      [] OTHER -> <<>>

MCKindOf(o) == <<"channel", "event", "interrupt">>[o]

-----------------------------------------------------------------------------
\* HID devices: what their report descriptor says, as bytes and as a layout.

HidPadding(bits) ==
    [kind |-> "padding", bits |-> bits, signed |-> FALSE, page |-> 0, usage |-> 0]
HidVariable(bits, signed, page, usage) ==
    [kind |-> "variable", bits |-> bits, signed |-> signed, page |-> page, usage |-> usage]
HidElement(bits, page, usage) ==
    [kind |-> "array", bits |-> bits, signed |-> FALSE, page |-> page, usage |-> usage]
HidConfig(class, protocol, endpoint) ==
    << [kind |-> "configuration", class |-> 0, protocol |-> 0, number |-> 1],
       [kind |-> "interface", class |-> class, protocol |-> protocol, number |-> 0],
       [kind |-> "endpoint", class |-> 0, protocol |-> 0, number |-> endpoint] >>

\* Eight modifiers, a byte of padding and an array of two keys.
Keyboard ==
    [config |-> HidConfig(3, 1, 1),
     descriptor |-> <<5, 1, 9, 6, 161, 1, 5, 7, 25, 224, 41, 231, 21, 0, 37, 1, 117, 1, 149, 8,
                      129, 2, 149, 1, 117, 8, 129, 1, 149, 2, 117, 8, 21, 0, 37, 101, 5, 7, 25, 0,
                      41, 101, 129, 0, 192>>,
     layout |-> [i \in 1 .. 8 |-> HidVariable(1, FALSE, 7, 223 + i)]
                  \o <<HidPadding(8), HidElement(8, 7, 0), HidElement(8, 7, 0)>>,
     reports |-> { <<m, 0, a, b>> : m \in {0, 34}, a \in {0, 4, 5}, b \in {0, 1, 5, 6} }]

\* Three buttons and two signed axes.
Mouse ==
    [config |-> HidConfig(3, 2, 1),
     descriptor |-> <<5, 1, 9, 2, 161, 1, 9, 1, 161, 0, 5, 9, 25, 1, 41, 3, 21, 0, 37, 1, 149, 3,
                      117, 1, 129, 2, 149, 1, 117, 5, 129, 1, 5, 1, 9, 48, 9, 49, 21, 129, 37, 127,
                      117, 8, 149, 2, 129, 6, 192, 192>>,
     layout |-> [i \in 1 .. 3 |-> HidVariable(1, FALSE, 9, i)]
                  \o <<HidPadding(5), HidVariable(8, TRUE, 1, 48), HidVariable(8, TRUE, 1, 49)>>,
     reports |-> { <<m, a, b>> : m \in {0, 1, 5}, a \in {0, 1, 255}, b \in {0, 127, 128} }]

\* An axis, a variable whose usage is unknown, and a wheel.
Panning ==
    [config |-> HidConfig(3, 0, 2),
     descriptor |-> <<5, 1, 9, 48, 21, 129, 37, 127, 117, 8, 149, 1, 129, 6, 5, 12, 10, 56, 2,
                      129, 6, 5, 1, 9, 56, 129, 6>>,
     layout |-> <<HidVariable(8, TRUE, 1, 48), HidVariable(8, TRUE, 12, 568),
                  HidVariable(8, TRUE, 1, 56)>>,
     reports |-> { <<a, b, c>> : a \in {0, 255}, b \in {0, 2}, c \in {0, 1} }]

\* Axes of half a byte and of two bytes.
Stick ==
    [config |-> HidConfig(3, 0, 1),
     descriptor |-> <<5, 1, 9, 48, 9, 49, 21, 0, 37, 15, 117, 4, 149, 2, 129, 2, 22, 1, 128, 38,
                      255, 127, 117, 16, 149, 1, 9, 50, 129, 2>>,
     layout |-> <<HidVariable(4, FALSE, 1, 48), HidVariable(4, FALSE, 1, 49),
                  HidVariable(16, TRUE, 1, 50)>>,
     reports |-> { <<a, b, c>> : a \in {1, 240, 255}, b \in {0, 255}, c \in {0, 128, 255} }]

\* Buttons as an array, where a report may select one that is no key.
Pad ==
    [config |-> HidConfig(3, 0, 1),
     descriptor |-> <<5, 9, 25, 0, 41, 5, 21, 0, 37, 5, 117, 8, 149, 2, 129, 0>>,
     layout |-> <<HidElement(8, 9, 0), HidElement(8, 9, 0)>>,
     reports |-> { <<a, b>> : a \in {1, 9}, b \in {0, 9} }]

NoHid == [config |-> HidConfig(8, 0, 1), descriptor |-> <<>>, layout |-> <<>>, reports |-> {}]

\* Devices with report ids, and with a reserved item.
Unsupported(item) ==
    [config |-> HidConfig(3, 0, 1), descriptor |-> <<5, 1>> \o item, layout |-> <<>>, reports |-> {}]

MCHidDevices ==
    {Keyboard, Mouse, Panning, Stick, Pad, NoHid} \cup { Unsupported(item) : item \in { <<133, 1>>, <<208>> } }
=============================================================================
