----------------------------- MODULE PlatformBus -----------------------------
\* The platform bus (user/platform_bus/src): bus drivers register devices, device
\* drivers register filters, and the bus asks every driver with a matching filter
\* whether it can drive a device and hands the device to the first one that says
\* yes. Every client is served by a future of its own; a future runs from one
\* message to the next without a pause, and the messages of different clients are
\* met in any order. The drivers are those of the repository: a query is answered
\* when it is read, and a device that is handed over may register devices of its
\* own (a controller its USB devices, a USB device an input device, a GPU its
\* framebuffer).
EXTENDS Naturals, Sequences, FiniteSets, TLC

CONSTANTS
    DeviceDrivers,  \* the tasks that drive devices
    BusDrivers,     \* those of them that register devices, too
    Filters,        \* the filters each of them registers
    Supports(_, _), \* whether a driver answers a query for some properties with yes
    BusDevices,     \* every device there may be: a name, properties, and its parent
    KernelDevices,  \* the devices enumerate_pci_devices finds
    Before(_, _),   \* whether a name comes before another one
    MaxDevices      \* how many devices there may be

VARIABLES
    devices,   \* the map of the bus: name -> device and claim
    clients,   \* the channels whose NewClient message the bus has read
    filters,   \* of the drivers that have registered them
    fromBus,   \* the RegisterDevice messages each bus driver has sent
    toBus,     \* the queue from each device driver
    toDriver,  \* the queue to each device driver
    driving    \* the devices that were handed to each driver

bvars == <<devices, clients, filters, fromBus, toBus, toDriver, driving>>

None == "none"

\* A device that is not found by the kernel is registered by the driver of the
\* device it hangs off, and by no other.
ASSUME BusAssumption ==
    /\ None \notin DeviceDrivers /\ BusDrivers \subseteq DeviceDrivers
    /\ KernelDevices \subseteq BusDevices
    /\ \A x, y \in BusDevices : x.id = y.id => x = y
    /\ \A x \in KernelDevices, y \in BusDevices : x.parent # y.id
    /\ MaxDevices \in Nat /\ Cardinality(BusDevices) <= MaxDevices

\* The sequences that hold each element of a set once.
Listings(S) ==
    UNION { { s \in [1 .. n -> S] : \A i, j \in DOMAIN s : i # j => s[i] # s[j] } :
              n \in { k \in 0 .. MaxDevices : k = Cardinality(S) } }

PlatformBusInit ==
    /\ devices = <<>>
    /\ clients = {}
    /\ filters = <<>>
    /\ fromBus = [d \in DeviceDrivers |-> <<>>]
    /\ toBus = [d \in DeviceDrivers |-> <<>>]
    /\ toDriver = [d \in DeviceDrivers |-> <<>>]
    /\ driving = [d \in DeviceDrivers |-> {}]

-----------------------------------------------------------------------------
\* Filters. A property is absent or has one value.

Matches(property, value) == [kind |-> "Matches", property |-> property, value |-> value]
All(fs) == [kind |-> "All", of |-> fs]

match_one(f, properties) ==
    f.property \in DOMAIN properties /\ properties[f.property] = f.value

match_against(f, properties) ==
    IF f.kind = "Matches" THEN match_one(f, properties)
    ELSE \A g \in f.of : match_one(g, properties)

-----------------------------------------------------------------------------
\* The bus.

Unclaimed(device) == [device |-> device, by |-> None]
Claimed(device, driver) == [device |-> device, by |-> driver]

register_device(ds, device) ==
    [name \in DOMAIN ds \cup {device.name} |->
        IF name = device.name THEN Unclaimed(device) ELSE ds[name]]

\* The devices check_devices asks a driver about: those that are not claimed and
\* match any of its filters.
Asked(ds, fs, d) ==
    { name \in DOMAIN ds :
        /\ ds[name].by = None
        /\ d \in DOMAIN fs
        /\ \E f \in fs[d] : match_against(f, ds[name].device.properties) }

\* The queries go out in the order of the names.
InOrder(names) ==
    { s \in Listings(names) : \A i, j \in DOMAIN s : i < j => Before(s[i], s[j]) }

check_devices(ds, fs) ==
    \E lists \in { [d \in DeviceDrivers |-> InOrder(Asked(ds, fs, d))] } :
    \E names \in [DeviceDrivers -> UNION { lists[d] : d \in DeviceDrivers }] :
        /\ \A d \in DeviceDrivers : names[d] \in lists[d]
        /\ toDriver' = [d \in DeviceDrivers |->
               toDriver[d] \o [i \in DOMAIN names[d] |->
                   [kind |-> "QuerySupport", name |-> names[d][i],
                    device |-> ds[names[d][i]].device]]]

\* The devices of the buses the bus enumerates itself, before it serves anyone.
EnumeratePci ==
    /\ devices = <<>> /\ KernelDevices # {}
    /\ devices' = [name \in { x.name : x \in KernelDevices } |->
                     Unclaimed(CHOOSE x \in KernelDevices : x.name = name)]
    /\ UNCHANGED <<clients, filters, fromBus, toBus, toDriver, driving>>

\* The futures of the two services: a client gets a future that serves it.
NewClient(service, d) ==
    /\ devices # <<>> /\ <<service, d>> \notin clients
    /\ clients' = clients \cup {<<service, d>>}
    /\ UNCHANGED <<devices, filters, fromBus, toBus, toDriver, driving>>

\* The future of a bus driver: RegisterDevice.
RegisterDevice(d) ==
    /\ <<"bus_driver", d>> \in clients /\ fromBus[d] # <<>>
    /\ LET ds == register_device(devices, Head(fromBus[d]))
       IN devices' = ds /\ check_devices(ds, filters)
    /\ fromBus' = [fromBus EXCEPT ![d] = Tail(@)]
    /\ UNCHANGED <<clients, filters, toBus, driving>>

\* Mutant: drivers are asked when a device appears, not when they do.
set_filters_quietly(d, fs) ==
    filters' = (d :> fs) @@ filters /\ UNCHANGED toDriver

\* RegisterInterest counts once; either way the devices are checked.
set_filters(d, fs) ==
    /\ filters' = filters @@ (d :> fs)
    /\ check_devices(devices, filters')

\* Mutant: a device that was handed over is handed over again.
claims_always(d, name) == devices[name].by # "nobody"

\* CanSupport(name, true) of a driver takes effect.
claims(d, name) == devices[name].by = None

\* The future of a device driver.
ServeDriver(d) ==
    /\ <<"device_driver", d>> \in clients /\ toBus[d] # <<>>
    /\ toBus' = [toBus EXCEPT ![d] = Tail(@)]
    /\ LET m == Head(toBus[d])
       IN \/ /\ m.kind = "RegisterInterest"
             /\ set_filters(d, m.filters)
             /\ UNCHANGED devices
          \/ /\ m.kind = "CanSupport" /\ m.supported /\ claims(d, m.name)
             /\ devices' = [devices EXCEPT ![m.name] = Claimed(@.device, d)]
             /\ toDriver' = [toDriver EXCEPT ![d] = Append(@,
                    [kind |-> "HandoffDevice", name |-> m.name, device |-> devices[m.name].device])]
             /\ UNCHANGED filters
          \/ /\ m.kind = "CanSupport" /\ ~(m.supported /\ claims(d, m.name))
             /\ UNCHANGED <<devices, filters, toDriver>>
    /\ UNCHANGED <<clients, fromBus, driving>>

-----------------------------------------------------------------------------
\* The drivers.

\* The end of a driver's start-up, once it is subscribed: it registers interest.
RegisterInterest(d) ==
    /\ d \notin DOMAIN filters
    /\ \A i \in DOMAIN toBus[d] : toBus[d][i].kind # "RegisterInterest"
    /\ toBus' = [toBus EXCEPT ![d] = Append(@,
           [kind |-> "RegisterInterest", filters |-> Filters[d]])]
    /\ UNCHANGED <<devices, clients, filters, fromBus, toDriver, driving>>

AnswerQuery(d, m) ==
    /\ m.kind = "QuerySupport"
    /\ toBus' = [toBus EXCEPT ![d] = Append(@,
           [kind |-> "CanSupport", name |-> m.name,
            supported |-> Supports(d, m.device.properties)])]
    /\ UNCHANGED <<driving, fromBus>>

\* The driver starts to drive the device, and registers the ones it leads to.
StartDriving(d, m) ==
    /\ m.kind = "HandoffDevice"
    /\ driving' = [driving EXCEPT ![d] = @ \cup {m.device}]
    /\ LET below == { x \in BusDevices : x.parent = m.device.id }
       IN \E s \in Listings(below) : fromBus' = [fromBus EXCEPT ![d] = @ \o s]
    /\ UNCHANGED toBus

DriverReceives(d) ==
    /\ toDriver[d] # <<>>
    /\ toDriver' = [toDriver EXCEPT ![d] = Tail(@)]
    /\ LET m == Head(toDriver[d]) IN AnswerQuery(d, m) \/ StartDriving(d, m)
    /\ UNCHANGED <<devices, clients, filters>>

\* A future that has a message to read reads it.
FutureReads ==
    \E d \in DeviceDrivers : RegisterDevice(d) \/ ServeDriver(d) \/ DriverReceives(d)

PlatformBusNext ==
    \/ EnumeratePci
    \/ \E d \in BusDrivers : NewClient("bus_driver", d)
    \/ \E d \in DeviceDrivers : NewClient("device_driver", d) \/ RegisterInterest(d)
    \/ FutureReads

PlatformBusSpec == PlatformBusInit /\ [][PlatformBusNext]_bvars

-----------------------------------------------------------------------------
\* Properties.

\* The device is on its way to d, or d drives it.
GivenTo(x, d) ==
    \/ x \in driving[d]
    \/ \E i \in DOMAIN toDriver[d] :
         toDriver[d][i].kind = "HandoffDevice" /\ toDriver[d][i].device = x

\* A device is given to one driver at most, whatever order the answers come in
\* and however often a driver was asked; it is given to nobody while the bus
\* holds it as unclaimed, and to its claimant when it is claimed.
HandedOffOnce ==
    /\ \A x \in BusDevices : \A d, e \in DeviceDrivers : GivenTo(x, d) /\ GivenTo(x, e) => d = e
    /\ \A name \in DOMAIN devices : \A d \in DeviceDrivers :
         GivenTo(devices[name].device, d) <=> devices[name].by = d

\* A driver that has registered its filters would take this device.  One of the
\* filters is enough for check_devices, although the documentation of the message
\* RegisterInterest asks that "all of the `Filter`s must be fulfilled".
Wanted(x) ==
    \E d \in DOMAIN filters :
        Supports(d, x.properties) /\ \E f \in filters[d] : match_against(f, x.properties)

\* The devices whose registration the bus has read.
Registered ==
    { x \in BusDevices :
        \/ x \in KernelDevices /\ devices # <<>>
        \/ \E d \in DeviceDrivers : /\ \E y \in driving[d] : y.id = x.parent
                                   /\ \A i \in DOMAIN fromBus[d] : fromBus[d][i] # x }

\* Another device was registered under the name of this one, which the bus then
\* forgot.
Replaced(x) == devices[x.name].device # x

\* Time and again every device that was ever registered and that a driver would
\* take has been given to a driver, unless a device of the same name has replaced
\* it: check_devices runs at every change that can make a match, whichever of the
\* device and the driver comes first, and no answer is forgotten.
WantedDevicesClaimed ==
    []<>(\A x \in Registered :
            Wanted(x) => Replaced(x) \/ \E d \in DeviceDrivers : GivenTo(x, d))

=============================================================================
