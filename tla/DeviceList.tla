----------------------------- MODULE DeviceList -----------------------------
(***************************************************************************)
(* The scanners a frontend's process knows, from sane_init to sane_exit    *)
(* and again: usbDevs, what the bus has and the backend supports; the      *)
(* sections of plustek.conf, each of which is to attach one of them; the   *)
(* list first_dev of those attached; and the handles opened on them, with  *)
(* the file descriptor that a scan keeps in the device, not in the handle. *)
(*                                                                         *)
(* Scanners come and go at any time.  A device may be one the backend      *)
(* cannot tell: of a known product, with a board it has no settings for.   *)
(* How a scan runs is ScanSession's, and what a device is used for without *)
(* a scan is DeviceUse's; the lock of sanei_access.c is DeviceUse's too.   *)
(***************************************************************************)
EXTENDS UsbTable

CONSTANTS
    Settings,     \* the models of the table, which may stand there twice
    Aliens,       \* addresses of devices with an unknown board
    Configs,      \* files: of each section the model or "any", and the device's name
    Handles,
    MaxInits,     \* bound: calls of sane_init
    MaxPlugs,     \* bound: changes of the bus
    Faults,       \* of {"open", "detect"}: a device may fail at either
    Shared        \* may a device be opened by two handles?

ASSUME DeviceListAssumption ==
    /\ Len(Settings) \in Nat /\ DOMAIN Settings = 1 .. Len(Settings)
    /\ \A file \in Configs : Len(file) \in Nat /\ DOMAIN file = 1 .. Len(file)
    /\ Aliens \subseteq Addresses
    /\ Faults \subseteq {"open", "detect"}
    /\ MaxInits \in Nat /\ MaxPlugs \in Nat
    /\ Shared \in BOOLEAN

VARIABLES
    config,      \* plustek.conf
    at,          \* "down", between sane_init and sane_exit "up", or "init"
    section,     \* the section sane_init is at
    usbDevs,     \* name, and whether it was attached
    devs,        \* first_dev: name, id and fd
    hw,          \* the name of a handle's device, 0 for a closed one
    scanning,    \* handles
    failed,      \* something failed since sane_init was called
    inits, plugs

lists   == <<usbDevs, devs>>
handles == <<hw, scanning>>
bounds  == <<inits, plugs>>
vars    == <<usbVars, config, at, section, lists, handles, failed, bounds>>

NoFd == 0
AutoName == 0    \* "auto", the name of no device
NoName == -1     \* the section has no line with a device

Init ==
    /\ UsbInit
    /\ config \in Configs
    /\ at = "down" /\ section = 0
    /\ usbDevs = <<>> /\ devs = <<>>
    /\ hw = [h \in Handles |-> 0]
    /\ scanning = [h \in Handles |-> FALSE]
    /\ failed = FALSE
    /\ inits = 0 /\ plugs = 0

-----------------------------------------------------------------------------

\* Somebody plugs a scanner in, or out.
Plug ==
    /\ plugs < MaxPlugs
    /\ plugs' = plugs + 1
    /\ \E a \in Addresses : bus' = IF a \in bus THEN bus \ {a} ELSE bus \cup {a}
    /\ failed' = TRUE
    /\ UNCHANGED <<devices, config, at, section, lists, handles, inits>>

Unattached(names) ==
    [i \in 1 .. Len(names) |-> [name |-> names[i], attached |-> FALSE]]

\* usbGetList: model by model, each of them once.
Supported(table) ==
    LET Has(list, model) == \E i \in DOMAIN list : Model[list[i].name] = model
        list[n \in 0 .. Len(Settings)] ==
            IF n = 0 THEN <<>>
            ELSE IF Has(list[n - 1], Settings[n]) THEN list[n - 1]
            ELSE list[n - 1] \o Unattached(FoundAs(table, Settings[n]))
    IN  list[Len(Settings)]

\* sane_init up to the configuration file.
SaneInit ==
    /\ at = "down" /\ inits < MaxInits
    /\ inits' = inits + 1
    /\ \E found \in SUBSET bus :
          /\ found = bus \/ "open" \in Faults
          /\ devices' = Scanned(found)
          /\ failed' = (found # bus)
    /\ usbDevs' = Supported(devices')
    /\ devs' = <<>>
    /\ at' = "init" /\ section' = 1
    /\ UNCHANGED <<bus, config, handles, plugs>>

Attached == {devs[i].name : i \in DOMAIN devs}

DevOf(name) == CHOOSE i \in DOMAIN devs : devs[i].name = name

\* Mutant: a device that is attached may be taken again.
EntriesAlsoAttached(sec) ==
    {i \in DOMAIN usbDevs : sec.device = AutoName \/ Model[usbDevs[i].name] = sec.model}

\* usbDev_open looks for the first device that is not attached yet: with the
\* name "auto" any, else one of the model that the section gives.
EntriesFor(sec) ==
    {i \in DOMAIN usbDevs :
        /\ ~usbDevs[i].attached
        /\ sec.device = AutoName \/ Model[usbDevs[i].name] = sec.model}

Marked(i) == [usbDevs EXCEPT ![i].attached = TRUE]

Fits(sec, name) == sec.model \in {"any", Model[name]}

\* attach: what is chosen counts as attached, whatever becomes of it.
AttachGood(sec, i) ==
    LET name == usbDevs[i].name
    IN  /\ CanOpen(name) /\ name \notin Aliens
        /\ Fits(sec, name)
        /\ devs' = <<[name |-> name, id |-> sec.model, fd |-> NoFd]>> \o devs
        /\ UNCHANGED <<devices, failed>>

\* Mutant: a device that does not answer is left open.
AttachFailsOpen(sec, i) ==
    LET name == usbDevs[i].name
    IN  /\ ~CanOpen(name) \/ ~Fits(sec, name) \/ Faults # {}
        /\ failed' = (failed \/ (CanOpen(name) /\ Fits(sec, name)))
        /\ devices' = IF CanOpen(name) THEN Opened(name) ELSE devices
        /\ UNCHANGED devs

AttachFails(sec, i) ==
    LET name == usbDevs[i].name
    IN  /\ ~CanOpen(name) \/ ~Fits(sec, name) \/ Faults # {}
        /\ failed' = (failed \/ (CanOpen(name) /\ Fits(sec, name)))
        /\ UNCHANGED <<devices, devs>>

\* usb_CheckForPlustekDevice returns -1 for a board it does not know, and
\* that is what its caller closes.
AttachAlien(sec, i) ==
    LET name == usbDevs[i].name
    IN  /\ CanOpen(name) /\ name \in Aliens
        /\ Fits(sec, name)
        /\ devices' = Opened(name)
        /\ UNCHANGED <<devs, failed>>

Attach(sec) ==
    IF sec.device \in Attached \cup {NoName} \/ EntriesFor(sec) = {}
    THEN UNCHANGED <<devices, lists, failed>>
    ELSE LET i == Lowest(EntriesFor(sec))
         IN  /\ usbDevs' = Marked(i)
             /\ AttachGood(sec, i) \/ AttachFails(sec, i) \/ AttachAlien(sec, i)

AttachSection ==
    /\ at = "init"
    /\ IF section <= Len(config)
       THEN Attach(config[section]) /\ section' = section + 1 /\ UNCHANGED at
       ELSE at' = "up" /\ section' = 0 /\ UNCHANGED <<devices, lists, failed>>
    /\ UNCHANGED <<bus, config, handles, bounds>>

-----------------------------------------------------------------------------

\* sane_open of a device of the list, or of the first one.
SaneOpen(h) ==
    /\ at = "up" /\ hw[h] = 0
    /\ \E i \in DOMAIN devs :
          /\ Shared \/ \A g \in Handles : hw[g] # devs[i].name
          /\ hw' = [hw EXCEPT ![h] = devs[i].name]
    /\ UNCHANGED <<usbVars, config, at, section, lists, scanning, failed, bounds>>

\* sane_open of "auto" attaches what is left.
SaneOpenAuto(h) ==
    /\ at = "up" /\ hw[h] = 0
    /\ Attach([model |-> "any", device |-> AutoName])
    /\ hw' = IF Len(devs') > Len(devs) THEN [hw EXCEPT ![h] = devs'[1].name] ELSE hw
    /\ UNCHANGED <<bus, config, at, section, scanning, bounds>>

\* usbDev_open on behalf of sane_start: it clears the description of the
\* device first, and its result becomes the device's file descriptor.
SaneStart(h) ==
    /\ at = "up" /\ hw[h] # 0 /\ ~scanning[h]
    /\ LET name == hw[h]
           d == DevOf(name)
       IN  \/ /\ CanOpen(name)
              /\ devices' = Opened(name)
              /\ devs' = [devs EXCEPT ![d].fd = Lowest(SlotsOf(name))]
              /\ scanning' = [scanning EXCEPT ![h] = TRUE]
           \/ /\ ~CanOpen(name) \/ Faults # {}
              /\ devs' = [devs EXCEPT ![d].fd = NoFd]
              /\ UNCHANGED <<devices, scanning>>
    /\ UNCHANGED <<bus, config, at, section, usbDevs, hw, failed, bounds>>

\* drvclose
DrvClose(name) ==
    LET d == DevOf(name)
    IN  /\ devices' = IF devs[d].fd # NoFd THEN Closed(devs[d].fd) ELSE devices
        /\ devs' = [devs EXCEPT ![d].fd = NoFd]

\* The end of the picture, or sane_cancel.
EndScan(h) ==
    /\ scanning[h]
    /\ DrvClose(hw[h])
    /\ scanning' = [scanning EXCEPT ![h] = FALSE]
    /\ UNCHANGED <<bus, config, at, section, usbDevs, hw, failed, bounds>>

\* sane_close closes the device, whoever uses it.
SaneClose(h) ==
    /\ at = "up" /\ hw[h] # 0 /\ ~scanning[h]
    /\ DrvClose(hw[h])
    /\ hw' = [hw EXCEPT ![h] = 0]
    /\ UNCHANGED <<bus, config, at, section, usbDevs, scanning, failed, bounds>>

\* sane_exit, once the handles are closed.  (It opens every device once more,
\* to switch off its lamp.)
SaneExit ==
    /\ at = "up" /\ \A h \in Handles : hw[h] = 0
    /\ at' = "down"
    /\ usbDevs' = <<>> /\ devs' = <<>>
    /\ UNCHANGED <<usbVars, config, section, handles, failed, bounds>>

Next ==
    \/ Plug \/ SaneInit \/ AttachSection \/ SaneExit
    \/ \E h \in Handles :
          SaneOpen(h) \/ SaneOpenAuto(h) \/ SaneStart(h) \/ EndScan(h) \/ SaneClose(h)

Spec == Init /\ [][Next]_vars

-----------------------------------------------------------------------------

TypeOK ==
    /\ bus \subseteq Addresses
    /\ Len(devices) <= MaxDevices
    /\ \A i \in Slots :
          devices[i] \in [name : Addresses, open : BOOLEAN, missing : 0 .. 2]
    /\ at \in {"down", "init", "up"} /\ section \in 0 .. Len(config) + 1
    /\ \A i \in DOMAIN usbDevs : usbDevs[i] \in [name : Addresses, attached : BOOLEAN]
    /\ \A i \in DOMAIN devs :
          devs[i] \in [name : Addresses, id : ToSet(Settings) \cup {"any"},
                       fd : 0 .. MaxDevices]
    /\ hw \in [Handles -> Addresses \cup {0}]
    /\ scanning \in [Handles -> BOOLEAN]
    /\ failed \in BOOLEAN
    /\ inits \in 0 .. MaxInits /\ plugs \in 0 .. MaxPlugs

\* A slot is open if and only if a handle scans with it, on the device of that
\* slot, and a handle that scans has not lost its device: nothing is left open,
\* by whichever call failed, and nothing is closed under a scan.  But for a
\* device of an unknown board, which stays open for good.
SlotsAccounted ==
    /\ \A h \in Handles : scanning[h] =>
          LET fd == devs[DevOf(hw[h])].fd
          IN  fd \in Slots /\ devices[fd].open /\ devices[fd].name = hw[h]
    /\ \A i \in Slots : devices[i].open =>
          \/ devices[i].name \in Aliens
          \/ \E h \in Handles : scanning[h] /\ devs[DevOf(hw[h])].fd = i

\* No scanner is in the list twice, be it by two sections, by a section and an
\* open, or by what the table still has of an earlier sane_init, and what is in
\* the list is of the model that its section asked for.
OneDevicePerScanner ==
    /\ \A i, j \in DOMAIN devs : devs[i].name = devs[j].name => i = j
    /\ \A i \in DOMAIN devs : devs[i].id \in {"any", Model[devs[i].name]}

\* When nothing failed and as many sections ask for any device as there are
\* supported ones, every one that is plugged in and fits the table is attached,
\* whatever was plugged in, attached and left open in earlier sessions.
NoneLeftOut ==
    /\ at = "up" /\ ~failed
    /\ \A s \in DOMAIN config : config[s].model = "any"
    /\ Len(usbDevs) <= Cardinality({s \in DOMAIN config : config[s].device = AutoName})
    => \A a \in bus \cap {devices[i].name : i \in Slots} :
          Model[a] \in ToSet(Settings) /\ a \notin Aliens => a \in Attached

=============================================================================
