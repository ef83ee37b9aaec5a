------------------------------ MODULE UsbTable ------------------------------
(***************************************************************************)
(* The table of USB devices that sanei_usb.c keeps for a process.  An      *)
(* index of the table, dn, is the file descriptor the backend works with.  *)
(* The table is filled by a scan of the bus in every sane_init and, as     *)
(* nobody calls sanei_usb_exit, it lasts as long as the process: an entry  *)
(* that is not found again goes missing, and its slot is free for another  *)
(* one only after it was missed twice.                                     *)
(*                                                                         *)
(* A name is "libusb:bus:address"; what is plugged in again gets another.  *)
(***************************************************************************)
EXTENDS Integers, Sequences, SequencesExt

CONSTANTS
    Places,       \* how many names there are, numbered in the order of the bus
    Model,        \* vendor and product id of what is at an address
    MaxDevices    \* MAX_DEVICES, 100

ASSUME UsbTableAssumption == Places \in Nat /\ MaxDevices \in Nat \ {0}

Addresses == 1 .. Places

VARIABLES
    bus,        \* what is plugged in
    devices     \* the table; what was missed more than twice is taken as 2

usbVars == <<bus, devices>>

UsbInit == bus = {} /\ devices = <<>>

Lowest(S)  == CHOOSE x \in S : \A y \in S : x <= y
Highest(S) == CHOOSE x \in S : \A y \in S : x >= y

Slots == DOMAIN devices

\* Mutant: a device that is found again stays missing.
StoreStillMissing(table, a) ==
    LET same == {i \in DOMAIN table : table[i].name = a}
        gone == {i \in DOMAIN table : table[i].missing >= 2}
        new  == [name |-> a, open |-> FALSE, missing |-> 0]
    IN  CASE same # {} -> table
          [] same = {} /\ gone # {} -> [table EXCEPT ![Highest(gone)] = new]
          [] same = {} /\ gone = {} /\ Len(table) < MaxDevices -> Append(table, new)
          [] OTHER -> table

\* store_device
Store(table, a) ==
    LET same == {i \in DOMAIN table : table[i].name = a}
        gone == {i \in DOMAIN table : table[i].missing >= 2}
        new  == [name |-> a, open |-> FALSE, missing |-> 0]
    IN  CASE same # {} -> [table EXCEPT ![Lowest(same)].missing = 0]
          [] same = {} /\ gone # {} -> [table EXCEPT ![Highest(gone)] = new]
          [] same = {} /\ gone = {} /\ Len(table) < MaxDevices -> Append(table, new)
          [] OTHER -> table

Older(entry) == [entry EXCEPT !.missing = IF @ < 2 THEN @ + 1 ELSE @]

\* sanei_usb_scan_devices: all entries go missing, then what can be opened is
\* stored, in the order of the bus.
Scanned(found) ==
    LET table[a \in 0 .. Places] ==
            IF a = 0 THEN [i \in Slots |-> Older(devices[i])]
            ELSE IF a \in found THEN Store(table[a - 1], a)
            ELSE table[a - 1]
    IN  table[Places]

\* sanei_usb_find_devices: the names, slot by slot.
FoundAs(table, model) ==
    LET names[n \in 0 .. Len(table)] ==
            IF n = 0 THEN <<>>
            ELSE IF table[n].missing = 0 /\ Model[table[n].name] = model
            THEN Append(names[n - 1], table[n].name)
            ELSE names[n - 1]
    IN  names[Len(table)]

\* sanei_usb_open: the slot of a name, if it is there.
SlotsOf(name) == {i \in Slots : devices[i].missing = 0 /\ devices[i].name = name}

CanOpen(name) ==
    /\ SlotsOf(name) # {}
    /\ ~devices[Lowest(SlotsOf(name))].open
    /\ name \in bus

Opened(name) == [devices EXCEPT ![Lowest(SlotsOf(name))].open = TRUE]

\* sanei_usb_close
Closed(dn) == IF dn \in Slots THEN [devices EXCEPT ![dn].open = FALSE] ELSE devices

=============================================================================
