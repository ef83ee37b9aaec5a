---------------------------- MODULE MCDeviceList ----------------------------
(* DeviceList for TLC: three places on the bus, two models.                *)
EXTENDS DeviceList

CONSTANTS h1, h2

Models == <<"epson", "plustek", "epson">>

Order == <<"epson", "plustek", "epson">>

AnyAuto == [model |-> "any", device |-> AutoName]

\* plustek.conf.in without ids, twice, with an empty section between; and a
\* section with ids and a name before it.
FileConfigs ==
    {<<AnyAuto, [model |-> "any", device |-> NoName], AnyAuto>>,
     <<[model |-> "plustek", device |-> 1], AnyAuto>>}

=============================================================================
