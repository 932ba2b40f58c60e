---------------------------- MODULE MCConfigFlow ----------------------------
(* Two inverters behind different ports of one gateway, and two that share a *)
(* serial line.                                                              *)
EXTENDS ConfigFlow

At(type, host, port, unit) ==
    [type |-> type, host |-> host, port |-> port, unit |-> unit]

MCEndpoints == {At("tcp", "gateway", 502, 1), At("tcp", "gateway", 503, 1),
                At("serial", "ttyUSB0", 0, 1), At("serial", "ttyUSB0", 0, 2)}
=============================================================================
