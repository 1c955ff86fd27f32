------------------------------ MODULE MCModbus ------------------------------
(* Instances of ModbusConnection for TLC.                                  *)
EXTENDS ModbusConnection, TLC

CONSTANTS o1, o2, o3, o4, u

Request(entity, function, base, quantity) ==
    [unit |-> u, entity |-> entity, function |-> function, base |-> base,
     quantity |-> quantity]

(* Neighbouring reads and writes of holding registers, in every order of   *)
(* arrival: two writes that combine, and two reads across both.            *)
Neighbours ==
    (o1 :> Request("HoldingRegister", 16, 2, 2))
      @@ (o2 :> Request("HoldingRegister", 16, 0, 2))
      @@ (o3 :> Request("HoldingRegister", 3, 1, 2))
      @@ (o4 :> Request("HoldingRegister", 3, 3, 1))

(* Writes of one register each, as the client builds for two bytes.        *)
SingleRegisters ==
    (o1 :> Request("HoldingRegister", 6, 0, 1))
      @@ (o2 :> Request("HoldingRegister", 6, 1, 1))
      @@ (o3 :> Request("HoldingRegister", 3, 0, 2))
=============================================================================
