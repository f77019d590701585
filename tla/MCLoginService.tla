--------------------------- MODULE MCLoginService ---------------------------
(* Small instances of LoginService: model values for hosts and accounts; some  *)
(* clients send every kind of packet, the others only ask as guests.          *)
EXTENDS LoginService

CONSTANTS Guests, OtherKinds

MCKinds == [h \in Hosts |-> {"guest"} \cup IF h \in Guests THEN {} ELSE OtherKinds]

=============================================================================
