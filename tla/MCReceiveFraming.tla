--------------------------- MODULE MCReceiveFraming ---------------------------
(* An instance of ReceiveFraming for TLC: a header of two bytes and up to two    *)
(* bytes of data; size fields of 4 bits that are too small, empty, full, too     *)
(* large, or flagged.                                                          *)
EXTENDS ReceiveFraming

MCSizeFields == {1, 2, 4, 5, 11}

=============================================================================
