------------------------------ MODULE MCClient ------------------------------
EXTENDS AodsClient
CONSTANTS a1, a2, a3
MCAddrs == <<a1, a2>>
MCKind == {"SUC", "FAI", "KEEPALIVE", "CODE", "REQUEST"}
MCLenOf == [k \in MCKind |-> 3]
MCByteOf == [k \in MCKind |-> IF k = "KEEPALIVE" THEN 7 ELSE 250]
=============================================================================
