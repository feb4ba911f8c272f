------------------------------ MODULE MCFleet ------------------------------
(* Fleet for TLC, on the provider that rents machines and with no fault.   *)
EXTENDS Fleet

CONSTANTS i1, i2

MCIds == {i1, i2}
MCVerda == {[provider |-> "verda", faults |-> {}, ids |-> MCIds]}
=============================================================================
