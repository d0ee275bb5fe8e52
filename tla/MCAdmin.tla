------------------------------ MODULE MCAdmin ------------------------------
(* Two NAA endpoints and another proxy; a host that is not an address; and *)
(* five hand-written configurations.                                       *)
EXTENDS Admin

CONSTANTS d1, d2, p, text

MCDevices == {d1, d2, p}
MCAddresses == MCDevices
MCHosts == MCDevices \cup {text}
MCNameOf == [d \in MCDevices |-> IF d = d1 THEN "n1" ELSE IF d = d2 THEN "n2" ELSE "proxy"]

Plain == [host |-> None, target |-> None, hqp_host |-> FALSE, iptables |-> None, web |-> TRUE]
Rule(on, host) == [enable |-> on, naa_host |-> host]

MCConfigs ==
    {Plain,
     [Plain EXCEPT !.host = d1],
     [Plain EXCEPT !.host = d1, !.iptables = Rule(TRUE, d2)],
     [Plain EXCEPT !.host = d1, !.target = "n2", !.hqp_host = TRUE],
     [Plain EXCEPT !.host = text, !.iptables = Rule(FALSE, text)]}
=============================================================================
