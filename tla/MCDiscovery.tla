------------------------------ MODULE MCDiscovery ------------------------------
(* Hosts for TLC.                                                             *)
EXTENDS Discovery

Everyone == <<255, 255, 255, 255>>
Interface(up, loopback, ip, mask) == [up |-> up, loopback |-> loopback, ip |-> ip, mask |-> mask]
Wide == <<255, 255, 255, 0>>

Loopback == Interface(TRUE, TRUE, <<127, 0, 0, 1>>, <<255, 0, 0, 0>>)
Lan(n) == Interface(TRUE, FALSE, <<192, 168, 1, n>>, Wide)
NoIpv4 == Interface(TRUE, FALSE, Absent, Absent)
NoMask == Interface(TRUE, FALSE, <<10, 7, 0, 1>>, Absent)

\* No list; no network; a public address; one LAN; two addresses of one network
\* beside a /20, a /31 and a point-to-point network.
Hosts ==
  {Absent, <<>>, <<Loopback, NoIpv4, NoMask>>,
   <<Interface(TRUE, FALSE, <<203, 0, 113, 7>>, Wide), Interface(FALSE, FALSE, <<10, 0, 0, 1>>, Wide)>>,
   <<Loopback, Lan(5)>>,
   <<Lan(5), Interface(TRUE, FALSE, <<172, 31, 77, 9>>, <<255, 255, 240, 0>>), Lan(9)>>,
   <<Interface(TRUE, FALSE, <<172, 32, 0, 1>>, Wide),
     Interface(TRUE, FALSE, <<10, 8, 0, 2>>, <<255, 255, 255, 255>>),
     Interface(TRUE, FALSE, <<10, 9, 1, 4>>, <<255, 255, 255, 254>>)>>}
===============================================================================
