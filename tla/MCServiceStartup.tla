---------------------------- MODULE MCServiceStartup ----------------------------
(* Environments and USB orders for TLC.                                       *)
EXTENDS ServiceStartup

NoPrinter == [serial |-> None, device |-> None]
Serial(id) == [id |-> id, upper |-> TRUE]
Environment(addr, ports, ref, executor) ==
  [addr |-> addr, ports |-> ports, name |-> "rp-scale", ref |-> ref, executor |-> executor,
   zebra |-> NoPrinter, godex |-> NoPrinter]

Ports == <<39117, 41257>>

Printer(lp, vendor, serial) == [lp |-> lp, vendor |-> vendor, serial |-> serial]

\* Two GoDEX printers and a Zebra; after a reboot one is unplugged, they come in
\* another order, and one spells its serial number in lower case.
Orders ==
  {<<Printer("lp0", "godex", Serial("g1")), Printer("lp1", "godex", Serial("g2")),
     Printer("lp2", "zebra", Serial("z1"))>>,
   <<Printer("lp0", "godex", None), Printer("lp1", "zebra", Serial("g2")),
     Printer("lp2", "godex", [id |-> "g1", upper |-> FALSE])>>}

\* The default candidates; a list with repeated, zero and bad parts; an explicit
\* address; an executor that does not exist; port 0 and an address without a
\* port. Each with another printer.
MCEnvs ==
  {[Environment(None, <<>>, None, "simulated") EXCEPT
      !.godex = [serial |-> [id |-> "g1", upper |-> FALSE], device |-> "lp1"]],
   [Environment(None, <<39117, None, 41257, 39117, 0>>, None, "unset") EXCEPT
      !.godex.device = "lp0", !.zebra.device = "lp2"],
   [Environment(39117, <<>>, None, "device") EXCEPT
      !.godex = [serial |-> Serial("g2"), device |-> "lp0"]],
   Environment(39117, <<>>, "r1", "bad"),
   Environment(0, <<>>, None, "device"), Environment(Malformed, <<>>, None, "device")}

\* The range of the system has the candidates in it.
AnyPort == {41257, 50001}
===============================================================================
