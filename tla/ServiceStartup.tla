----------------------------- MODULE ServiceStartup -----------------------------
(***************************************************************************)
(* `rp-scale serve` from its environment to a listening service: several   *)
(* services of one host, each probing the candidate ports, registering     *)
(* with Bonjour, starting its discovery thread and, only then, binding.    *)
(* systemd starts a service again after it exited; other programs take and *)
(* release ports; USB printers are enumerated in another order after a     *)
(* reboot. What the discovery thread does is in module Discovery; here it  *)
(* announces for as long as its process runs.                              *)
(***************************************************************************)
EXTENDS Naturals, Sequences, SequencesExt

CONSTANTS
  Services,        \* processes of one host
  Envs,            \* environments they may be configured with
  UsbOrders,       \* the printers plugged in, in the order sysfs lists them
  DefaultPorts,    \* DEFAULT_MOBILE_API_PORTS
  Ephemeral,       \* ports the system may give out for port 0
  MaxFaults,       \* bound on crashes, ports taken by others and reboots
  Foreign, Malformed, None

VARIABLES
  env,             \* the environment file of the service
  usb,             \* the order of the printers now
  pc,              \* where serve() is
  probe,           \* index of the candidate port being probed
  listen,          \* the port of listen_addr, Malformed when it has none
  device,          \* zebra_device and godex_device
  owner,           \* who holds a TCP port: a service, Foreign or None
  discovery,       \* the discovery thread runs
  record,          \* port of the service's Bonjour record, or None
  guarded,         \* a BonjourService value of this process stands for it
  overlap,         \* start-ups of others that went on when the service exited
  faults

net == <<owner, discovery, record, guarded>>
vars == <<env, usb, pc, probe, listen, device, net, overlap, faults>>

-------------------------------------------------------------------------------
(* config.rs                                                               *)

\* None is a part of the list that is no u16.
parse_candidate_ports(raw) ==
  LET keep(out, p) == IF p \in {None, 0} \/ p \in ToSet(out) THEN out ELSE Append(out, p)
  IN FoldLeft(keep, <<>>, raw)

candidate_ports(e) ==
  LET ports == parse_candidate_ports(e.ports)
  IN IF ports = <<>> THEN DefaultPorts ELSE ports

Candidates(s) == candidate_ports(env[s])

\* What TcpListener::bind may bind for an address: any free port for port 0,
\* nothing for an address without a port.
bindable(addr) ==
  IF addr = Malformed THEN {} ELSE IF addr = 0 THEN Ephemeral ELSE {addr} \ {None}

TcpPorts == UNION {ToSet(candidate_ports(e)) \cup bindable(e.addr) : e \in Envs}

\* port_from_listen_addr has no port 0: the default port stands in.
http_port(s) == IF listen[s] \in {0, Malformed} THEN DefaultPorts[1] ELSE listen[s]

position(port, ports) ==
  CHOOSE i \in 1..Len(ports) : ports[i] = port /\ \A k \in 1..(i - 1) : ports[k] # port

\* Mutant: the reference has the number of candidates for a suffix.
server_ref_for_port_Count(name, port, ports) == [name |-> name, suffix |-> Len(ports)]

server_ref_for_port(name, port, ports) ==
  [name |-> name,
   suffix |-> IF \E i \in 1..Len(ports) : ports[i] = port THEN position(port, ports) ELSE port]

\* RP_SCALE_SERVER_REF, or else the default one.
server_ref(s) ==
  IF env[s].ref # None THEN [name |-> env[s].ref, suffix |-> 0]
  ELSE server_ref_for_port(env[s].name, http_port(s), Candidates(s))

DiscoveryAnnouncement(s) ==
  [service |-> s, server_ref |-> server_ref(s), http_port |-> http_port(s)]

\* A serial number is what it spells, and whether in upper case.
Serials == [id : STRING, upper : BOOLEAN]
UsbPrinters == [lp : STRING, vendor : STRING, serial : {None} \cup Serials]

ASSUME StartupAssumption ==
  /\ None \notin Services /\ Foreign \notin Services /\ None \notin Nat
  /\ \A e \in Envs :
       /\ candidate_ports(e) \in Seq(Nat \ {0}) /\ candidate_ports(e) # <<>>
       /\ e.addr \in Nat \cup {Malformed, None}
       /\ e.godex.serial \in {None} \cup Serials
  /\ Ephemeral \subseteq Nat \ {0} /\ DefaultPorts \in Seq(Nat \ {0})
  /\ UsbOrders \subseteq Seq(UsbPrinters)

-------------------------------------------------------------------------------
(* printer_device.rs and printer_device_from_env                           *)

\* Serial numbers are compared in upper case.
normalize_serial(serial) == [serial EXCEPT !.upper = TRUE]

\* The first lp* that is a GoDEX (195f:0001) with this serial number.
resolve_usblp_device_by_serial(serial) ==
  LET Match(k) == /\ usb[k].vendor = "godex"
                  /\ usb[k].serial # None
                  /\ normalize_serial(usb[k].serial) = normalize_serial(serial)
  IN IF \E k \in 1..Len(usb) : Match(k)
     THEN usb[CHOOSE k \in 1..Len(usb) : Match(k) /\ \A i \in 1..(k - 1) : ~Match(i)].lp
     ELSE None

\* Mutant: a serial number that is not plugged in falls back to the device.
printer_device_from_env_FallsBack(var) ==
  IF var.serial = None THEN var.device
  ELSE LET lp == resolve_usblp_device_by_serial(var.serial)
       IN IF lp = None THEN var.device ELSE lp

printer_device_from_env(var) ==
  IF var.serial # None THEN resolve_usblp_device_by_serial(var.serial) ELSE var.device

NoDevices == [zebra |-> None, godex |-> None]

-------------------------------------------------------------------------------
(* serve()                                                                 *)

Init ==
  /\ env \in [Services -> Envs]
  /\ usb \in UsbOrders
  /\ pc = [s \in Services |-> "off"]
  /\ probe = [s \in Services |-> 1]
  /\ listen = [s \in Services |-> None]
  /\ device = [s \in Services |-> NoDevices]
  /\ owner = [p \in TcpPorts |-> None]
  /\ discovery = [s \in Services |-> FALSE]
  /\ record = [s \in Services |-> None]
  /\ guarded = [s \in Services |-> FALSE]
  /\ overlap = [s \in Services |-> {}]
  /\ faults = 0

Starting == {"probe", "probing", "chosen", "configured", "registered", "bind"}

\* serve() of s goes on to a point; the start-ups an exited service has to
\* outwait are those that go on when it exits.
goto(s, point) ==
  /\ pc' = [pc EXCEPT ![s] = point]
  /\ overlap' = [t \in Services |->
                    IF t # s THEN {u \in overlap[t] : u # s \/ point \in Starting}
                    ELSE IF point = "exited" THEN {u \in Services \ {s} : pc[u] \in Starting}
                    ELSE {}]

\* systemd starts the process, after an exit with RestartSec=2: the start-ups
\* that were going on then are over. An explicit address wins, else the
\* candidates are probed.
start(s) ==
  /\ pc[s] = "off" \/ (pc[s] = "exited" /\ overlap[s] = {})
  /\ probe' = [probe EXCEPT ![s] = 1]
  /\ listen' = [listen EXCEPT ![s] = env[s].addr]
  /\ goto(s, IF env[s].addr = None THEN "probe" ELSE "chosen")
  /\ device' = [device EXCEPT ![s] = NoDevices]
  /\ UNCHANGED <<env, usb, net, faults>>

\* is_tcp_listen_addr_available: bind, and drop the listener at once.
probe_free(s) ==
  /\ pc[s] = "probe" /\ owner[Candidates(s)[probe[s]]] = None
  /\ owner' = [owner EXCEPT ![Candidates(s)[probe[s]]] = s]
  /\ goto(s, "probing")
  /\ UNCHANGED <<env, usb, probe, listen, device, discovery, record, guarded, faults>>

\* Mutant: the probe keeps its listener.
probe_drop_Leaks(s) ==
  /\ pc[s] = "probing"
  /\ listen' = [listen EXCEPT ![s] = Candidates(s)[probe[s]]]
  /\ goto(s, "chosen")
  /\ UNCHANGED <<env, usb, probe, device, net, faults>>

probe_drop(s) ==
  /\ pc[s] = "probing"
  /\ owner' = [owner EXCEPT ![Candidates(s)[probe[s]]] = None]
  /\ listen' = [listen EXCEPT ![s] = Candidates(s)[probe[s]]]
  /\ goto(s, "chosen")
  /\ UNCHANGED <<env, usb, probe, device, discovery, record, guarded, faults>>

\* The next candidate, or, when all are taken, the first one after all.
probe_busy(s) ==
  /\ pc[s] = "probe" /\ owner[Candidates(s)[probe[s]]] # None
  /\ IF probe[s] < Len(Candidates(s))
     THEN probe' = [probe EXCEPT ![s] = @ + 1] /\ UNCHANGED <<listen, pc, overlap>>
     ELSE /\ listen' = [listen EXCEPT ![s] = Candidates(s)[1]]
          /\ goto(s, "chosen")
          /\ UNCHANGED probe
  /\ UNCHANGED <<env, usb, device, net, faults>>

\* Devices and executor; an unknown executor ends serve() with an error.
configure(s) ==
  /\ pc[s] = "chosen"
  /\ device' = [device EXCEPT ![s] = [zebra |-> printer_device_from_env(env[s].zebra),
                                      godex |-> printer_device_from_env(env[s].godex)]]
  /\ goto(s, IF env[s].executor = "bad" THEN "exited" ELSE "configured")
  /\ UNCHANGED <<env, usb, probe, listen, net, faults>>

\* Mutant: the record names the first candidate.
register_bonjour_service_First(s) ==
  /\ pc[s] = "configured"
  /\ \/ /\ record' = [record EXCEPT ![s] = Candidates(s)[1]]
        /\ guarded' = [guarded EXCEPT ![s] = TRUE]
     \/ UNCHANGED <<record, guarded>>
  /\ goto(s, "registered")
  /\ UNCHANGED <<env, usb, probe, listen, device, owner, discovery, faults>>

\* A Bonjour error is only a warning.
register_bonjour_service(s) ==
  /\ pc[s] = "configured"
  /\ \/ /\ record' = [record EXCEPT ![s] = http_port(s)]
        /\ guarded' = [guarded EXCEPT ![s] = TRUE]
     \/ UNCHANGED <<record, guarded>>
  /\ goto(s, "registered")
  /\ UNCHANGED <<env, usb, probe, listen, device, owner, discovery, faults>>

serve_discovery(s) ==
  /\ pc[s] = "registered"
  /\ discovery' = [discovery EXCEPT ![s] = TRUE]
  /\ goto(s, "bind")
  /\ UNCHANGED <<env, usb, probe, listen, device, owner, record, guarded, faults>>

\* serve() returns an error and the process exits with its threads. The Bonjour
\* service is dropped, but nobody waits for its daemon to send the goodbye.
exit(s) ==
  /\ goto(s, "exited")
  /\ discovery' = [discovery EXCEPT ![s] = FALSE]
  /\ owner' = [p \in TcpPorts |-> IF owner[p] = s THEN None ELSE owner[p]]
  /\ record' = record \/ (guarded[s] /\ record' = [record EXCEPT ![s] = None])
  /\ guarded' = [guarded EXCEPT ![s] = FALSE]

\* Mutant: a port that was taken meanwhile is replaced by another candidate.
bind_mobile_http_listener_Next(s) ==
  /\ pc[s] = "bind"
  /\ LET free == {p \in bindable(listen[s]) \cup ToSet(Candidates(s)) : owner[p] = None}
     IN \/ \E p \in free :
             /\ listen[s] \in free => p = listen[s]
             /\ owner' = [owner EXCEPT ![p] = s]
             /\ goto(s, "serving")
             /\ UNCHANGED <<discovery, record, guarded>>
        \/ free = {} /\ exit(s)
  /\ UNCHANGED <<env, usb, probe, listen, device, faults>>

bind_mobile_http_listener(s) ==
  /\ pc[s] = "bind"
  /\ LET free == {p \in bindable(listen[s]) : owner[p] = None}
     IN \/ \E p \in free :
             /\ owner' = [owner EXCEPT ![p] = s]
             /\ goto(s, "serving")
             /\ UNCHANGED <<discovery, record, guarded>>
        \/ free = {} /\ exit(s)
  /\ UNCHANGED <<env, usb, probe, listen, device, faults>>

\* An accept error other than EINTR (no file descriptors left).
serve_mobile_http_err(s) ==
  /\ pc[s] = "serving" /\ faults < MaxFaults
  /\ exit(s)
  /\ faults' = faults + 1
  /\ UNCHANGED <<env, usb, probe, listen, device>>

-------------------------------------------------------------------------------
(* The world around.                                                       *)

\* SIGKILL, SIGTERM or a power cut: nothing is dropped, so the Bonjour record
\* stays in the caches of the network.
crash(s) ==
  /\ pc[s] # "off" /\ faults < MaxFaults
  /\ goto(s, "off")
  /\ owner' = [p \in TcpPorts |-> IF owner[p] = s THEN None ELSE owner[p]]
  /\ discovery' = [discovery EXCEPT ![s] = FALSE]
  /\ guarded' = [guarded EXCEPT ![s] = FALSE]
  /\ faults' = faults + 1
  /\ UNCHANGED <<env, usb, probe, listen, device, record>>

record_expires(s) ==
  /\ record[s] # None /\ ~guarded[s]
  /\ record' = [record EXCEPT ![s] = None]
  /\ UNCHANGED <<env, usb, pc, probe, listen, device, owner, discovery, guarded, faults, overlap>>

foreign_takes(p) ==
  /\ owner[p] = None /\ faults < MaxFaults
  /\ owner' = [owner EXCEPT ![p] = Foreign]
  /\ faults' = faults + 1
  /\ UNCHANGED <<env, usb, pc, probe, listen, device, discovery, record, guarded, overlap>>

foreign_releases(p) ==
  /\ owner[p] = Foreign
  /\ owner' = [owner EXCEPT ![p] = None]
  /\ UNCHANGED <<env, usb, pc, probe, listen, device, discovery, record, guarded, faults, overlap>>

\* A reboot: every service of the host is gone, the printers are enumerated anew.
reboot ==
  /\ faults < MaxFaults
  /\ usb' \in UsbOrders \ {usb}
  /\ pc' = [s \in Services |-> "off"]
  /\ overlap' = [s \in Services |-> {}]
  /\ owner' = [p \in TcpPorts |-> None]
  /\ discovery' = [s \in Services |-> FALSE]
  /\ guarded' = [s \in Services |-> FALSE]
  /\ faults' = faults + 1
  /\ UNCHANGED <<env, probe, listen, device, record>>

-------------------------------------------------------------------------------
serve(s) ==
  \/ start(s) \/ probe_free(s) \/ probe_drop(s) \/ probe_busy(s) \/ configure(s)
  \/ register_bonjour_service(s) \/ serve_discovery(s) \/ bind_mobile_http_listener(s)

Next ==
  \/ \E s \in Services : serve(s) \/ record_expires(s)
  \/ \E s \in Services : serve_mobile_http_err(s) \/ crash(s)
  \/ \E p \in TcpPorts : foreign_takes(p) \/ foreign_releases(p)
  \/ reboot

Spec == Init /\ [][Next]_vars

\* serve() goes on, systemd restarts (Restart=always), other programs give the
\* ports back, and a record that no process renews has a time to live.
FairSpec ==
  /\ Spec
  /\ \A s \in Services : WF_vars(serve(s)) /\ WF_vars(record_expires(s))
  /\ \A p \in TcpPorts : WF_vars(foreign_releases(p))

-------------------------------------------------------------------------------
(* Properties                                                              *)

\* An explicit port 0, or one that is also the position of a candidate, can make
\* the reference of another service.
PlainAddr(s) == env[s].addr = None \/ env[s].addr \notin 0..Len(Candidates(s))

\* Two services that serve at the same time under one name and one list of
\* candidates, without an explicit reference and with plain addresses, are told
\* apart by their references, however their probes and binds interleaved
\* (config.rs server_ref_for_port, select_listen_addr).
RefsAreDistinct ==
  \A s, t \in Services :
    /\ s # t /\ pc[s] = "serving" /\ pc[t] = "serving"
    /\ env[s].ref = None /\ env[t].ref = None
    /\ env[s].name = env[t].name /\ Candidates(s) = Candidates(t)
    /\ PlainAddr(s) /\ PlainAddr(t)
    => server_ref(s) # server_ref(t)

\* The port that a serving process announces, chosen and announced before it was
\* bound, is one this process listens on, whatever happened to the port
\* meanwhile; an explicit port 0 is the exception, which announces the default
\* port and listens on another (config.rs http_port, main.rs serve).
AdvertisesItsPort ==
  \A s \in Services :
    pc[s] = "serving" /\ env[s].addr # 0 => owner[DiscoveryAnnouncement(s).http_port] = s

\* A device that was found by a serial number is a GoDEX with that serial number,
\* in whatever order the printers were enumerated (main.rs
\* printer_device_from_env); the DEVICE variable never overrides it.
SerialDecidesDevice ==
  [][\A s \in Services :
       pc[s] = "chosen" /\ pc'[s] = "configured" /\ env[s].godex.serial # None
       => \/ device'[s].godex = None
          \/ \E k \in 1..Len(usb) :
               /\ usb[k].lp = device'[s].godex /\ usb[k].vendor = "godex"
               /\ usb[k].serial # None /\ usb[k].serial.id = env[s].godex.serial.id]_vars

\* The Bonjour record or the announcements of s name a port where it does not
\* serve.
misleads(s) ==
  LET serves(p) == pc[s] = "serving" /\ owner[p] = s
  IN \/ record[s] # None /\ ~serves(record[s])
     \/ discovery[s] /\ ~serves(DiscoveryAnnouncement(s).http_port)

\* Every service that may choose among as many candidates as there are services
\* comes up and stays up once the faults are over, though the services take each
\* other's ports between probe and bind and probe the port another one is about
\* to bind (config.rs select_listen_addr, main.rs serve). What it tells the network
\* is then true for good: the record that a killed process left, or that was not
\* withdrawn, for a port its successor does not get is replaced or expires
\* (bonjour.rs drop).
EveryServiceComesUp ==
  \A s \in Services :
    env[s].addr = None /\ env[s].executor # "bad"
    => <>[](pc[s] = "serving" /\ ~misleads(s))
===============================================================================
