------------------------------- MODULE Discovery -------------------------------
(***************************************************************************)
(* The discovery thread of one service: the targets it collects from the   *)
(* interfaces of the host, the announcement rounds, and the answers to     *)
(* probes. Its socket is bound to 0.0.0.0:18081, the port it announces to, *)
(* so its own announcements come back to it among the packets of others.   *)
(* Its names differ from those of ServiceStartup, beside which the proofs  *)
(* extend it.                                                              *)
(***************************************************************************)
EXTENDS Naturals, Sequences, SequencesExt

CONSTANTS
  Networks,      \* sequences of interfaces that getifaddrs may list
  Limited,       \* 255.255.255.255
  Apps,          \* mobile apps that probe
  MaxQueue,      \* bound on the packets waiting in the socket
  Absent         \* no list, no IPv4 address or mask, no app

\* An address is its four octets. A mask is ones and then zeros, and so is each of
\* its octets.
Addresses == [1..4 -> 0..255]
Masks == [1..4 -> {0, 128, 192, 224, 240, 248, 252, 254, 255}]
Interfaces ==
  [up : BOOLEAN, loopback : BOOLEAN, ip : Addresses \cup {Absent}, mask : Masks \cup {Absent}]

ASSUME DiscoveryAssumption ==
  /\ \A ifs \in Networks : ifs = Absent \/ ifs \in Seq(Interfaces)
  /\ MaxQueue \in Nat \ {0} /\ Absent \notin Apps

VARIABLES
  interfaces,        \* what getifaddrs lists at start-up
  announce_targets,  \* of DiscoverySocketConfig
  reachable,         \* targets to which send_to succeeds now
  place,                \* where serve_discovery is
  next,              \* index of the target to send to
  due,               \* 250 ms have passed since last_announce
  inbox,             \* packets waiting in the discovery socket
  told,              \* targets that got an announcement (history)
  waiting            \* apps whose probe is in the inbox and not answered yet

host == <<interfaces, announce_targets>>
discovery_vars == <<host, reachable, place, next, due, inbox, told, waiting>>

-------------------------------------------------------------------------------
(* Targets.                                                                *)

is_private_ipv4(ip) ==
  \/ ip[1] = 10
  \/ ip[1] = 172 /\ ip[2] \in 16..31
  \/ ip[1] = 192 /\ ip[2] = 168

\* The bits of two octets, one by one.
octet_or(a, b) ==
  LET or(w) == IF (a \div w) % 2 = 1 \/ (b \div w) % 2 = 1 THEN w ELSE 0
  IN or(128) + or(64) + or(32) + or(16) + or(8) + or(4) + or(2) + or(1)

\* Mutant: the mask is not inverted.
ipv4_broadcast_Mask(ip, mask) == [i \in 1..4 |-> octet_or(ip[i], mask[i])]

ipv4_broadcast(ip, mask) == [i \in 1..4 |-> octet_or(ip[i], 255 - mask[i])]

\* What is taken of the list: interfaces that are up, are no loopback and have an
\* IPv4 address and mask.
collect_interface_ipv4_networks(ifs) ==
  {k \in 1..Len(ifs) : /\ ifs[k].up /\ ~ifs[k].loopback
                       /\ ifs[k].ip # Absent /\ ifs[k].mask # Absent}

\* One iteration of the loop over the networks.
push_target(out, n) ==
  LET target == ipv4_broadcast(n.ip, n.mask)
  IN IF is_private_ipv4(n.ip) /\ target \notin ToSet(out) THEN Append(out, target) ELSE out

broadcast_targets_from_ipv4_networks(ifs) ==
  LET targets[k \in 0..Len(ifs)] ==
        IF k = 0 THEN <<Limited>>
        ELSE IF k \in collect_interface_ipv4_networks(ifs)
             THEN push_target(targets[k - 1], ifs[k])
             ELSE targets[k - 1]
  IN targets[Len(ifs)]

\* Absent stands for a getifaddrs that failed.
collect_discovery_broadcast_targets(ifs) ==
  IF ifs = Absent THEN <<Limited>>
  ELSE broadcast_targets_from_ipv4_networks(ifs)

-------------------------------------------------------------------------------
(* Packets: probes of apps, bare or with white space around them,            *)
(* announcements of this and other services, and anything else.              *)

Packet(kind, from) == [kind |-> kind, from |-> from]

\* Mutant: the text is compared as it came.
is_discovery_probe_NoTrim(packet) == packet.kind = "probe"

is_discovery_probe(packet) == packet.kind \in {"probe", "padded_probe"}

DiscoveryInit ==
  /\ interfaces \in Networks
  /\ announce_targets = collect_discovery_broadcast_targets(interfaces)
  /\ reachable \in SUBSET ToSet(announce_targets)
  /\ place = "bind"
  /\ next = 1
  /\ due = TRUE
  /\ inbox = <<>>
  /\ told = {}
  /\ waiting = {}

-------------------------------------------------------------------------------
(* serve_discovery                                                         *)

\* Both sockets; a failure ends the thread with a warning.
bind_sockets ==
  /\ place = "bind"
  /\ place' \in {"loop", "ended"}
  /\ UNCHANGED <<host, reachable, next, due, inbox, told, waiting>>

announce_check ==
  /\ place = "loop"
  /\ IF due THEN place' = "send" /\ next' = 1 ELSE place' = "recv" /\ UNCHANGED next
  /\ UNCHANGED <<host, reachable, due, inbox, told, waiting>>

round_ends == place' = "recv" /\ due' = FALSE /\ UNCHANGED next

\* Mutant: a round ends after its first target.
send_ok_OnlyFirst ==
  /\ place = "send" /\ announce_targets[next] \in reachable
  /\ told' = told \cup {announce_targets[next]}
  /\ round_ends
  /\ UNCHANGED <<host, reachable, inbox, waiting>>

\* One send_to of send_discovery_announcement. The announcement may come back
\* to the socket it was announced to.
send_ok ==
  /\ place = "send" /\ announce_targets[next] \in reachable
  /\ told' = told \cup {announce_targets[next]}
  /\ IF next < Len(announce_targets)
     THEN next' = next + 1 /\ UNCHANGED <<place, due>>
     ELSE round_ends
  /\ \/ UNCHANGED inbox
     \/ Len(inbox) < MaxQueue /\ inbox' = Append(inbox, Packet("announcement", Absent))
  /\ UNCHANGED <<host, reachable, waiting>>

\* The first error ends the round.
send_err ==
  /\ place = "send" /\ announce_targets[next] \notin reachable
  /\ round_ends
  /\ UNCHANGED <<host, reachable, inbox, told, waiting>>

recv_packet ==
  /\ place = "recv" /\ inbox # <<>>
  /\ IF is_discovery_probe(Head(inbox))
     THEN waiting' = waiting \ {Head(inbox).from}
     ELSE UNCHANGED waiting
  /\ inbox' = Tail(inbox)
  /\ place' = "loop"
  /\ UNCHANGED <<host, reachable, next, due, told>>

\* WouldBlock, TimedOut or Interrupted.
recv_timeout ==
  /\ place = "recv" /\ inbox = <<>>
  /\ place' = "loop"
  /\ UNCHANGED <<host, reachable, next, due, inbox, told, waiting>>

recv_err ==
  /\ place = "recv"
  /\ place' = "ended"
  /\ UNCHANGED <<host, reachable, next, due, inbox, told, waiting>>

-------------------------------------------------------------------------------
(* The world: time, the network and the apps.                              *)

tick ==
  /\ ~due
  /\ due' = TRUE
  /\ UNCHANGED <<host, reachable, place, next, inbox, told, waiting>>

network_changes ==
  /\ reachable' \in SUBSET ToSet(announce_targets) \ {reachable}
  /\ UNCHANGED <<host, place, next, due, inbox, told, waiting>>

app_probes(a) ==
  /\ place \in {"loop", "send", "recv"} /\ a \notin waiting /\ Len(inbox) < MaxQueue
  /\ \E kind \in {"probe", "padded_probe"} : inbox' = Append(inbox, Packet(kind, a))
  /\ waiting' = waiting \cup {a}
  /\ UNCHANGED <<host, reachable, place, next, due, told>>

others_send ==
  /\ place \in {"loop", "send", "recv"} /\ Len(inbox) < MaxQueue
  /\ \E kind \in {"announcement", "noise"} : inbox' = Append(inbox, Packet(kind, Absent))
  /\ UNCHANGED <<host, reachable, place, next, due, told, waiting>>

-------------------------------------------------------------------------------
thread == bind_sockets \/ announce_check \/ send_ok \/ send_err \/ recv_packet \/ recv_timeout

DiscoveryNext ==
  \/ thread \/ recv_err
  \/ tick \/ network_changes \/ others_send
  \/ \E a \in Apps : app_probes(a)

DiscoverySpec == DiscoveryInit /\ [][DiscoveryNext]_discovery_vars

\* The thread is scheduled (recv_from returns after 250 ms at the latest), and
\* time passes. Nothing is assumed of the network or of other senders.
FairDiscoverySpec == DiscoverySpec /\ WF_discovery_vars(thread) /\ WF_discovery_vars(tick)

-------------------------------------------------------------------------------
(* Properties                                                              *)

\* The announcements reach the limited broadcast address and the end of every
\* private network the host is in, each once, and nothing outside those networks
\* (discovery.rs broadcast_targets_from_ipv4_networks).
TargetsAreTheNetworks ==
  interfaces # Absent =>
    LET nets == {k \in 1..Len(interfaces) :
                   /\ interfaces[k].up /\ ~interfaces[k].loopback
                   /\ interfaces[k].ip # Absent /\ interfaces[k].mask # Absent
                   /\ is_private_ipv4(interfaces[k].ip)}
        Within(t, n) == \A i \in 1..4 : t[i] - (t[i] % (256 - n.mask[i]))
                                          = n.ip[i] - (n.ip[i] % (256 - n.mask[i]))
        AtEnd(t, n) == \A i \in 1..4 : t[i] % (256 - n.mask[i]) = 255 - n.mask[i]
        End(t, n) == Within(t, n) /\ AtEnd(t, n)
    IN /\ IsInjective(announce_targets)
       /\ \A k \in nets : \E i \in 1..Len(announce_targets) : End(announce_targets[i], interfaces[k])
       /\ \A i \in 2..Len(announce_targets) : \E k \in nets : End(announce_targets[i], interfaces[k])

\* Every probe that reaches the socket is answered, whatever else arrives, unless
\* the thread ends on a socket error (discovery_runtime.rs).
EveryProbeAnswered == \A a \in Apps : a \in waiting ~> (a \notin waiting \/ place = "ended")

AllTargets ==
  {Limited} \cup UNION {{ipv4_broadcast(n[k].ip, n[k].mask) :
                           k \in collect_interface_ipv4_networks(n)} : n \in Networks \ {Absent}}

UpTo(t) ==
  \E i \in 1..Len(announce_targets) :
    announce_targets[i] = t /\ \A k \in 1..i : announce_targets[k] \in reachable

\* A target that stays reachable, together with all targets before it, is told,
\* whatever the network did before; a target behind one that fails need not be
\* (discovery.rs send_discovery_announcement ends a round at its first error).
ReachableIsTold ==
  \A t \in AllTargets : <>[]UpTo(t) => <>(t \in told \/ place = "ended")
===============================================================================
