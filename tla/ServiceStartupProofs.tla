-------------------------- MODULE ServiceStartupProofs --------------------------
(***************************************************************************)
(* Services that run together have different references, and each          *)
(* advertises the port it listens on, for any number of services,          *)
(* candidate ports, faults and interleavings of probes and binds. At the   *)
(* end, about Discovery: a host announces itself to its own networks.      *)
(***************************************************************************)
EXTENDS ServiceStartup, Discovery, WellFoundedInduction, TLAPS

Points ==
  {"off", "probe", "probing", "chosen", "configured", "registered", "bind", "serving", "exited"}
Chosen == {"chosen", "configured", "registered", "bind", "serving"}

StartupType ==
  /\ env \in [Services -> Envs]
  /\ pc \in [Services -> Points]
  /\ probe \in [Services -> Nat]
  /\ listen \in [Services -> TcpPorts \cup {None, Malformed, 0}]
  /\ owner \in [TcpPorts -> Services \cup {Foreign, None}]

\* The candidate being probed is one, and a chosen port is a candidate or the
\* explicit address.
PortsAreCandidates ==
  \A s \in Services :
    /\ probe[s] \in 1..Len(Candidates(s))
    /\ pc[s] \in Chosen =>
         \/ \E i \in 1..Len(Candidates(s)) : listen[s] = Candidates(s)[i]
         \/ env[s].addr # None /\ listen[s] = env[s].addr

\* A probe holds the port it probes, a serving process one its address stands for.
Held(s) ==
  /\ pc[s] = "probing" => owner[Candidates(s)[probe[s]]] = s
  /\ pc[s] = "serving" => \E p \in bindable(listen[s]) : owner[p] = s

PortsAreHeld == \A s \in Services : Held(s)

StartupInv == StartupType /\ PortsAreCandidates /\ PortsAreHeld

-------------------------------------------------------------------------------
\* The candidates of a service are TCP ports, and so are those of an explicit
\* address.
LEMMA CandidatePorts ==
  ASSUME env \in [Services -> Envs], NEW s \in Services
  PROVE  /\ Candidates(s) \in Seq(Nat \ {0})
         /\ Len(Candidates(s)) \in Nat \ {0}
         /\ \A i \in 1..Len(Candidates(s)) : Candidates(s)[i] \in TcpPorts
         /\ env[s].addr \in TcpPorts \cup {None, Malformed, 0}
         /\ env[s].addr \in Nat \cup {None, Malformed}
         /\ bindable(env[s].addr) \subseteq TcpPorts
<1> DEFINE c == candidate_ports(env[s])
<1>1. env[s] \in Envs
  OBVIOUS
<1>2. c \in Seq(Nat \ {0}) /\ c # <<>> /\ env[s].addr \in Nat \cup {None, Malformed}
  BY <1>1, StartupAssumption
<1>3. Len(c) \in Nat \ {0}
  BY <1>2
<1>4. \A i \in 1..Len(c) : c[i] \in ToSet(c)
  BY <1>2 DEF ToSet
<1>5. ToSet(c) \cup bindable(env[s].addr) \subseteq TcpPorts
  BY <1>1 DEF TcpPorts
<1>6. env[s].addr \in TcpPorts \cup {None, Malformed, 0}
  BY <1>5 DEF bindable
<1>7. QED
  BY <1>2, <1>3, <1>4, <1>5, <1>6 DEF Candidates

\* So are those of an address that was chosen.
LEMMA ListenPorts ==
  ASSUME StartupInv, NEW s \in Services, pc[s] \in Chosen
  PROVE  bindable(listen[s]) \subseteq TcpPorts
<1>1. CASE \E i \in 1..Len(Candidates(s)) : listen[s] = Candidates(s)[i]
  <2>1. listen[s] \in TcpPorts /\ listen[s] # 0
    BY <1>1, CandidatePorts DEF StartupInv, StartupType
  <2>2. QED
    BY <2>1 DEF bindable
<1>2. CASE listen[s] = env[s].addr
  BY <1>2, CandidatePorts DEF StartupInv, StartupType
<1>3. QED
  BY <1>1, <1>2 DEF StartupInv, PortsAreCandidates

\* A service whose ports nobody took holds on to what it held.
LEMMA HeldStays ==
  ASSUME StartupInv, NEW t \in Services, UNCHANGED env,
         pc'[t] \in {"probing", "serving"} =>
           pc'[t] = pc[t] /\ probe'[t] = probe[t] /\ listen'[t] = listen[t],
         \A q \in TcpPorts : owner[q] = t => owner'[q] = t
  PROVE  Held(t)'
<1>1. Candidates(t)' = Candidates(t)
  BY DEF Candidates
<1>2. Candidates(t)[probe[t]] \in TcpPorts
  BY CandidatePorts DEF StartupInv, StartupType, PortsAreCandidates
<1>3. Held(t)
  BY DEF StartupInv, PortsAreHeld
<1>4. CASE pc'[t] = "probing"
  BY <1>1, <1>2, <1>3, <1>4 DEF Held
<1>5. CASE pc'[t] = "serving"
  <2>1. PICK p \in bindable(listen[t]) : owner[p] = t
    BY <1>3, <1>5 DEF Held
  <2>2. p \in TcpPorts
    BY <1>5, ListenPorts DEF Chosen
  <2>3. QED
    BY <1>5, <2>1, <2>2 DEF Held
<1>6. QED
  BY <1>4, <1>5 DEF Held

LEMMA InitStartup == Init => StartupInv
<1> SUFFICES ASSUME Init PROVE StartupInv
  OBVIOUS
<1>1. StartupType
  BY DEF Init, StartupType, Points
<1>2. PortsAreCandidates
  BY <1>1, CandidatePorts DEF Init, StartupType, PortsAreCandidates, Chosen
<1>3. PortsAreHeld
  BY DEF Init, PortsAreHeld, Held
<1>4. QED
  BY <1>1, <1>2, <1>3 DEF StartupInv

USE DEF Points, Chosen

LEMMA StartStep ==
  ASSUME StartupInv, NEW s \in Services, start(s)
  PROVE  StartupInv'
<1> USE DEF StartupInv, StartupType
<1>1. StartupType'
  BY CandidatePorts DEF start, goto, net
<1>2. PortsAreCandidates'
  <2> SUFFICES ASSUME NEW t \in Services
               PROVE  /\ probe'[t] \in 1..Len(candidate_ports(env[t]))
                      /\ pc'[t] \in Chosen =>
                           \/ \E i \in 1..Len(candidate_ports(env[t])) :
                                listen'[t] = candidate_ports(env[t])[i]
                           \/ env[t].addr # None /\ listen'[t] = env[t].addr
    BY DEF start, PortsAreCandidates, Candidates
  <2>1. CASE t = s
    <3>1. Len(candidate_ports(env[s])) \in Nat \ {0}
      BY CandidatePorts DEF Candidates
    <3>2. probe'[s] = 1 /\ listen'[s] = env[s].addr
      BY DEF start
    <3>3. pc'[s] \in Chosen => env[s].addr # None
      BY DEF start, goto
    <3>4. QED
      BY <2>1, <3>1, <3>2, <3>3
  <2>2. CASE t # s
    <3>1. probe'[t] = probe[t] /\ listen'[t] = listen[t] /\ pc'[t] = pc[t]
      BY <2>2 DEF start, goto
    <3>2. QED
      BY <3>1 DEF PortsAreCandidates, Candidates
  <2>3. QED
    BY <2>1, <2>2
<1>3. PortsAreHeld'
  BY HeldStays DEF start, goto, net, PortsAreHeld
<1>4. QED
  BY <1>1, <1>2, <1>3

LEMMA ProbeFreeStep ==
  ASSUME StartupInv, NEW s \in Services, probe_free(s)
  PROVE  StartupInv'
<1> USE DEF StartupInv, StartupType
<1>1. StartupType'
  BY CandidatePorts DEF probe_free, goto
<1>2. PortsAreCandidates'
  BY DEF probe_free, goto, PortsAreCandidates, Candidates
<1>3. PortsAreHeld'
  <2> DEFINE port == Candidates(s)[probe[s]]
  <2>1. port \in TcpPorts /\ owner[port] = None /\ None \notin Services
    BY CandidatePorts, StartupAssumption DEF probe_free, PortsAreCandidates
  <2>2. /\ owner' = [owner EXCEPT ![port] = s] /\ pc' = [pc EXCEPT ![s] = "probing"]
        /\ UNCHANGED <<env, probe, listen>>
    BY DEF probe_free, goto
  <2>3. Held(s)'
    BY <2>1, <2>2 DEF Held, Candidates
  <2> HIDE DEF port
  <2>4. ASSUME NEW t \in Services, t # s PROVE Held(t)'
    BY <2>1, <2>2, <2>4, HeldStays
  <2>5. QED
    BY <2>3, <2>4 DEF PortsAreHeld
<1>4. QED
  BY <1>1, <1>2, <1>3

LEMMA ProbeDropStep ==
  ASSUME StartupInv, NEW s \in Services, probe_drop(s)
  PROVE  StartupInv'
<1> USE DEF StartupInv, StartupType
<1>1. StartupType'
  BY CandidatePorts DEF probe_drop, goto, PortsAreCandidates
<1>2. PortsAreCandidates'
  BY DEF probe_drop, goto, PortsAreCandidates, Candidates
<1>3. PortsAreHeld'
  <2> DEFINE port == Candidates(s)[probe[s]]
  <2>1. /\ owner' = [owner EXCEPT ![port] = None] /\ pc' = [pc EXCEPT ![s] = "chosen"]
        /\ UNCHANGED <<env, probe>> /\ \A t \in Services \ {s} : listen'[t] = listen[t]
        /\ owner[port] = s
    BY DEF probe_drop, goto, PortsAreHeld, Held
  <2> HIDE DEF port
  <2>2. Held(s)'
    BY <2>1 DEF Held
  <2>3. ASSUME NEW t \in Services, t # s PROVE Held(t)'
    BY <2>1, <2>3, HeldStays
  <2>4. QED
    BY <2>2, <2>3 DEF PortsAreHeld
<1>4. QED
  BY <1>1, <1>2, <1>3

LEMMA ProbeBusyStep ==
  ASSUME StartupInv, NEW s \in Services, probe_busy(s)
  PROVE  StartupInv'
<1> USE DEF StartupInv, StartupType
<1> DEFINE c(t) == candidate_ports(env[t])
<1>0. \A t \in Services : /\ Len(c(t)) \in Nat \ {0}
                          /\ \A i \in 1..Len(c(t)) : c(t)[i] \in TcpPorts
                          /\ probe[t] \in 1..Len(c(t))
  BY CandidatePorts DEF PortsAreCandidates, Candidates
<1>1. CASE probe[s] < Len(c(s))
  <2>1. /\ probe' = [probe EXCEPT ![s] = @ + 1] /\ UNCHANGED <<env, listen, pc, owner>>
        /\ pc[s] = "probe"
    BY <1>1 DEF probe_busy, net, Candidates
  <2>2. \A t \in Services : probe'[t] \in 1..Len(c(t)) /\ (t # s => probe'[t] = probe[t])
    <3> HIDE DEF c
    <3> QED
      BY <1>0, <1>1, <2>1
  <2>3. StartupType'
    BY <2>1, <1>0
  <2>4. PortsAreCandidates'
    BY <2>1, <2>2 DEF PortsAreCandidates, Candidates
  <2>5. PortsAreHeld'
    BY <2>1, <2>2, HeldStays DEF PortsAreHeld
  <2>6. QED
    BY <2>3, <2>4, <2>5
<1>2. CASE ~(probe[s] < Len(c(s)))
  <2>1. /\ listen' = [listen EXCEPT ![s] = c(s)[1]] /\ pc' = [pc EXCEPT ![s] = "chosen"]
        /\ UNCHANGED <<env, probe, owner>>
    BY <1>2 DEF probe_busy, goto, net, Candidates
  <2>2. c(s)[1] \in TcpPorts /\ 1 \in 1..Len(c(s))
    BY <1>0
  <2>3. StartupType'
    BY <2>1, <2>2
  <2>4. PortsAreCandidates'
    BY <2>1, <2>2 DEF PortsAreCandidates, Candidates
  <2>5. PortsAreHeld'
    BY <2>1, HeldStays DEF PortsAreHeld
  <2>6. QED
    BY <2>3, <2>4, <2>5
<1>3. QED
  BY <1>1, <1>2

\* Steps that touch no port: s moves from one point to another that promises no
\* more.
LEMMA ConfigureStep ==
  ASSUME StartupInv, NEW s \in Services,
         configure(s) \/ register_bonjour_service(s) \/ serve_discovery(s)
  PROVE  StartupInv'
<1> USE DEF StartupInv, StartupType
<1>0. /\ UNCHANGED <<env, probe, listen, owner>>
      /\ pc[s] \in Chosen
      /\ \E point \in {"exited", "configured", "registered", "bind"} : pc' = [pc EXCEPT ![s] = point]
  BY DEF configure, register_bonjour_service, serve_discovery, goto, net
<1>1. StartupType'
  BY <1>0
<1>2. PortsAreCandidates'
  BY <1>0 DEF PortsAreCandidates, Candidates
<1>3. PortsAreHeld'
  BY <1>0, HeldStays DEF PortsAreHeld
<1>4. QED
  BY <1>1, <1>2, <1>3

\* A process that ends gives its ports back and takes none of another's.
LEMMA EndStep ==
  ASSUME StartupInv, NEW s \in Services, NEW point \in {"off", "exited"},
         goto(s, point),
         owner' = [p \in TcpPorts |-> IF owner[p] = s THEN None ELSE owner[p]],
         UNCHANGED <<env, probe, listen>>
  PROVE  StartupInv'
<1> USE DEF StartupInv, StartupType
<1>1. StartupType'
  BY DEF goto
<1>2. PortsAreCandidates'
  BY DEF goto, PortsAreCandidates, Candidates
<1>3. Held(s)'
  BY DEF goto, Held
<1>4. ASSUME NEW t \in Services, t # s PROVE Held(t)'
  BY <1>4, HeldStays DEF goto
<1>5. QED
  BY <1>1, <1>2, <1>3, <1>4 DEF PortsAreHeld

LEMMA ExitStep ==
  ASSUME StartupInv, NEW s \in Services, exit(s), UNCHANGED <<env, probe, listen>>
  PROVE  StartupInv'
  BY EndStep DEF exit

LEMMA BindStep ==
  ASSUME StartupInv, NEW s \in Services, bind_mobile_http_listener(s)
  PROVE  StartupInv'
<1>1. UNCHANGED <<env, probe, listen>> /\ pc[s] = "bind"
  BY DEF bind_mobile_http_listener
<1>2. CASE exit(s)
  BY <1>1, <1>2, ExitStep
<1>3. ASSUME NEW p \in bindable(listen[s]), owner[p] = None,
             owner' = [owner EXCEPT ![p] = s], goto(s, "serving")
      PROVE  StartupInv'
  <2> USE DEF StartupInv, StartupType
  <2>0. p \in TcpPorts /\ None \notin Services
    BY <1>1, ListenPorts, StartupAssumption
  <2>1. StartupType'
    BY <1>1, <1>3, <2>0 DEF goto
  <2>2. PortsAreCandidates'
    BY <1>1, <1>3 DEF goto, PortsAreCandidates, Candidates
  <2>3. Held(s)'
    BY <1>1, <1>3, <2>0 DEF goto, Held
  <2>4. ASSUME NEW t \in Services, t # s PROVE Held(t)'
    BY <1>1, <1>3, <2>0, <2>4, HeldStays DEF goto
  <2>5. QED
    BY <2>1, <2>2, <2>3, <2>4 DEF PortsAreHeld
<1>4. QED
  BY <1>2, <1>3 DEF bind_mobile_http_listener

LEMMA WorldStep ==
  ASSUME StartupInv,
         \/ \E s \in Services : record_expires(s)
         \/ \E p \in TcpPorts : foreign_takes(p) \/ foreign_releases(p)
         \/ reboot
  PROVE  StartupInv'
<1> USE DEF StartupInv, StartupType
<1>1. CASE \E s \in Services : record_expires(s)
  <2>1. UNCHANGED <<env, pc, probe, listen, owner>>
    BY <1>1 DEF record_expires
  <2>2. PortsAreHeld'
    BY <2>1, HeldStays DEF PortsAreHeld
  <2>3. QED
    BY <2>1, <2>2 DEF PortsAreCandidates, Candidates
<1>2. CASE \E p \in TcpPorts : foreign_takes(p) \/ foreign_releases(p)
  <2> PICK p \in TcpPorts : foreign_takes(p) \/ foreign_releases(p)
    BY <1>2
  <2>1. StartupType'
    BY DEF foreign_takes, foreign_releases
  <2>2. /\ UNCHANGED <<env, pc, probe, listen>> /\ None \notin Services /\ Foreign \notin Services
        /\ owner[p] \in {None, Foreign} /\ owner' = [owner EXCEPT ![p] = owner'[p]]
    BY StartupAssumption DEF foreign_takes, foreign_releases
  <2>3. PortsAreCandidates'
    BY <2>2 DEF PortsAreCandidates, Candidates
  <2>4. ASSUME NEW t \in Services PROVE Held(t)'
    BY <2>2, HeldStays
  <2>5. QED
    BY <2>1, <2>3, <2>4 DEF PortsAreHeld
<1>3. CASE reboot
  BY <1>3 DEF reboot, PortsAreCandidates, PortsAreHeld, Held, Candidates
<1>4. QED
  BY <1>1, <1>2, <1>3

LEMMA NextStartup == StartupInv /\ [Next]_vars => StartupInv'
<1> SUFFICES ASSUME StartupInv, [Next]_vars PROVE StartupInv'
  OBVIOUS
<1>1. CASE UNCHANGED vars
  BY <1>1 DEF vars, net, StartupInv, StartupType, PortsAreCandidates, PortsAreHeld, Held, Candidates
<1>2. CASE \E s \in Services : serve(s)
  BY <1>2, StartStep, ProbeFreeStep, ProbeDropStep, ProbeBusyStep, ConfigureStep, BindStep
     DEF serve
<1>3. CASE \E s \in Services : serve_mobile_http_err(s)
  BY <1>3, ExitStep DEF serve_mobile_http_err
<1>4. CASE \E s \in Services : crash(s)
  BY <1>4, EndStep DEF crash
<1>5. CASE \/ \E s \in Services : record_expires(s)
           \/ \E p \in TcpPorts : foreign_takes(p) \/ foreign_releases(p)
           \/ reboot
  BY <1>5, WorldStep
<1>6. QED
  BY <1>1, <1>2, <1>3, <1>4, <1>5 DEF Next

LEMMA StartupInvariant == Spec => []StartupInv
  BY InitStartup, NextStartup, PTL DEF Spec

-------------------------------------------------------------------------------
\* A set of numbers that is not empty has a least one.
LEMMA LeastNumber ==
  ASSUME NEW T, T \subseteq Nat, T # {}
  PROVE  \E x \in T : \A y \in T : ~(y < x)
<1> DEFINE R == {p \in Nat \X Nat : p[1] < p[2]}
<1>1. PICK x \in T : \A y \in T : ~(<<y, x>> \in R)
  <2>1. IsWellFoundedOn(R, Nat)
    BY NatLessThanWellFounded, Zenon DEF OpToRel
  <2> HIDE DEF R
  <2> QED
    BY <2>1, WFMin, Zenon
<1>2. ASSUME NEW y \in T, y < x PROVE FALSE
  <2>1. <<y, x>> \in R
    BY <1>2
  <2>2. QED
    BY <1>1, <2>1
<1>3. QED
  BY <1>2

\* A port of the list has a first position in it.
LEMMA PositionFound ==
  ASSUME NEW ports \in Seq(Nat \ {0}), NEW port, \E i \in 1..Len(ports) : ports[i] = port
  PROVE  position(port, ports) \in 1..Len(ports) /\ ports[position(port, ports)] = port
<1> DEFINE T == {i \in 1..Len(ports) : ports[i] = port}
<1>1. T \subseteq Nat /\ T # {}
  OBVIOUS
<1>2. PICK x \in T : \A y \in T : ~(y < x)
  <2> HIDE DEF T
  <2> QED
    BY <1>1, LeastNumber
<1>3. \A k \in 1..(x - 1) : ports[k] # port
  <2> SUFFICES ASSUME NEW k \in 1..(x - 1), ports[k] = port PROVE FALSE
    OBVIOUS
  <2>1. k \in T /\ x \in Nat /\ k \in Nat /\ k < x
    BY <1>1, <1>2
  <2>2. QED
    BY <1>2, <2>1
<1>4. QED
  BY <1>2, <1>3 DEF position

\* Which port a serving process listens on, unless its address has port 0.
LEMMA ListensThere ==
  ASSUME StartupInv, NEW s \in Services, pc[s] = "serving", env[s].addr # 0
  PROVE  /\ owner[listen[s]] = s /\ http_port(s) = listen[s]
         /\ \/ \E i \in 1..Len(Candidates(s)) : listen[s] = Candidates(s)[i]
            \/ env[s].addr # None /\ listen[s] = env[s].addr /\ listen[s] \in Nat
<1>1. PICK p \in bindable(listen[s]) : owner[p] = s
  BY DEF StartupInv, PortsAreHeld, Held
<1>2. listen[s] # Malformed
  BY <1>1 DEF bindable
<1>3. \/ \E i \in 1..Len(Candidates(s)) : listen[s] = Candidates(s)[i]
      \/ env[s].addr # None /\ listen[s] = env[s].addr /\ listen[s] \in Nat
  BY <1>2, CandidatePorts DEF StartupInv, StartupType, PortsAreCandidates
<1>4. listen[s] # 0
  BY <1>3, CandidatePorts DEF StartupInv, StartupType
<1>5. p = listen[s]
  BY <1>1, <1>2, <1>4 DEF bindable
<1>6. QED
  BY <1>1, <1>2, <1>3, <1>4, <1>5 DEF http_port

\* Two services that serve together listen on two ports, which are two candidates,
\* or a candidate and an address whose number is no position of one.
LEMMA RefsFollow == StartupInv => RefsAreDistinct
<1> SUFFICES ASSUME StartupInv, NEW s \in Services, NEW t \in Services,
                    s # t, pc[s] = "serving", pc[t] = "serving",
                    env[s].ref = None, env[t].ref = None,
                    env[s].name = env[t].name, Candidates(s) = Candidates(t),
                    PlainAddr(s), PlainAddr(t)
             PROVE  server_ref(s) # server_ref(t)
  BY DEF RefsAreDistinct
<1> DEFINE c == Candidates(s)
           In(p) == \E i \in 1..Len(c) : c[i] = p
<1>1. c \in Seq(Nat \ {0})
  BY CandidatePorts DEF StartupInv, StartupType
<1>2. Len(c) \in Nat
  BY <1>1
<1>3. \A u \in {s, t} :
        /\ owner[listen[u]] = u /\ http_port(u) = listen[u]
        /\ ~In(listen[u]) => listen[u] \in Nat /\ listen[u] > Len(c)
  <2> SUFFICES ASSUME NEW u \in {s, t}
               PROVE  /\ owner[listen[u]] = u /\ http_port(u) = listen[u]
                      /\ ~In(listen[u]) => listen[u] \in Nat /\ listen[u] > Len(c)
    OBVIOUS
  <2>1. Candidates(u) = c /\ env[u].addr # 0
    BY <1>2, StartupAssumption DEF PlainAddr
  <2>2. ~In(listen[u]) => env[u].addr # None /\ listen[u] = env[u].addr /\ listen[u] \in Nat
    BY <2>1, ListensThere
  <2>3. ~In(listen[u]) => listen[u] \notin 0..Len(c)
    BY <2>1, <2>2 DEF PlainAddr
  <2>4. QED
    BY <1>2, <2>1, <2>2, <2>3, ListensThere
<1>4. \A u \in {s, t} : In(listen[u]) => /\ position(listen[u], c) \in 1..Len(c)
                                          /\ c[position(listen[u], c)] = listen[u]
  BY <1>1, PositionFound
<1>5. \A u \in {s, t} :
        server_ref(u).suffix = IF In(listen[u]) THEN position(listen[u], c) ELSE listen[u]
  BY <1>3 DEF server_ref, server_ref_for_port
<1> HIDE DEF c, In
<1>6. server_ref(s).suffix # server_ref(t).suffix
  BY <1>2, <1>3, <1>4, <1>5
<1>7. QED
  BY <1>6

\* Two services that serve at the same time under one name and one list of
\* candidates, without an explicit reference and with plain addresses, have
\* different references, for any number of services and ports.
THEOREM RefsCorrect == Spec => []RefsAreDistinct
  BY StartupInvariant, RefsFollow, PTL

\* A serving process holds the port it announces, for any explicit addresses but
\* those with port 0, whatever crashes and races came before.
THEOREM AdvertisesCorrect == Spec => []AdvertisesItsPort
<1>1. StartupInv => AdvertisesItsPort
  BY ListensThere DEF AdvertisesItsPort, DiscoveryAnnouncement
<1>2. QED
  BY <1>1, StartupInvariant, PTL

-------------------------------------------------------------------------------
(* Printers by their serial numbers.                                       *)

\* Two serial numbers that are the same in upper case spell the same.
LEMMA SameSerial ==
  ASSUME NEW a \in Serials, NEW b \in Serials, normalize_serial(a) = normalize_serial(b)
  PROVE  a.id = b.id
<1>1. normalize_serial(a).id = a.id /\ normalize_serial(b).id = b.id
  BY DEF normalize_serial, Serials
<1>2. QED
  BY <1>1

\* A device that is found is that of a GoDEX with the serial number looked for.
LEMMA SerialFound ==
  ASSUME usb \in UsbOrders, NEW serial \in Serials,
         resolve_usblp_device_by_serial(serial) # None
  PROVE  \E k \in 1..Len(usb) :
           /\ usb[k].lp = resolve_usblp_device_by_serial(serial)
           /\ usb[k].vendor = "godex"
           /\ usb[k].serial # None /\ usb[k].serial.id = serial.id
<1> DEFINE Match(k) == /\ usb[k].vendor = "godex"
                       /\ usb[k].serial # None
                       /\ normalize_serial(usb[k].serial) = normalize_serial(serial)
           First(k) == Match(k) /\ \A i \in 1..(k - 1) : ~Match(i)
           T == {k \in 1..Len(usb) : Match(k)}
           f == CHOOSE k \in 1..Len(usb) : First(k)
<1>1. Len(usb) \in Nat /\ \A k \in 1..Len(usb) : usb[k].serial \in {None} \cup Serials
  <2>1. usb \in Seq(UsbPrinters)
    BY StartupAssumption
  <2>2. Len(usb) \in Nat /\ \A k \in 1..Len(usb) : usb[k] \in UsbPrinters
    BY <2>1
  <2>3. \A u \in UsbPrinters : u.serial \in {None} \cup Serials
    BY DEF UsbPrinters
  <2>4. QED
    BY <2>2, <2>3
<1>2. /\ \E k \in 1..Len(usb) : Match(k)
      /\ resolve_usblp_device_by_serial(serial) = usb[f].lp
  BY DEF resolve_usblp_device_by_serial
<1>3. \E k \in 1..Len(usb) : First(k)
  <2> HIDE DEF Match
  <2>1. T \subseteq Nat /\ T # {}
    BY <1>1, <1>2
  <2>2. PICK x \in T : \A y \in T : ~(y < x)
    <3> HIDE DEF T
    <3> QED
      BY <2>1, LeastNumber
  <2>3. ASSUME NEW i \in 1..(x - 1), Match(i) PROVE FALSE
    <3>1. i \in T /\ i < x
      BY <1>1, <2>2, <2>3
    <3>2. QED
      BY <2>2, <3>1
  <2>4. QED
    BY <2>2, <2>3
<1>4. f \in 1..Len(usb) /\ Match(f)
  <2> HIDE DEF Match
  <2>1. QED
    BY <1>3
<1> HIDE DEF f
<1>5. usb[f].serial.id = serial.id
  BY <1>1, <1>4, SameSerial
<1>6. QED
  BY <1>2, <1>4, <1>5

DeviceInv == usb \in UsbOrders /\ DOMAIN device = Services

LEMMA DevicesKnown == Spec => []DeviceInv
<1>1. Init => DeviceInv
  BY DEF Init, DeviceInv
<1>2. DeviceInv /\ [Next]_vars => DeviceInv'
  BY DEF DeviceInv, Next, serve, start, probe_free, probe_drop, probe_busy, configure,
         register_bonjour_service, serve_discovery, bind_mobile_http_listener,
         record_expires, serve_mobile_http_err, crash, foreign_takes, foreign_releases,
         reboot, vars
<1>3. QED
  BY <1>1, <1>2, PTL DEF Spec

\* Only configure takes a service from its port to its devices.
LEMMA ConfigureOnly ==
  ASSUME StartupInv, Next, NEW s \in Services, pc[s] = "chosen", pc'[s] = "configured"
  PROVE  configure(s)
<1>1. pc \in [Services -> Points]
  BY DEF StartupInv, StartupType
<1>2. ASSUME NEW t \in Services, serve(t) PROVE configure(s)
  <2>1. CASE t = s
    BY <1>1, <1>2, <2>1
      DEF serve, start, probe_free, probe_drop, probe_busy, register_bonjour_service,
          serve_discovery, bind_mobile_http_listener, goto
  <2>2. CASE t # s
    <3>1. \A point : goto(t, point) => pc'[s] = pc[s]
      BY <1>1, <2>2 DEF goto
    <3>2. pc'[s] = pc[s]
      BY <1>2, <3>1
        DEF serve, start, probe_free, probe_drop, probe_busy, configure,
            register_bonjour_service, serve_discovery, bind_mobile_http_listener, exit
    <3>3. QED
      BY <3>2
  <2>3. QED
    BY <2>1, <2>2
<1>3. ASSUME NEW t \in Services, serve_mobile_http_err(t) \/ crash(t) PROVE FALSE
  <2>1. \E point \in {"exited", "off"} : pc' = [pc EXCEPT ![t] = point]
    BY <1>3 DEF serve_mobile_http_err, exit, crash, goto
  <2>2. QED
    BY <1>1, <2>1
<1>4. CASE reboot
  BY <1>4 DEF reboot
<1>5. ASSUME NEW t \in Services, record_expires(t) PROVE FALSE
  BY <1>5 DEF record_expires
<1>6. ASSUME NEW p \in TcpPorts, foreign_takes(p) \/ foreign_releases(p) PROVE FALSE
  BY <1>6 DEF foreign_takes, foreign_releases
<1>7. QED
  BY <1>2, <1>3, <1>4, <1>5, <1>6 DEF Next

\* SerialDecidesDevice for any printers in any order: a device that was found by a
\* serial number is a GoDEX with that serial number, and the DEVICE variable never
\* overrides it (printer_device_from_env, resolve_usblp_device_by_serial).
THEOREM DevicesCorrect == Spec => SerialDecidesDevice
<1> DEFINE Decided(s) ==
      pc[s] = "chosen" /\ pc'[s] = "configured" /\ env[s].godex.serial # None
      => \/ device'[s].godex = None
         \/ \E k \in 1..Len(usb) :
              /\ usb[k].lp = device'[s].godex /\ usb[k].vendor = "godex"
              /\ usb[k].serial # None /\ usb[k].serial.id = env[s].godex.serial.id
<1>1. StartupInv /\ DeviceInv /\ [Next]_vars => [\A s \in Services : Decided(s)]_vars
  <2> SUFFICES ASSUME StartupInv, DeviceInv, Next, NEW s \in Services,
                      pc[s] = "chosen", pc'[s] = "configured", env[s].godex.serial # None,
                      device'[s].godex # None
               PROVE  \E k \in 1..Len(usb) :
                        /\ usb[k].lp = device'[s].godex /\ usb[k].vendor = "godex"
                        /\ usb[k].serial # None /\ usb[k].serial.id = env[s].godex.serial.id
    OBVIOUS
  <2>1. configure(s)
    BY ConfigureOnly
  <2>2. device'[s].godex = resolve_usblp_device_by_serial(env[s].godex.serial)
    BY <2>1 DEF configure, printer_device_from_env, DeviceInv
  <2>3. env[s].godex.serial \in Serials
    BY StartupAssumption DEF StartupInv, StartupType
  <2>4. QED
    BY <2>2, <2>3, SerialFound DEF DeviceInv
<1>2. QED
  BY <1>1, StartupInvariant, DevicesKnown, PTL DEF Spec, SerialDecidesDevice

-------------------------------------------------------------------------------
(* Discovery.                                                              *)

MaskOctets == {0, 128, 192, 224, 240, 248, 252, 254, 255}

\* What completing an octet with the zeros of its mask gives: the end of its block.
OctetEnd(t, a, m) ==
  /\ t \in 0..255
  /\ t - (t % (256 - m)) = a - (a % (256 - m))
  /\ t % (256 - m) = 255 - m

\* Setting the bits that are zero in the mask does so.
LEMMA OctetIsCompleted ==
  ASSUME NEW a \in 0..255, NEW m \in MaskOctets
  PROVE  OctetEnd(octet_or(a, 255 - m), a, m)
<1>1. CASE m = 0
  BY <1>1, SMTT(30) DEF OctetEnd, octet_or
<1>2. CASE m = 128
  BY <1>2, SMTT(30) DEF OctetEnd, octet_or
<1>3. CASE m = 192
  BY <1>3, SMTT(30) DEF OctetEnd, octet_or
<1>4. CASE m = 224
  BY <1>4, SMTT(30) DEF OctetEnd, octet_or
<1>5. CASE m = 240
  BY <1>5, SMTT(30) DEF OctetEnd, octet_or
<1>6. CASE m = 248
  BY <1>6, SMTT(30) DEF OctetEnd, octet_or
<1>7. CASE m = 252
  BY <1>7, SMTT(30) DEF OctetEnd, octet_or
<1>8. CASE m = 254
  BY <1>8, SMTT(30) DEF OctetEnd, octet_or
<1>9. CASE m = 255
  BY <1>9, SMTT(30) DEF OctetEnd, octet_or
<1>10. QED
  BY <1>1, <1>2, <1>3, <1>4, <1>5, <1>6, <1>7, <1>8, <1>9 DEF MaskOctets

-------------------------------------------------------------------------------
\* An interface whose network gets a target, and the last address of its network.
Net(n) ==
  /\ n.up /\ ~n.loopback /\ n.ip # Absent /\ n.mask # Absent
  /\ is_private_ipv4(n.ip)

NetEnd(t, n) == \A i \in 1..4 : OctetEnd(t[i], n.ip[i], n.mask[i])

Targets == Addresses \cup {Limited}

\* The targets are those of the first k interfaces.
Covers(out, ifs, k) ==
  /\ out \in Seq(Targets) /\ Len(out) >= 1
  /\ \A a, b \in 1..Len(out) : out[a] = out[b] => a = b
  /\ \A j \in 1..k : Net(ifs[j]) => \E i \in 1..Len(out) : NetEnd(out[i], ifs[j])
  /\ \A i \in 2..Len(out) : \E j \in 1..k : Net(ifs[j]) /\ NetEnd(out[i], ifs[j])

\* The end of a network is the end of the block of each octet.
LEMMA BroadcastIsEnd ==
  ASSUME NEW n \in Interfaces, n.ip # Absent, n.mask # Absent
  PROVE  /\ ipv4_broadcast(n.ip, n.mask) \in Addresses
         /\ NetEnd(ipv4_broadcast(n.ip, n.mask), n)
<1> DEFINE t == ipv4_broadcast(n.ip, n.mask)
<1>1. n.ip \in [1..4 -> 0..255] /\ n.mask \in [1..4 -> MaskOctets]
  BY DEF Interfaces, Addresses, Masks, MaskOctets
<1>2. t = [i \in 1..4 |-> octet_or(n.ip[i], 255 - n.mask[i])]
  BY DEF ipv4_broadcast
<1> HIDE DEF t
<1>3. ASSUME NEW i \in 1..4 PROVE OctetEnd(t[i], n.ip[i], n.mask[i])
  <2>1. n.ip[i] \in 0..255 /\ n.mask[i] \in MaskOctets
    BY <1>1
  <2>2. t[i] = octet_or(n.ip[i], 255 - n.mask[i])
    BY <1>2
  <2>3. OctetEnd(octet_or(n.ip[i], 255 - n.mask[i]), n.ip[i], n.mask[i])
    BY <2>1, OctetIsCompleted
  <2>4. QED
    BY <2>2, <2>3
<1>4. t \in [1..4 -> 0..255]
  <2>1. \A i \in 1..4 : t[i] \in 0..255
    BY <1>3 DEF OctetEnd
  <2>2. QED
    BY <1>2, <2>1
<1>5. QED
  BY <1>3, <1>4 DEF NetEnd, t, Addresses

\* One iteration of the loop over the interfaces.
NextTargets(out, ifs, k) ==
  IF k \in collect_interface_ipv4_networks(ifs) THEN push_target(out, ifs[k]) ELSE out

\* An interface adds its own target, unless it is there or is not to be added.
LEMMA NextCovers ==
  ASSUME NEW ifs \in Seq(Interfaces), NEW k \in 1..Len(ifs), NEW out, Covers(out, ifs, k - 1)
  PROVE  Covers(NextTargets(out, ifs, k), ifs, k)
<1> DEFINE n == ifs[k]
           t == ipv4_broadcast(n.ip, n.mask)
           l == Len(out)
<1>1. /\ out \in Seq(Targets) /\ l \in Nat \ {0}
      /\ \A a, b \in 1..l : out[a] = out[b] => a = b
      /\ \A j \in 1..(k - 1) : Net(ifs[j]) => \E i \in 1..l : NetEnd(out[i], ifs[j])
      /\ \A i \in 2..l : \E j \in 1..(k - 1) : Net(ifs[j]) /\ NetEnd(out[i], ifs[j])
  BY DEF Covers
<1>2. k \in Nat \ {0} /\ k \in 1..Len(ifs) /\ n \in Interfaces
  OBVIOUS
<1> HIDE DEF n, t, l
<1>3. CASE ~Net(n)
  <2>1. NextTargets(out, ifs, k) = out
    BY <1>2, <1>3 DEF NextTargets, Net, collect_interface_ipv4_networks, push_target, n
  <2>2. \A j \in 1..k : Net(ifs[j]) => j \in 1..(k - 1)
    BY <1>2, <1>3 DEF n
  <2>3. \A j \in 1..(k - 1) : j \in 1..k
    BY <1>2
  <2>4. \A j \in 1..k : Net(ifs[j]) => \E i \in 1..l : NetEnd(out[i], ifs[j])
    BY <1>1, <2>2, Zenon
  <2>5. \A i \in 2..l : \E j \in 1..k : Net(ifs[j]) /\ NetEnd(out[i], ifs[j])
    BY <1>1, <2>3, Zenon
  <2>6. QED
    BY <1>1, <2>1, <2>4, <2>5 DEF Covers, l
<1>4. CASE Net(n)
  <2>1. k \in collect_interface_ipv4_networks(ifs) /\ is_private_ipv4(n.ip)
    BY <1>2, <1>4 DEF Net, collect_interface_ipv4_networks, n
  <2>2. t \in Addresses /\ NetEnd(t, n)
    BY <1>2, <1>4, BroadcastIsEnd DEF Net, t
  <2>3. NextTargets(out, ifs, k) = IF t \notin ToSet(out) THEN Append(out, t) ELSE out
    BY <2>1 DEF NextTargets, push_target, t, n
  <2>4. DOMAIN out = 1..l
    BY <1>1 DEF l
  <2>5. \A j \in 1..(k - 1) : j \in 1..k
    BY <1>2
  <2>6. \A j \in 1..k : j \in 1..(k - 1) \/ j = k
    BY <1>2
  <2>7. CASE t \in ToSet(out)
    <3>1. NextTargets(out, ifs, k) = out
      BY <2>3, <2>7
    <3>2. PICK i \in 1..l : out[i] = t
      BY <2>4, <2>7 DEF ToSet
    <3>3. \A j \in 1..k : Net(ifs[j]) => \E b \in 1..l : NetEnd(out[b], ifs[j])
      BY <1>1, <2>2, <2>6, <3>2, Zenon DEF n
    <3>4. \A b \in 2..l : \E j \in 1..k : Net(ifs[j]) /\ NetEnd(out[b], ifs[j])
      BY <1>1, <2>5, Zenon
    <3>5. QED
      BY <1>1, <3>1, <3>3, <3>4 DEF Covers, l
  <2>8. CASE t \notin ToSet(out)
    <3> DEFINE longer == Append(out, t)
    <3>1. NextTargets(out, ifs, k) = longer
      BY <2>3, <2>8
    <3>2. t \in Targets
      BY <2>2 DEF Targets
    <3>3. /\ longer \in Seq(Targets) /\ Len(longer) = l + 1
          /\ \A i \in 1..l : longer[i] = out[i]
          /\ longer[l + 1] = t
      BY <1>1, <3>2 DEF l
    <3>4. \A i \in 1..l : out[i] # t
      BY <2>4, <2>8 DEF ToSet
    <3> HIDE DEF longer
    <3>5. \A a, b \in 1..(l + 1) : longer[a] = longer[b] => a = b
      <4> SUFFICES ASSUME NEW a \in 1..(l + 1), NEW b \in 1..(l + 1), longer[a] = longer[b] PROVE a = b
        OBVIOUS
      <4>1. (a \in 1..l \/ a = l + 1) /\ (b \in 1..l \/ b = l + 1)
        BY <1>1
      <4>2. QED
        BY <1>1, <3>3, <3>4, <4>1
    <3>6. \A i \in 1..l : i \in 1..(l + 1)
      BY <1>1
    <3>7. l + 1 \in 1..(l + 1) /\ k \in 1..k
      BY <1>1, <1>2
    <3>8. \A j \in 1..k : Net(ifs[j]) => \E b \in 1..(l + 1) : NetEnd(longer[b], ifs[j])
      <4> SUFFICES ASSUME NEW j \in 1..k, Net(ifs[j])
                   PROVE  \E b \in 1..(l + 1) : NetEnd(longer[b], ifs[j])
        OBVIOUS
      <4>1. CASE j = k
        <5>1. NetEnd(longer[l + 1], ifs[j])
          BY <2>2, <3>3, <4>1 DEF n
        <5>2. QED
          BY <3>7, <5>1
      <4>2. CASE j \in 1..(k - 1)
        <5>1. PICK b \in 1..l : NetEnd(out[b], ifs[j])
          BY <1>1, <4>2
        <5>2. b \in 1..(l + 1) /\ NetEnd(longer[b], ifs[j])
          BY <3>3, <3>6, <5>1
        <5>3. QED
          BY <5>2
      <4>3. QED
        BY <2>6, <4>1, <4>2
    <3>9. \A b \in 2..(l + 1) : \E j \in 1..k : Net(ifs[j]) /\ NetEnd(longer[b], ifs[j])
      <4> SUFFICES ASSUME NEW b \in 2..(l + 1)
                   PROVE  \E j \in 1..k : Net(ifs[j]) /\ NetEnd(longer[b], ifs[j])
        OBVIOUS
      <4>1. CASE b = l + 1
        <5>1. Net(ifs[k]) /\ NetEnd(longer[b], ifs[k])
          BY <1>4, <2>2, <3>3, <4>1 DEF n
        <5>2. QED
          BY <3>7, <5>1
      <4>2. CASE b # l + 1
        <5>1. b \in 2..l /\ b \in 1..l
          BY <1>1, <4>2
        <5>2. PICK j \in 1..(k - 1) : Net(ifs[j]) /\ NetEnd(out[b], ifs[j])
          BY <1>1, <5>1
        <5>3. j \in 1..k /\ Net(ifs[j]) /\ NetEnd(longer[b], ifs[j])
          BY <2>5, <3>3, <5>1, <5>2
        <5>4. QED
          BY <5>3
      <4>3. QED
        BY <4>1, <4>2
    <3>10. Len(longer) >= 1
      <4>1. l + 1 >= 1
        BY <1>1
      <4>2. QED
        BY <3>3, <4>1, Zenon
    <3>11. Covers(longer, ifs, k)
      BY <3>3, <3>5, <3>8, <3>9, <3>10, Zenon DEF Covers
    <3>12. QED
      BY <3>1, <3>11, Zenon
  <2>9. QED
    BY <2>7, <2>8
<1>5. QED
  BY <1>3, <1>4

-------------------------------------------------------------------------------
\* The values of g up to k are the targets after as many iterations.
Iterated(g, ifs, k) ==
  /\ g = [i \in 0..Len(ifs) |-> g[i]]
  /\ \A i \in 0..k : g[i] = IF i = 0 THEN <<Limited>> ELSE NextTargets(g[i - 1], ifs, i)

\* The recursion over the interfaces has a solution.
LEMMA TargetsExist ==
  ASSUME NEW ifs, Len(ifs) \in Nat
  PROVE  \E g : Iterated(g, ifs, Len(ifs))
<1> DEFINE l == Len(ifs)
           T == {k \in 0..l : ~\E g : Iterated(g, ifs, k)}
<1> SUFFICES ASSUME ~\E g : Iterated(g, ifs, l) PROVE FALSE
  OBVIOUS
<1>1. l \in Nat
  OBVIOUS
<1> HIDE DEF l
<1>2. T \subseteq Nat /\ T # {}
  <2>1. l \in T
    BY <1>1
  <2>2. QED
    BY <2>1
<1>3. PICK k \in T : \A j \in T : ~(j < k)
  <2> HIDE DEF T
  <2> QED
    BY <1>2, LeastNumber
<1>4. k \in 0..l /\ ~\E g : Iterated(g, ifs, k)
  OBVIOUS
<1>5. k # 0
  <2> DEFINE h == [i \in 0..l |-> <<Limited>>]
  <2>1. h = [i \in 0..l |-> h[i]] /\ h[0] = <<Limited>>
    BY <1>1
  <2> HIDE DEF h
  <2>2. Iterated(h, ifs, 0)
    BY <2>1 DEF Iterated, l
  <2>3. QED
    BY <1>4, <2>2
<1>6. k - 1 \in 0..l /\ k - 1 < k /\ k \in Nat
  BY <1>1, <1>4, <1>5
<1>7. PICK g : Iterated(g, ifs, k - 1)
  BY <1>3, <1>6
<1> DEFINE h == [i \in 0..l |-> IF i = k THEN NextTargets(g[k - 1], ifs, k) ELSE g[i]]
<1>8. h = [i \in 0..l |-> h[i]]
  OBVIOUS
<1>9. h[k] = NextTargets(g[k - 1], ifs, k) /\ \A i \in 0..l : i # k => h[i] = g[i]
  BY <1>4
<1> HIDE DEF h
<1>10. \A i \in 0..k : h[i] = IF i = 0 THEN <<Limited>> ELSE NextTargets(h[i - 1], ifs, i)
  <2> SUFFICES ASSUME NEW i \in 0..k
               PROVE  h[i] = IF i = 0 THEN <<Limited>> ELSE NextTargets(h[i - 1], ifs, i)
    OBVIOUS
  <2>1. CASE i = k
    <3>1. h[i - 1] = g[k - 1]
      BY <1>6, <1>9, <2>1
    <3>2. QED
      BY <1>5, <1>9, <2>1, <3>1
  <2>2. CASE i # k
    <3>1. i \in 0..(k - 1) /\ i \in 0..l /\ h[i] = g[i]
      BY <1>1, <1>4, <1>6, <1>9, <2>2
    <3>2. g[i] = IF i = 0 THEN <<Limited>> ELSE NextTargets(g[i - 1], ifs, i)
      BY <1>7, <3>1 DEF Iterated
    <3>3. i # 0 => i - 1 \in 0..l /\ i - 1 # k
      BY <1>1, <1>4, <1>6, <3>1
    <3>4. i # 0 => h[i - 1] = g[i - 1]
      BY <1>9, <3>3
    <3>5. QED
      BY <3>1, <3>2, <3>4
  <2>3. QED
    BY <2>1, <2>2
<1>11. Iterated(h, ifs, k)
  BY <1>8, <1>10 DEF Iterated, l
<1>12. QED
  BY <1>4, <1>11

\* The targets of a list of interfaces are those of all its networks.
LEMMA TargetsCover ==
  ASSUME NEW ifs \in Seq(Interfaces)
  PROVE  Covers(broadcast_targets_from_ipv4_networks(ifs), ifs, Len(ifs))
<1> DEFINE F(g) == [k \in 0..Len(ifs) |->
                      IF k = 0 THEN <<Limited>>
                      ELSE IF k \in collect_interface_ipv4_networks(ifs)
                           THEN push_target(g[k - 1], ifs[k])
                           ELSE g[k - 1]]
           G == CHOOSE g : g = F(g)
           l == Len(ifs)
<1>1. broadcast_targets_from_ipv4_networks(ifs) = G[l]
  BY Zenon DEF broadcast_targets_from_ipv4_networks
<1>2. l \in Nat
  OBVIOUS
<1>3. PICK g : Iterated(g, ifs, l)
  BY TargetsExist
<1>4. g = F(g)
  <2>1. \A k \in 0..l : g[k] = F(g)[k]
    BY <1>3 DEF Iterated, NextTargets
  <2>2. g = [k \in 0..l |-> g[k]]
    BY <1>3, Zenon DEF Iterated
  <2>3. QED
    BY <2>1, <2>2
<1>5. G = F(G)
  <2> HIDE DEF F
  <2> QED
    BY <1>4, Zenon
<1> HIDE DEF G
<1>6. /\ G[0] = <<Limited>>
      /\ \A k \in 1..l : G[k] = NextTargets(G[k - 1], ifs, k)
  <2>1. G[0] = <<Limited>>
    BY <1>2, <1>5
  <2>2. ASSUME NEW k \in 1..l PROVE G[k] = NextTargets(G[k - 1], ifs, k)
    <3>1. k \in 0..l /\ k # 0
      BY <1>2
    <3>2. G[k] = F(G)[k]
      BY <1>5
    <3>3. QED
      BY <3>1, <3>2 DEF NextTargets
  <2>3. QED
    BY <2>1, <2>2
<1> DEFINE T == {k \in 0..l : ~Covers(G[k], ifs, k)}
<1> HIDE DEF F
<1>7. T = {}
  <2> SUFFICES ASSUME T # {} PROVE FALSE
    OBVIOUS
  <2>1. T \subseteq Nat
    BY <1>2
  <2>2. PICK k \in T : \A j \in T : ~(j < k)
    <3> HIDE DEF T
    <3> QED
      BY <2>1, LeastNumber
  <2>3. k \in 0..l /\ ~Covers(G[k], ifs, k)
    OBVIOUS
  <2>4. CASE k = 0
    <3>1. G[0] \in Seq(Targets) /\ Len(G[0]) = 1
      BY <1>6 DEF Targets
    <3>2. Covers(G[0], ifs, 0)
      BY <3>1 DEF Covers
    <3>3. QED
      BY <2>3, <2>4, <3>2
  <2>5. CASE k # 0
    <3>1. k \in 1..l /\ k - 1 \in 0..l /\ k - 1 < k
      BY <1>2, <2>3, <2>5
    <3>2. Covers(G[k - 1], ifs, k - 1)
      BY <2>2, <3>1
    <3>3. Covers(G[k], ifs, k)
      BY <1>6, <3>1, <3>2, NextCovers
    <3>4. QED
      BY <2>3, <3>3
  <2>6. QED
    BY <2>4, <2>5
<1>8. l \in 0..l
  BY <1>2
<1>9. Covers(G[l], ifs, l)
  BY <1>7, <1>8
<1>10. QED
  BY <1>1, <1>9

-------------------------------------------------------------------------------
\* The targets are collected once.
HostInv ==
  /\ interfaces \in Networks
  /\ announce_targets = collect_discovery_broadcast_targets(interfaces)

\* No step collects them again.
LEMMA HostStays ==
  ASSUME HostInv, [DiscoveryNext]_discovery_vars
  PROVE  HostInv'
<1>1. UNCHANGED host
  BY DEF DiscoveryNext, discovery_vars, thread, bind_sockets, announce_check,
         send_ok, send_err, recv_packet, recv_timeout, recv_err,
         tick, network_changes, app_probes, others_send
<1>2. UNCHANGED <<interfaces, announce_targets>>
  BY <1>1 DEF host
<1>3. QED
  BY <1>2 DEF HostInv

\* Those that were collected are the ends of the networks.
LEMMA HostTargets ==
  ASSUME HostInv
  PROVE  TargetsAreTheNetworks
<1> SUFFICES ASSUME interfaces # Absent PROVE TargetsAreTheNetworks
  BY DEF TargetsAreTheNetworks
<1> DEFINE out == announce_targets
           l == Len(interfaces)
<1>1. interfaces \in Seq(Interfaces)
  BY DiscoveryAssumption DEF HostInv
<1>2. out = broadcast_targets_from_ipv4_networks(interfaces)
  BY DEF HostInv, collect_discovery_broadcast_targets
<1>3. Covers(out, interfaces, l)
  BY <1>1, <1>2, TargetsCover
<1>4. DOMAIN out = 1..Len(out)
  BY <1>3 DEF Covers
<1>5. IsInjective(out)
  BY <1>3, <1>4 DEF Covers, IsInjective
<1> DEFINE nets == {k \in 1..l : /\ interfaces[k].up /\ ~interfaces[k].loopback
                                 /\ interfaces[k].ip # Absent /\ interfaces[k].mask # Absent
                                 /\ is_private_ipv4(interfaces[k].ip)}
<1>6. \A k \in 1..l : k \in nets <=> Net(interfaces[k])
  BY DEF Net
<1>7. \A k \in nets : k \in 1..l
  OBVIOUS
<1> HIDE DEF nets
<1>8. \A k \in nets : \E i \in 1..Len(out) : NetEnd(out[i], interfaces[k])
  BY <1>3, <1>6, <1>7 DEF Covers
<1>9. \A i \in 2..Len(out) : \E k \in nets : NetEnd(out[i], interfaces[k])
  BY <1>3, <1>6 DEF Covers
<1> DEFINE Within(t, n) == \A i \in 1..4 : t[i] - (t[i] % (256 - n.mask[i]))
                                              = n.ip[i] - (n.ip[i] % (256 - n.mask[i]))
           AtEnd(t, n) == \A i \in 1..4 : t[i] % (256 - n.mask[i]) = 255 - n.mask[i]
<1>10. \A t, n : NetEnd(t, n) => Within(t, n) /\ AtEnd(t, n)
  <2> SUFFICES ASSUME NEW t, NEW n, NetEnd(t, n) PROVE Within(t, n) /\ AtEnd(t, n)
    BY Zenon
  <2>1. ASSUME NEW i \in 1..4
        PROVE  /\ t[i] - (t[i] % (256 - n.mask[i])) = n.ip[i] - (n.ip[i] % (256 - n.mask[i]))
               /\ t[i] % (256 - n.mask[i]) = 255 - n.mask[i]
    <3>1. OctetEnd(t[i], n.ip[i], n.mask[i])
      BY Zenon DEF NetEnd
    <3>2. QED
      BY <3>1 DEF OctetEnd
  <2>2. QED
    BY <2>1
<1> HIDE DEF Within, AtEnd
<1>11. \A k \in nets : \E i \in 1..Len(out) : Within(out[i], interfaces[k]) /\ AtEnd(out[i], interfaces[k])
  BY <1>8, <1>10, Zenon
<1>12. \A i \in 2..Len(out) : \E k \in nets : Within(out[i], interfaces[k]) /\ AtEnd(out[i], interfaces[k])
  BY <1>9, <1>10, Zenon
<1>13. QED
  BY <1>5, <1>11, <1>12, Zenon DEF nets, Within, AtEnd, TargetsAreTheNetworks

\* The announcements go to the ends of the private networks of the host and to
\* no others, whatever its interfaces (discovery.rs
\* broadcast_targets_from_ipv4_networks).
THEOREM TargetsCorrect == DiscoverySpec => []TargetsAreTheNetworks
<1>1. DiscoveryInit => HostInv
  BY DEF DiscoveryInit, HostInv
<1>2. HostInv /\ [DiscoveryNext]_discovery_vars => HostInv'
  BY HostStays
<1>3. HostInv => TargetsAreTheNetworks
  BY HostTargets
<1>4. QED
  BY <1>1, <1>2, <1>3, PTL DEF DiscoverySpec

-------------------------------------------------------------------------------
\* An app that waits has a probe among the packets that wait, and the thread will
\* take it for one.
ProbesWait ==
  \A a \in waiting : \E i \in 1..Len(inbox) :
    is_discovery_probe(inbox[i]) /\ inbox[i].from = a

InboxType == \E S : inbox \in Seq(S)

\* A packet is added: the old ones stay, and with them the probes.
LEMMA AddedPacket ==
  ASSUME InboxType, NEW p, inbox' = Append(inbox, p)
  PROVE  /\ InboxType'
         /\ Len(inbox) \in Nat /\ Len(inbox') = Len(inbox) + 1
         /\ \A i \in 1..Len(inbox) : i \in 1..Len(inbox') /\ inbox'[i] = inbox[i]
         /\ inbox'[Len(inbox')] = p
<1>1. PICK S : inbox \in Seq(S)
  BY DEF InboxType
<1> DEFINE U == S \cup {p}
<1>2. inbox \in Seq(U) /\ p \in U
  BY <1>1
<1> HIDE DEF U
<1>3. inbox' \in Seq(U)
  BY <1>2
<1>4. QED
  BY <1>2, <1>3 DEF InboxType

\* Nobody else comes to wait when a packet is added that is no probe of an app.
LEMMA AddedKeeps ==
  ASSUME InboxType, ProbesWait, NEW p, inbox' = Append(inbox, p), UNCHANGED waiting
  PROVE  InboxType' /\ ProbesWait'
<1> SUFFICES ASSUME NEW a \in waiting
             PROVE  \E i \in 1..Len(inbox') : is_discovery_probe(inbox'[i]) /\ inbox'[i].from = a
  BY AddedPacket, Zenon DEF ProbesWait, is_discovery_probe
<1>1. PICK i \in 1..Len(inbox) : is_discovery_probe(inbox[i]) /\ inbox[i].from = a
  BY DEF ProbesWait
<1>2. i \in 1..Len(inbox') /\ inbox'[i] = inbox[i]
  BY AddedPacket
<1>3. is_discovery_probe(inbox'[i]) /\ inbox'[i].from = a
  BY <1>1, <1>2 DEF is_discovery_probe
<1>4. QED
  BY <1>2, <1>3

LEMMA ProbesStay ==
  ASSUME InboxType, ProbesWait, [DiscoveryNext]_discovery_vars
  PROVE  InboxType' /\ ProbesWait'
<1>1. CASE UNCHANGED <<inbox, waiting>>
  BY <1>1 DEF InboxType, ProbesWait, is_discovery_probe
<1>2. CASE send_ok
  <2>1. CASE UNCHANGED inbox
    BY <1>1, <1>2, <2>1 DEF send_ok
  <2>2. CASE inbox' = Append(inbox, Packet("announcement", Absent))
    BY <1>2, <2>2, AddedKeeps DEF send_ok
  <2>3. QED
    BY <1>2, <2>1, <2>2 DEF send_ok
<1>3. CASE others_send
  <2>1. PICK kind \in {"announcement", "noise"} : inbox' = Append(inbox, Packet(kind, Absent))
    BY <1>3 DEF others_send
  <2>2. QED
    BY <1>3, <2>1, AddedKeeps DEF others_send
<1>4. ASSUME NEW a \in Apps, app_probes(a) PROVE InboxType' /\ ProbesWait'
  <2>1. PICK kind \in {"probe", "padded_probe"} : inbox' = Append(inbox, Packet(kind, a))
    BY <1>4 DEF app_probes
  <2>2. waiting' = waiting \cup {a}
    BY <1>4 DEF app_probes
  <2> DEFINE p == Packet(kind, a)
             l == Len(inbox')
  <2>3. is_discovery_probe(p) /\ p.from = a
    BY DEF Packet, is_discovery_probe
  <2> HIDE DEF p
  <2>4. /\ InboxType' /\ Len(inbox) \in Nat /\ l = Len(inbox) + 1
        /\ \A i \in 1..Len(inbox) : i \in 1..l /\ inbox'[i] = inbox[i]
        /\ inbox'[l] = p
    BY <2>1, AddedPacket DEF p
  <2> HIDE DEF l
  <2>5. ASSUME NEW b \in waiting'
        PROVE  \E i \in 1..l : is_discovery_probe(inbox'[i]) /\ inbox'[i].from = b
    <3>1. CASE b = a
      <4>1. l \in 1..l
        BY <2>4
      <4>2. is_discovery_probe(inbox'[l]) /\ inbox'[l].from = b
        BY <2>3, <2>4, <3>1, Zenon
      <4>3. QED
        BY <4>1, <4>2
    <3>2. CASE b \in waiting
      <4>1. PICK i \in 1..Len(inbox) : is_discovery_probe(inbox[i]) /\ inbox[i].from = b
        BY <3>2 DEF ProbesWait
      <4>2. i \in 1..l /\ is_discovery_probe(inbox'[i]) /\ inbox'[i].from = b
        BY <2>4, <4>1 DEF is_discovery_probe
      <4>3. QED
        BY <4>2
    <3>3. QED
      BY <2>2, <2>5, <3>1, <3>2
  <2>6. QED
    BY <2>4, <2>5 DEF l, ProbesWait, is_discovery_probe
<1>5. CASE recv_packet
  <2>1. /\ inbox # <<>> /\ inbox' = Tail(inbox)
        /\ waiting' \subseteq waiting
        /\ is_discovery_probe(Head(inbox)) => Head(inbox).from \notin waiting'
    BY <1>5 DEF recv_packet
  <2> DEFINE l == Len(inbox)
  <2>2. PICK S : inbox \in Seq(S)
    BY DEF InboxType
  <2>3. /\ l \in Nat \ {0} /\ Head(inbox) = inbox[1]
        /\ inbox' \in Seq(S) /\ Len(inbox') = l - 1
        /\ \A i \in 1..(l - 1) : inbox'[i] = inbox[i + 1]
    BY <2>1, <2>2
  <2> HIDE DEF l
  <2>4. ASSUME NEW a \in waiting'
        PROVE  \E i \in 1..Len(inbox') : is_discovery_probe(inbox'[i]) /\ inbox'[i].from = a
    <3>1. PICK i \in 1..l : is_discovery_probe(inbox[i]) /\ inbox[i].from = a
      BY <2>1, <2>4 DEF ProbesWait, l
    <3>2. i # 1
      BY <2>1, <2>3, <2>4, <3>1
    <3>3. i - 1 \in 1..(l - 1) /\ (i - 1) + 1 = i
      BY <2>3, <3>2
    <3>4. is_discovery_probe(inbox'[i - 1]) /\ inbox'[i - 1].from = a
      BY <2>3, <3>1, <3>3 DEF is_discovery_probe
    <3>5. QED
      BY <2>3, <3>3, <3>4
  <2>5. QED
    BY <2>3, <2>4 DEF InboxType, ProbesWait, is_discovery_probe
<1>6. CASE UNCHANGED discovery_vars
  BY <1>1, <1>6 DEF discovery_vars
<1>7. CASE thread \/ recv_err \/ tick \/ network_changes
  BY <1>1, <1>2, <1>5, <1>7
     DEF thread, bind_sockets, announce_check, send_err, recv_timeout, recv_err, tick, network_changes
<1>8. QED
  BY <1>3, <1>4, <1>6, <1>7 DEF DiscoveryNext

\* An app never waits for an answer that nothing is left to cause: until it is
\* answered, its probe is in the socket, whatever else arrives between
\* (discovery_runtime.rs serve_discovery_socket).
THEOREM ProbesCorrect == DiscoverySpec => []ProbesWait
<1>1. DiscoveryInit => InboxType /\ ProbesWait
  <2> SUFFICES ASSUME DiscoveryInit PROVE InboxType /\ ProbesWait
    OBVIOUS
  <2>1. inbox \in Seq({}) /\ waiting = {}
    BY DEF DiscoveryInit
  <2>2. QED
    BY <2>1 DEF InboxType, ProbesWait
<1>2. InboxType /\ ProbesWait /\ [DiscoveryNext]_discovery_vars => InboxType' /\ ProbesWait'
  BY ProbesStay
<1>3. QED
  BY <1>1, <1>2, PTL DEF DiscoverySpec
===============================================================================
