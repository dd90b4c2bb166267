---------------------------- MODULE PacketPath ----------------------------
(***************************************************************************)
(* The path of an outbound TCP or UDP packet through handle_pkt in         *)
(* SingleHost mode (diverters/diverterbase.py): the tables that send a     *)
(* packet for somewhere else to a local listener and make the answer look  *)
(* as if it came from there, and the session records that tell a listener  *)
(* which process it serves.                                                *)
(*                                                                         *)
(* One thread handles packets, one at a time; between two packets the      *)
(* programs of the host open, close and reuse ports, answers are delayed,  *)
(* and listeners ask for the session of a request they got earlier.        *)
(***************************************************************************)
EXTENDS Naturals, FiniteSets

CONSTANTS
    Protos,
    Ext,            \* the local address that packets are redirected to
    Foreign,        \* addresses of other hosts
    Bound,          \* ports of FakeNet's listeners, for every protocol
    Hidden,         \* the bound ports that only the proxy may reach
    Default,        \* the port of the default listener
    Services,       \* ports of other programs of this host that answer
    Targets,        \* further destination ports
    ClientPorts, ProxyPorts, DataPorts,     \* ephemeral ports, by who uses them
    Procs,          \* the programs that send
    Unseen,         \* the ones that get_pid_comm sometimes does not find
    Self,           \* FakeNet itself
    BlackProcs, BlackHosts,     \* the global lists
    PortLists,      \* <<program or host, port>> that the lists of a listener exempt
    Destinations,   \* <<address, port>> that programs send to
    MaxOpen,        \* bound: requests waiting for their answer
    MaxSends,       \* bound: packets that open a conversation
    None

ASSUME PathConstants ==
    /\ Hidden \subseteq Bound /\ Default \in Bound \ Hidden
    /\ Ext \notin Foreign /\ Self \notin Procs \cup BlackProcs
    /\ (ClientPorts \cup ProxyPorts \cup DataPorts) \cap (Bound \cup Services \cup Targets) = {}

Addresses == {Ext} \cup Foreign
Ports == Bound \cup Services \cup Targets \cup ClientPorts \cup DataPorts
Endpoints == Protos \X Addresses \X Ports
Programs == Procs \cup {Self, None}

ASSUME PathNone == None \notin [dst : Addresses, dport : Ports, comm : Programs]
ASSUME PathDestinations == Destinations \subseteq Addresses \X (Bound \cup Services \cup Targets)

VARIABLES
    portFwd,    \* port_fwd_table: client endpoint -> the port it asked for
    ipFwd,      \* ip_fwd_table: client endpoint -> the address it asked for
    ignoreTab,  \* ignore_table: client endpoint -> the port of an ignored conversation
    blackPorts, \* blacklist_ports
    sessions,   \* sessions, keyed by source port alone
    proxyMap,   \* proxy_sport_to_orig_sport_map
    inbox,      \* requests that a listener or a service has not answered
    last,       \* history: the latest packet of every client endpoint
    latest,     \* history: the latest packet of every source port
    reply,      \* the answer delivered by the step before
    sends,      \* the packets so far that open a conversation
    nbi         \* the indicator logged by the step before

tables == <<portFwd, ipFwd, ignoreTab, blackPorts, sessions>>
pathVars == <<tables, proxyMap, inbox, last, latest, reply, sends, nbi>>

Put(f, k, v) == [x \in DOMAIN f \cup {k} |-> IF x = k THEN v ELSE f[x]]
Drop(f, k) == [x \in DOMAIN f \ {k} |-> f[x]]
Empty == [x \in {} |-> None]

Init ==
    /\ portFwd = Empty /\ ipFwd = Empty /\ ignoreTab = Empty
    /\ blackPorts = [p \in Protos |-> {}] /\ sessions = Empty /\ proxyMap = Empty
    /\ inbox = {} /\ last = Empty /\ latest = Empty
    /\ reply = None /\ nbi = None /\ sends = 0

----------------------------------------------------------------------------
(* A packet: protocol, the addresses and ports it has when it is read, and the program
   that get_pid_comm finds for it, or None. *)
SKey(pkt) == <<pkt.proto, pkt.src, pkt.sport>>
DKey(pkt) == <<pkt.proto, pkt.dst, pkt.dport>>

(* A listener opens a connection of its own from a port that nobody is bound to: the data
   connection of active FTP. *)
ListenerInitiated(pkt) ==
    /\ pkt.comm = Self /\ pkt.dst = Ext /\ pkt.src = Ext
    /\ {pkt.sport, pkt.dport} \cap Bound = {}

CheckShouldIgnore(pkt) ==
    \/ pkt.comm \in BlackProcs \/ <<pkt.comm, pkt.dport>> \in PortLists
    \/ {pkt.sport, pkt.dport} \cap blackPorts[pkt.proto] # {}
    \/ pkt.dst \in BlackHosts \/ <<pkt.dst, pkt.dport>> \in PortLists
    \/ ListenerInitiated(pkt)

DecideRedirPort(pkt) ==
    \/ pkt.src # Ext /\ pkt.dport \notin Bound
    \/ pkt.sport \notin Bound /\ pkt.dport \notin Bound

(* The four ways through maybe_redir_port. *)
Wants(pkt) == pkt.dport \in Hidden \/ DecideRedirPort(pkt)
Considered(pkt) ==
    /\ DKey(pkt) \notin DOMAIN portFwd /\ Wants(pkt)
    /\ ~(DKey(pkt) \in DOMAIN ignoreTab /\ ignoreTab[DKey(pkt)] = pkt.sport)
Redirected(pkt) == Considered(pkt) /\ ~CheckShouldIgnore(pkt)
Passed(pkt) == DKey(pkt) \notin DOMAIN portFwd /\ ~Wants(pkt)

(* Faulty: a client port that is used again keeps its entry. *)
PortFwdKept(pkt) ==
    IF Redirected(pkt) THEN Put(portFwd, SKey(pkt), pkt.dport) ELSE portFwd
PortFwdAfter(pkt) ==
    IF Redirected(pkt) THEN Put(portFwd, SKey(pkt), pkt.dport)
    ELSE IF Passed(pkt) THEN Drop(portFwd, SKey(pkt)) ELSE portFwd

IgnoreAfter(pkt) ==
    IF Considered(pkt) /\ CheckShouldIgnore(pkt)
    THEN Put(ignoreTab, SKey(pkt), pkt.dport) ELSE ignoreTab

(* Faulty: entries of the address table are never removed. *)
IpFwdKept(pkt) ==
    IF ~CheckShouldIgnore(pkt) /\ pkt.dst \in Foreign
    THEN Put(ipFwd, SKey(pkt), pkt.dst) ELSE ipFwd
IpFwdAfter(pkt) ==
    IF CheckShouldIgnore(pkt) THEN ipFwd
    ELSE IF pkt.dst \in Foreign THEN Put(ipFwd, SKey(pkt), pkt.dst)
    ELSE Drop(ipFwd, SKey(pkt))

BlackAfter(pkt) ==
    IF ListenerInitiated(pkt) THEN [blackPorts EXCEPT ![pkt.proto] = @ \cup {pkt.sport}]
    ELSE blackPorts

(* What the packet looks like when the four callbacks are done. *)
Mangled(pkt) ==
    [pkt EXCEPT
       !.dport = IF Redirected(pkt) THEN Default ELSE @,
       !.sport = IF DKey(pkt) \in DOMAIN PortFwdAfter(pkt) THEN PortFwdAfter(pkt)[DKey(pkt)] ELSE @,
       !.dst = IF ~CheckShouldIgnore(pkt) /\ pkt.dst \in Foreign THEN Ext ELSE @,
       !.src = IF DKey(pkt) \in DOMAIN IpFwdAfter(pkt) THEN IpFwdAfter(pkt)[DKey(pkt)] ELSE @]

(* Faulty: a change of the program is not noticed. *)
SameDestinationIsOld(pkt, dport) ==
    \/ pkt.sport \notin DOMAIN sessions
    \/ <<sessions[pkt.sport].dst, sessions[pkt.sport].dport>> # <<pkt.dst, dport>>
(* Asked after the port, and before the address, has been rewritten. *)
FirstPacketNewSession(pkt, dport) ==
    \/ pkt.sport \notin DOMAIN sessions
    \/ pkt.comm # None /\ sessions[pkt.sport].comm # pkt.comm
    \/ <<sessions[pkt.sport].dst, sessions[pkt.sport].dport>> # <<pkt.dst, dport>>

SessionsAfter(pkt) ==
    IF (Redirected(pkt) \/ Passed(pkt)) /\ FirstPacketNewSession(pkt, Mangled(pkt).dport)
    THEN Put(sessions, pkt.sport,
             [dst |-> pkt.dst, dport |-> Mangled(pkt).dport, comm |-> pkt.comm])
    ELSE sessions

HandlePkt(pkt) ==
    /\ portFwd' = PortFwdAfter(pkt) /\ ipFwd' = IpFwdAfter(pkt)
    /\ ignoreTab' = IgnoreAfter(pkt) /\ blackPorts' = BlackAfter(pkt)
    /\ sessions' = SessionsAfter(pkt)

----------------------------------------------------------------------------
(* A program sends from a client port to anywhere; get_pid_comm may not find it.  What
   reaches a port of this host that somebody serves waits there for its answer. *)
ClientSends(proto, proc, comm, sport, dst, dport) ==
    LET pkt == [proto |-> proto, src |-> Ext, sport |-> sport, dst |-> dst, dport |-> dport,
                comm |-> comm]
        out == Mangled(pkt)
        sent == [proto |-> proto, proc |-> proc, known |-> comm # None, dst |-> dst,
                 dport |-> dport, ignored |-> CheckShouldIgnore(pkt),
                 left |-> out.dst \in Foreign]
    IN /\ sends < MaxSends /\ sends' = sends + 1 /\ HandlePkt(pkt)
       /\ last' = Put(last, SKey(pkt), sent) /\ latest' = Put(latest, sport, sent)
       /\ IF out.dst = Ext /\ out.dport \in Bound \cup Services
          THEN /\ Cardinality(inbox) < MaxOpen
               /\ inbox' = inbox \cup {[sent |-> sent, client |-> sport, sees |-> out.sport,
                                        at |-> out.dport, via |-> None]}
          ELSE UNCHANGED inbox
       /\ reply' = None /\ nbi' = None /\ UNCHANGED proxyMap

(* A listener connects to a client's data port. *)
ListenerConnects(proto, sport, dport) ==
    LET pkt == [proto |-> proto, src |-> Ext, sport |-> sport, dst |-> Ext,
                dport |-> dport, comm |-> Self]
        sent == [proto |-> proto, proc |-> Self, known |-> TRUE, dst |-> Ext,
                 dport |-> dport, ignored |-> TRUE, left |-> FALSE]
    IN /\ sends < MaxSends /\ sends' = sends + 1 /\ HandlePkt(pkt)
       /\ last' = Put(last, SKey(pkt), sent) /\ latest' = Put(latest, sport, sent)
       /\ reply' = None /\ nbi' = None /\ UNCHANGED <<proxyMap, inbox>>

(* The answer to a request, to the port that the server saw it come from. *)
ServerReplies(r) ==
    LET pkt == [proto |-> r.sent.proto, src |-> Ext, sport |-> r.at, dst |-> Ext,
                dport |-> r.sees, comm |-> IF r.at \in Bound THEN Self ELSE None]
        out == Mangled(pkt)
    IN /\ HandlePkt(pkt)
       /\ reply' = [to |-> out.dport, from |-> <<out.src, out.sport>>, request |-> r,
                    current |-> last[<<r.sent.proto, Ext, r.client>>] = r.sent]
       /\ inbox' = inbox \ {r} /\ nbi' = None
       /\ UNCHANGED <<proxyMap, last, latest, sends>>

(* The proxy connects, over loopback, to the listener it chose for a request. *)
MapProxySport(r, sport) ==
    /\ r.at = Default /\ r.via = None /\ \A q \in inbox : q.via # sport
    /\ proxyMap' = Put(proxyMap, <<r.sent.proto, sport>>, r.sees)
    /\ inbox' = (inbox \ {r}) \cup {[r EXCEPT !.via = sport]}
    /\ reply' = None /\ nbi' = None /\ UNCHANGED <<tables, last, latest, sends>>

(* The client's port, looked up if the request came through the proxy. *)
OrigSport(r) ==
    LET sport == IF r.via = None THEN r.sees ELSE r.via
        key == <<r.sent.proto, sport>>
    IN IF key \in DOMAIN proxyMap THEN proxyMap[key] ELSE sport

(* A client that asks a listener directly has a port the proxy once had. *)
HadByProxy(r) == r.via = None /\ <<r.sent.proto, r.sees>> \in DOMAIN proxyMap

(* A listener logs what it learnt from a request; without a session nothing is logged. *)
LogNbi(r) ==
    /\ r.at \in Bound
    /\ nbi' = [session |-> IF OrigSport(r) \in DOMAIN sessions THEN sessions[OrigSport(r)]
                           ELSE None,
               request |-> r.sent, current |-> latest[r.client] = r.sent,
               reused |-> HadByProxy(r)]
    /\ reply' = None /\ UNCHANGED <<tables, proxyMap, inbox, last, latest, sends>>

Next ==
    \/ \E proto \in Protos, proc \in Procs, sport \in ClientPorts, d \in Destinations :
         \E comm \in {proc} \cup (IF proc \in Unseen THEN {None} ELSE {}) :
           ClientSends(proto, proc, comm, sport, d[1], d[2])
    \/ \E proto \in Protos, sport \in ClientPorts, dport \in DataPorts :
         ListenerConnects(proto, sport, dport)
    \/ \E r \in inbox :
         \/ ServerReplies(r) \/ LogNbi(r)
         \/ \E sport \in ProxyPorts : MapProxySport(r, sport)

Spec == Init /\ [][Next]_pathVars

----------------------------------------------------------------------------
(* The types; and the two tables describe the latest packet of every client endpoint that
   is not ignored, whatever its port was used for before: an entry is there exactly when
   that packet was rewritten, and it holds what the packet asked for.  (Where no program
   talks to a server of this host that is not a listener: see IgnoredIsNotForwarded.) *)
TablesAreCurrent ==
    /\ DOMAIN portFwd \subseteq Endpoints /\ DOMAIN ipFwd \subseteq Endpoints
    /\ \A p \in Protos : blackPorts[p] \subseteq Ports
    /\ \A k \in DOMAIN last : ~last[k].ignored =>
         /\ k \in DOMAIN portFwd <=> last[k].dport \notin Bound \ Hidden
         /\ k \in DOMAIN portFwd => portFwd[k] = last[k].dport
         /\ k \in DOMAIN ipFwd <=> last[k].dst \in Foreign
         /\ k \in DOMAIN ipFwd => ipFwd[k] = last[k].dst

(* The answer to a client's latest request, when that was not to be ignored, reaches the
   client, from the address and the port the client asked for, however many packets and
   answers of others came in between.  (Where no program talks to a server of this host
   that is not a listener: see IgnoredIsNotForwarded.) *)
ReplyIsFromAsked ==
    reply # None /\ reply.current /\ ~reply.request.sent.ignored =>
      /\ reply.to = reply.request.client
      /\ reply.from = <<reply.request.sent.dst, reply.request.sent.dport>>

(* What a listener logs about the latest request of a source port is put down to the
   program that made it and the host it asked for, directly or through the proxy, also
   when another program, or a flow of the other protocol, had the port before, and when
   the proxy's port is also a client's.  The one exception is a client that asks directly
   from a port the proxy has had: see NbiOfReusedPort. *)
Attributed(entry) ==
    entry.session # None /\ entry.session.comm = entry.request.proc
    /\ entry.session.dst = entry.request.dst
NbiIsAttributed ==
    nbi # None /\ nbi.current /\ nbi.request.known /\ ~nbi.request.ignored /\ ~nbi.reused =>
      Attributed(nbi)

(* diverterbase.py:2419-2421: "For non-proxied nbis, use listener provided
   is_ssl_encrypted and sport."  Does not hold for a client that gets a port the proxy has
   had: proxy_sport_to_orig_sport_map is never cleaned, and the indicator is put down to
   the client that the proxy then served. *)
NbiOfReusedPort ==
    nbi # None /\ nbi.current /\ nbi.request.known /\ ~nbi.request.ignored /\ nbi.reused =>
      Attributed(nbi)

(* diverterbase.py:632: the ignored conversations are tracked so that an answer to one
   "does not erroneously trigger port forwarding".  Does not hold when a client port is
   used for two ignored destinations in turn. *)
IgnoredIsNotForwarded ==
    reply # None /\ reply.request.sent.ignored => reply.to # Default

(* Of a program on no list, nothing leaves the host.  Does not hold once a listener has
   opened a connection from the port that the program gets next. *)
Contained ==
    \A k \in DOMAIN last : last[k].left => last[k].proc \in BlackProcs \/ last[k].dst \in BlackHosts
=============================================================================
