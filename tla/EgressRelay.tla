----------------------------- MODULE EgressRelay -----------------------------
(***************************************************************************)
(* Domain egress through the TLS relay: the NAT tables and the permits of  *)
(* EgressPolicy (fakenet/diverters/egresspolicy.py), the receiver thread   *)
(* of the Windows diverter that creates and matches the mappings           *)
(* (_handle_policy_packet in windows.py), and DomainEgressRelay            *)
(* (fakenet/listeners/DomainEgressRelay.py) with its accept loop and one   *)
(* worker thread per connection.                                           *)
(*                                                                         *)
(* A client's SYN towards an allowed server opens a mapping and is sent to *)
(* the relay instead; the accept loop consumes the mapping; the worker     *)
(* checks the ClientHello, takes a slot, opens the upstream connection     *)
(* under a permit, activates the mapping and relays until it ends.  Every  *)
(* table has its own lock and every step of the model is one critical      *)
(* section or one blocking call, so that suspend, expiry, a failed send,   *)
(* stop and quiesce fall between any two of them.                          *)
(*                                                                         *)
(* A flow is the tuple (client endpoint, server).  The relay address of a  *)
(* mapping is the client's own address, so the reverse key is determined   *)
(* by the client endpoint.  A mapping is named by its generation, which is *)
(* never used twice; its worker and its two sockets bear the same name.    *)
(* Deadlines are the time left, counted down by Tick.  A DNS lease for the *)
(* server may be current or not whenever a SYN arrives.  Host names, SNI   *)
(* parsing, the bytes relayed and the log are left out.                    *)
(***************************************************************************)
EXTENDS Naturals, FiniteSets, Functions, TLC

CONSTANTS
    Flows,                 \* (client endpoint, server) tuples
    ClientOf,              \* the client endpoint of a flow
    SourceOf,              \* the address of a client endpoint
    MaxGen,                \* bound: mappings created in a behaviour
    MaxPending, MaxPendingPerSource,     \* 256 and 32 in the code
    MaxActive, MaxActivePerSource,       \* 128 and 16 in the code
    PendingLife,           \* hello timeout + 5 s
    ActiveLife,            \* idle timeout + 30 s, of mappings and permits
    Grace,                 \* 5 s: rewrite kept after the mapping is closed
    Tomb                   \* 120 s: the tuple is refused to a new connection

Gens    == 1..MaxGen
Clients == {ClientOf[f] : f \in Flows}
Sources == {SourceOf[c] : c \in Clients}
Sockets == Gens \X {"client", "upstream"}
NoGen   == 0

(* The constants of the class: a torn down tuple stays refused for longer  *)
(* than its rewrite is kept.                                               *)
ASSUME RelayTimes ==
    /\ {PendingLife, ActiveLife, Grace} \subseteq Nat \ {0}
    /\ Tomb \in Nat /\ Grace < Tomb
ASSUME RelayConstants ==
    /\ ClientOf \in [Flows -> Clients] /\ SourceOf \in [Clients -> Sources]
    /\ MaxGen \in Nat /\ IsFiniteSet(Flows)
    /\ {MaxPending, MaxPendingPerSource, MaxActive, MaxActivePerSource}
         \subseteq Nat

VARIABLES
    suspended,   \* the policy is suspended, or closed after that
    nat,         \* the NAT tables, tombstones, counters and permits
    generation,  \* the last generation given out
    stop,        \* stop(): "running", "set" (the event), "closed" (sockets)
    quiesced,    \* the event of quiesce()
    backlog,     \* clients whose SYN reached the relay's listening socket
    acc,         \* the accept loop: where it is, and with which mapping
    w,           \* generation -> where its worker is
    hold,        \* generation -> the slot its worker holds
    conns,       \* sockets in _connections
    open,        \* sockets that are open
    slots        \* the relay's counters: _pending_ and _active_by_source

vars == <<suspended, nat, generation, stop, quiesced, backlog,
          acc, w, hold, conns, open, slots>>
policy == <<suspended, nat, generation>>
relay  == <<stop, quiesced, backlog, acc, w, hold, conns, open, slots>>

stopping == stop # "running"      \* the event _stop is set
Zero == [s \in Sources |-> 0]
Mapping == [flow : Flows, consumed : BOOLEAN, active : BOOLEAN,
            left : 0..PendingLife + ActiveLife + Grace]
NoMapping == [consumed |-> FALSE]
Accepting == [at |-> "accept", gen |-> NoGen]

AtWorker == {"none", "new", "added", "hello", "socket", "register",
             "connect", "relay", "finally", "closing", "unmap", "gone"}

(* Every variable keeps its shape; in particular no generation is in the  *)
(* table that create_relay_mapping has not given out.                     *)
ETypeOK ==
    /\ {suspended, quiesced} \subseteq BOOLEAN
    /\ stop \in {"running", "set", "closed"}
    /\ nat.fwd \in [Flows -> Gens \cup {NoGen}]
    /\ nat.rev \in [Clients -> Gens \cup {NoGen}]
    /\ nat.cli \in [Clients -> Gens \cup {NoGen}]
    /\ nat.gen \subseteq 1..generation
    /\ nat.obj \in [Gens -> Mapping \cup {NoMapping}]
    /\ nat.tomb \in [Flows -> 0..Tomb] /\ nat.ctomb \in [Clients -> 0..Tomb]
    /\ nat.pend \in [Sources -> Nat] /\ nat.act \in [Sources -> Nat]
    /\ nat.permit \in [Gens -> 0..ActiveLife]
    /\ generation \in 0..MaxGen
    /\ backlog \subseteq Clients
    /\ acc \in [at : {"accept", "admit", "retire"}, gen : Gens \cup {NoGen}]
    /\ w \in [Gens -> AtWorker]
    /\ hold \in [Gens -> {"none", "pending", "active"}]
    /\ conns \subseteq Sockets /\ open \subseteq Sockets
    /\ slots \in [pend : [Sources -> Nat], act : [Sources -> Nat]]

EmptyTables(n) ==
    [n EXCEPT !.fwd = [f \in Flows |-> NoGen], !.rev = [c \in Clients |-> NoGen],
              !.cli = [c \in Clients |-> NoGen], !.gen = {},
              !.pend = Zero, !.act = Zero, !.permit = [g \in Gens |-> 0]]

EInit ==
    /\ suspended = FALSE
    /\ nat = EmptyTables([fwd |-> 0, rev |-> 0, cli |-> 0, gen |-> {},
                          pend |-> 0, act |-> 0, permit |-> 0,
                          obj |-> [g \in Gens |-> NoMapping],
                          tomb |-> [f \in Flows |-> 0],
                          ctomb |-> [c \in Clients |-> 0]])
    /\ generation = 0
    /\ stop = "running" /\ quiesced = FALSE
    /\ backlog = {} /\ acc = Accepting
    /\ w = [g \in Gens |-> "none"] /\ hold = [g \in Gens |-> "none"]
    /\ conns = {} /\ open = {}
    /\ slots = [pend |-> Zero, act |-> Zero]

-----------------------------------------------------------------------------
(* The tables of EgressPolicy, as functions from their state to the next.  *)

Client(n, g) == ClientOf[n.obj[g].flow]
Source(n, g) == SourceOf[Client(n, g)]
Full(count, s, max, perSource) ==
    SumFunction(count) >= max \/ count[s] >= perSource
Less(a, b) == IF b > a THEN 0 ELSE a - b
Without(table, E) ==
    [k \in DOMAIN table |-> IF table[k] \in E THEN NoGen ELSE table[k]]

\* An object in no table is only asked for its addresses any more.
Forget(n) ==
    LET kept == n.gen \cup Range(n.fwd) \cup Range(n.rev)
    IN  [n EXCEPT !.obj = [g \in Gens |->
            IF g \in kept \/ n.obj[g] = NoMapping THEN n.obj[g]
            ELSE [n.obj[g] EXCEPT !.consumed = FALSE, !.active = FALSE,
                                  !.left = 0]]]

\* Quota and identity of the mappings E are given up, their tuples refused.
Released(n, E) ==
    LET of(s, act) == Cardinality({g \in E : Source(n, g) = s /\ n.obj[g].active = act})
    IN  [n EXCEPT !.gen = @ \ E,
                  !.pend = [s \in Sources |-> Less(@[s], of(s, FALSE))],
                  !.act = [s \in Sources |-> Less(@[s], of(s, TRUE))],
                  !.tomb = [f \in Flows |->
                      IF \E g \in E : n.obj[g].flow = f THEN Tomb ELSE @[f]],
                  !.ctomb = [c \in Clients |->
                      IF \E g \in E : Client(n, g) = c THEN Tomb ELSE @[c]]]

\* _remove_mapping_locked, of every mapping in E
Removed(n, E) ==
    Forget([Released(n, E) EXCEPT !.fwd = Without(@, E),
                                  !.rev = Without(@, E),
                                  !.cli = Without(@, E)])

\* _retain_mapping_for_teardown_locked: the rewrite stays for the grace.
Retained(n, g) ==
    [Released(n, {g}) EXCEPT !.cli[Client(n, g)] = NoGen,
                             !.obj[g].active = FALSE,
                             !.obj[g].left = Grace]

\* close_relay_mapping
Closed(n, g) == IF g \in n.gen THEN Retained(n, g) ELSE n

\* _cleanup_locked, the first thing nearly every operation does
Cleaned(n) ==
    LET over == {g \in Gens : n.obj[g] # NoMapping /\ n.obj[g].left = 0}
        m == Removed(n, over \cap n.gen)
    IN  Forget([m EXCEPT !.fwd = Without(@, over), !.rev = Without(@, over)])

Refreshed(n, g) ==
    IF n.obj[g].active THEN [n EXCEPT !.obj[g].left = ActiveLife] ELSE n

-----------------------------------------------------------------------------
(* The packet thread: a packet is matched, or opens a mapping, and is then *)
(* sent.  Nothing but the mapping's generation is carried from one to the  *)
(* other.                                                                  *)

\* A SYN reaches the relay unless the client's last connection is there.
Connected(n, c) ==
    \E g \in Gens : /\ <<g, "client">> \in open \/ acc.gen = g
                   /\ Client(n, g) = c
Arrives(n, g) ==
    backlog' = IF stopping \/ Connected(n, Client(n, g)) THEN backlog
               ELSE backlog \cup {Client(n, g)}

\* _match_nat on the forward or the reverse table.  When the verdict is to
\* drop, or the send fails, the mapping is closed.
Match(g, syn, sent) ==
    /\ ~suspended
    /\ LET n == Cleaned(nat)
       IN  /\ n.fwd[n.obj[g].flow] = g \/ (~syn /\ n.rev[Client(n, g)] = g)
           /\ nat' = IF sent THEN Refreshed(n, g) ELSE Closed(n, g)
           /\ IF sent /\ syn THEN Arrives(n, g) ELSE UNCHANGED backlog
    /\ UNCHANGED <<suspended, generation, stop, quiesced, acc, w, hold, conns,
                   open, slots>>

MatchNat == \E g \in 1..generation, syn, sent \in BOOLEAN : Match(g, syn, sent)

Refused(n, f) ==
    \/ n.cli[ClientOf[f]] # NoGen
    \/ n.tomb[f] > 0 \/ n.ctomb[ClientOf[f]] > 0
    \/ Full(n.pend, SourceOf[ClientOf[f]], MaxPending, MaxPendingPerSource)

Inserted(n, f, g) ==
    LET c == ClientOf[f]
    IN  [n EXCEPT !.fwd[f] = g, !.rev[c] = g, !.cli[c] = g,
                  !.gen = @ \cup {g}, !.pend[SourceOf[c]] = @ + 1,
                  !.obj[g] = [flow |-> f, consumed |-> FALSE, active |-> FALSE,
                              left |-> PendingLife]]

\* redirect_domain_tls_syn: the SYN of a flow that matches no mapping
CreateRelayMapping ==
    /\ ~suspended /\ generation < MaxGen
    /\ \E f \in Flows, sent \in BOOLEAN :
         LET n == Cleaned(nat)
             g == generation + 1
             m == Inserted(n, f, g)
         IN  /\ n.fwd[f] = NoGen /\ ~Refused(n, f)
             /\ generation' = g
             /\ IF n.rev[ClientOf[f]] # NoGen
                THEN nat' = n /\ UNCHANGED backlog
                ELSE /\ nat' = IF sent THEN m ELSE Closed(m, g)
                     /\ IF sent THEN Arrives(m, g) ELSE UNCHANGED backlog
    /\ UNCHANGED <<suspended, stop, quiesced, acc, w, hold, conns, open, slots>>

\* A packet that is refused, or belongs to no mapping, only cleans up.
OnlyCleanup ==
    /\ ~suspended
    /\ nat' = Cleaned(nat)
    /\ UNCHANGED <<suspended, generation, relay>>

\* match_control_flow: a packet of the upstream connection
UpstreamPacket ==
    /\ ~suspended
    /\ \E g \in Gens :
         /\ nat.permit[g] > 0
         /\ nat' = [Cleaned(nat) EXCEPT !.permit[g] = ActiveLife]
    /\ UNCHANGED <<suspended, generation, relay>>

-----------------------------------------------------------------------------
(* The other users of the policy: DNS answers, the address refresh, stop.  *)

\* update_local_ipv4: one address is gone.  The source of an upstream
\* connection was chosen by the route, so its permit may go or stay.
UpdateLocalIPv4 ==
    /\ ~suspended
    /\ \E s \in Sources, lost \in SUBSET Gens :
         nat' = LET n == Removed(nat, {g \in nat.gen : Source(nat, g) = s})
                IN  [n EXCEPT !.permit = [g \in Gens |->
                                IF g \in lost THEN 0 ELSE @[g]]]
    /\ UNCHANGED <<suspended, generation, relay>>

\* suspend() is final.  It leaves the tombstones, which nothing reads any
\* more; close(), at the end of a stop, empties them too.
Suspend ==
    /\ ~suspended
    /\ suspended' = TRUE
    /\ nat' = Forget([EmptyTables(nat) EXCEPT
                         !.tomb = [f \in Flows |-> 0],
                         !.ctomb = [c \in Clients |-> 0]])
    /\ UNCHANGED <<generation, relay>>

\* Time: every deadline comes nearer.
Tick ==
    /\ nat' = [nat EXCEPT
          !.obj = [g \in Gens |->
                      IF nat.obj[g] = NoMapping THEN NoMapping
                      ELSE [nat.obj[g] EXCEPT !.left = Less(@, 1)]],
          !.tomb = [f \in Flows |-> Less(@[f], 1)],
          !.ctomb = [c \in Clients |-> Less(@[c], 1)],
          !.permit = [g \in Gens |-> Less(@[g], 1)]]
    /\ UNCHANGED <<suspended, generation, relay>>

-----------------------------------------------------------------------------
(* The accept loop *)

Consumable(n, c) == n.cli[c] # NoGen /\ ~n.obj[n.cli[c]].consumed

\* accept(), the tests of the two events and, for a local source within its
\* rate, consume_relay_target.  Without a mapping the socket is closed.
Accept ==
    /\ acc = Accepting /\ ~stopping
    /\ \E c \in backlog, withinRate \in BOOLEAN :
         LET n == IF withinRate THEN Cleaned(nat) ELSE nat
             g == n.cli[c]
         IN  /\ backlog' = backlog \ {c}
             /\ IF withinRate /\ Consumable(n, c)
                THEN /\ nat' = [n EXCEPT !.obj[g].consumed = TRUE,
                                         !.obj[g].left = PendingLife]
                     /\ acc' = [at |-> IF quiesced THEN "retire" ELSE "admit",
                                gen |-> g]
                ELSE nat' = n /\ UNCHANGED acc
    /\ UNCHANGED <<suspended, generation, stop, quiesced, w, hold, conns, open,
                   slots>>

\* _acquire_pending succeeds: the connection gets its worker.
StartWorker ==
    LET g == acc.gen
        s == Source(nat, g)
    IN  /\ acc.at = "admit"
        /\ ~Full(slots.pend, s, MaxPending, MaxPendingPerSource)
        /\ slots' = [slots EXCEPT !.pend[s] = @ + 1]
        /\ w' = [w EXCEPT ![g] = "new"]
        /\ hold' = [hold EXCEPT ![g] = "pending"]
        /\ open' = open \cup {<<g, "client">>}
        /\ acc' = Accepting
        /\ UNCHANGED <<policy, stop, quiesced, backlog, conns>>

\* Quiesced, or no pending slot: the mapping is closed, the client too.
RejectMapping ==
    /\ \/ acc.at = "retire"
       \/ /\ acc.at = "admit"
          /\ Full(slots.pend, Source(nat, acc.gen), MaxPending,
                  MaxPendingPerSource)
    /\ nat' = Closed(nat, acc.gen)
    /\ acc' = Accepting
    /\ UNCHANGED <<suspended, generation, stop, quiesced, backlog, w,
                   hold, conns, open, slots>>

-----------------------------------------------------------------------------
(* stop() and quiesce(): the event first, the sockets afterwards.  Stop    *)
(* comes after the policy was suspended, on every path that calls it.      *)

StopSets ==
    /\ suspended /\ ~stopping
    /\ stop' = "set" /\ backlog' = {}
    /\ UNCHANGED <<policy, quiesced, acc, w, hold, conns, open, slots>>

StopCloses ==
    /\ stop = "set"
    /\ stop' = "closed"
    /\ open' = open \ conns
    /\ UNCHANGED <<policy, quiesced, backlog, acc, w, hold, conns,
                   slots>>

Quiesce ==
    /\ ~quiesced
    /\ quiesced' = TRUE
    /\ open' = open \ conns
    /\ UNCHANGED <<policy, stop, backlog, acc, w, hold, conns, slots>>

-----------------------------------------------------------------------------
(* A worker, _handle_client.  A step that fails raises: the handler goes   *)
(* to its finally block with the slot and the permit it holds.             *)

Go(g, from, to) == w[g] = from /\ w' = [w EXCEPT ![g] = to]
Else(ok, to) == IF ok THEN to ELSE "finally"
Others == UNCHANGED <<suspended, generation, stop, quiesced, backlog, acc>>

AddClient(g) ==
    /\ Go(g, "new", "added")
    /\ conns' = conns \cup {<<g, "client">>}
    /\ Others /\ UNCHANGED <<nat, hold, open, slots>>

TestStop(g) ==
    /\ Go(g, "added", Else(~stopping, "hello"))
    /\ Others /\ UNCHANGED <<nat, hold, conns, open, slots>>

\* Mutant: a refused promotion leaves the pending slot to nobody.
HelloLosesSlot(g) ==
    LET s == Source(nat, g)
        ok == ~Full(slots.act, s, MaxActive, MaxActivePerSource)
    IN  /\ <<g, "client">> \in open /\ ~stopping
        /\ Go(g, "hello", Else(ok, "socket"))
        /\ hold' = [hold EXCEPT ![g] = IF ok THEN "active" ELSE "none"]
        /\ slots' = IF ok THEN [slots EXCEPT !.pend[s] = Less(@, 1),
                                             !.act[s] = @ + 1]
                    ELSE slots
        /\ Others /\ UNCHANGED <<nat, conns, open>>

\* A ClientHello with the mapped name, the second test of _stop, and
\* _promote_active, which gives the pending slot back in either case.
HelloRead(g) ==
    LET s == Source(nat, g)
        ok == ~Full(slots.act, s, MaxActive, MaxActivePerSource)
    IN  /\ <<g, "client">> \in open /\ ~stopping
        /\ Go(g, "hello", Else(ok, "socket"))
        /\ hold' = [hold EXCEPT ![g] = IF ok THEN "active" ELSE "none"]
        /\ slots' = [slots EXCEPT !.pend[s] = Less(@, 1),
                                  !.act[s] = IF ok THEN @ + 1 ELSE @]
        /\ Others /\ UNCHANGED <<nat, conns, open>>

\* Timeout, EOF, another name, the relay stopping, or the socket closed
\* by stop or quiesce
HelloFails(g) ==
    /\ Go(g, "hello", "finally")
    /\ Others /\ UNCHANGED <<nat, hold, conns, open, slots>>

Mapped(n, g) == ~suspended /\ g \in n.gen

\* The upstream socket is added and bound; the third test of _stop, and the
\* first critical section of register_control_flow
AddUpstream(g) ==
    LET n == IF suspended \/ stopping THEN nat ELSE Cleaned(nat)
        ok == ~stopping /\ Mapped(n, g) /\ n.obj[g].consumed
    IN  /\ Go(g, "socket", Else(ok, "register"))
        /\ conns' = conns \cup {<<g, "upstream">>}
        /\ open' = open \cup {<<g, "upstream">>}
        /\ nat' = n
        /\ Others /\ UNCHANGED <<hold, slots>>

Permits == {g \in Gens : nat.permit[g] > 0}

\* Mutant: what the first critical section found is taken for granted.
RegisterBlindly(g) ==
    /\ Go(g, "register", "connect")
    /\ nat' = [nat EXCEPT !.permit[g] = ActiveLife]
    /\ Others /\ UNCHANGED <<hold, conns, open, slots>>

\* The second critical section of register_control_flow
RegisterCommits(g) ==
    LET ok == Mapped(nat, g) /\ Cardinality(Permits) < MaxPending + MaxActive
    IN  /\ Go(g, "register", Else(ok, "connect"))
        /\ nat' = IF ok THEN [nat EXCEPT !.permit[g] = ActiveLife] ELSE nat
        /\ Others /\ UNCHANGED <<hold, conns, open, slots>>

\* connect() returns; then activate_relay_mapping, which does not clean up
\* first and so revives a mapping whose time has just run out.
Activate(g) ==
    LET s == Source(nat, g)
        ok == /\ g \in nat.gen /\ nat.obj[g].consumed
              /\ ~Full(nat.act, s, MaxActive, MaxActivePerSource)
    IN  /\ <<g, "upstream">> \in open
        /\ Go(g, "connect", Else(ok, "relay"))
        /\ nat' = IF ok THEN [nat EXCEPT !.pend[s] = Less(@, 1),
                                         !.act[s] = @ + 1,
                                         !.obj[g].active = TRUE,
                                         !.obj[g].left = ActiveLife]
                  ELSE nat
        /\ Others /\ UNCHANGED <<hold, conns, open, slots>>

\* No source address or no socket for the server, or connect() raises.
UpstreamFails(g) ==
    /\ \E from \in {"socket", "connect"} : Go(g, from, "finally")
    /\ Others /\ UNCHANGED <<nat, hold, conns, open, slots>>

\* The loop of _relay sees _stop within a second, a closed socket at once,
\* and the end of either side or an idle connection when it happens.
RelayEnds(g) ==
    /\ Go(g, "relay", "finally")
    /\ Others /\ UNCHANGED <<nat, hold, conns, open, slots>>

\* The finally block: the slot and the permit,
ReleaseSlot(g) ==
    LET s == Source(nat, g)
        back(kind, n) == IF hold[g] = kind THEN Less(n, 1) ELSE n
    IN  /\ Go(g, "finally", "closing")
        /\ slots' = [slots EXCEPT !.pend[s] = back("pending", @),
                                  !.act[s] = back("active", @)]
        /\ hold' = [hold EXCEPT ![g] = "none"]
        /\ nat' = [nat EXCEPT !.permit[g] = 0]
        /\ Others /\ UNCHANGED <<conns, open>>

\* then the sockets,
CloseSockets(g) ==
    LET mine == {<<g, "client">>, <<g, "upstream">>}
    IN  /\ Go(g, "closing", "unmap")
        /\ conns' = conns \ mine /\ open' = open \ mine
        /\ Others /\ UNCHANGED <<nat, hold, slots>>

\* and the mapping last.
CloseMapping(g) ==
    /\ Go(g, "unmap", "gone")
    /\ nat' = Closed(nat, g)
    /\ Others /\ UNCHANGED <<hold, conns, open, slots>>

WorkerStep(g) ==
    \/ AddClient(g) \/ TestStop(g) \/ HelloRead(g) \/ HelloFails(g)
    \/ AddUpstream(g) \/ RegisterCommits(g) \/ Activate(g) \/ UpstreamFails(g)
    \/ RelayEnds(g)
    \/ ReleaseSlot(g) \/ CloseSockets(g) \/ CloseMapping(g)

ENext ==
    \/ MatchNat \/ CreateRelayMapping \/ OnlyCleanup \/ UpstreamPacket
    \/ UpdateLocalIPv4 \/ Suspend \/ Tick
    \/ Accept \/ StartWorker \/ RejectMapping
    \/ StopSets \/ StopCloses \/ Quiesce
    \/ \E g \in Gens : WorkerStep(g)

ESpec == EInit /\ [][ENext]_vars

-----------------------------------------------------------------------------
(* Properties *)

(* Each of the four counters is exactly the number of those it counts: the *)
(* policy's of the mappings that wait and that are active, the relay's of  *)
(* the workers that hold a slot.  Every one of them is given back on       *)
(* several paths (a failed send, expiry, a failed promotion, the worker's  *)
(* end, suspend), and a slot lost on any of them is lost for good.         *)
QuotasAreExact ==
    \A s \in Sources :
        LET mapped(act) == {g \in nat.gen : Source(nat, g) = s /\ nat.obj[g].active = act}
            holding(k) == {g \in Gens : hold[g] = k /\ Source(nat, g) = s}
        IN  /\ nat.pend[s] = Cardinality(mapped(FALSE))
            /\ nat.act[s] = Cardinality(mapped(TRUE))
            /\ slots.pend[s] = Cardinality(holding("pending"))
            /\ slots.act[s] = Cardinality(holding("active"))

(* The four NAT tables name the same mappings: a mapping of the generation *)
(* table is found under its tuple, its reverse tuple and its client, the   *)
(* client table names no other, and whatever packet rewrite is left over   *)
(* from a closed mapping is refused to a new connection until it is gone.  *)
RelayTablesAgree ==
    /\ \A g \in nat.gen : /\ nat.cli[Client(nat, g)] = g
                           /\ nat.rev[Client(nat, g)] = g
                           /\ nat.fwd[nat.obj[g].flow] = g
    /\ Range(nat.cli) \subseteq nat.gen \cup {NoGen}
    /\ \A f \in Flows : LET g == nat.fwd[f] IN
           g # NoGen /\ g \notin nat.gen /\ nat.obj[g].left > 0 =>
               /\ nat.tomb[f] > nat.obj[g].left
               /\ nat.ctomb[ClientOf[f]] > nat.obj[g].left

(* Once suspended or closed the policy holds nothing a packet could match, *)
(* although the worker that registers its flow leaves the lock in between. *)
UnavailableHoldsNothing ==
    suspended => nat = EmptyTables(nat)

(* A permit for an upstream connection is held by a worker that is still   *)
(* running: no ending leaves the tuple open towards the network.           *)
PermitHasWorker ==
    \A g \in Permits : w[g] \in {"connect", "relay", "finally"}

(* The types, and the three above: what every critical section of          *)
(* EgressPolicy leaves behind for the next one.                            *)
RelayInv == ETypeOK /\ RelayTablesAgree /\ UnavailableHoldsNothing /\ PermitHasWorker

(* When stop() closes the socket of a client, its FIN still reaches the    *)
(* client under the address the client knows: the mapping's rewrite is in  *)
(* force.  This is what fakenet.py says of an orderly stop; the code does  *)
(* not do it, since stop() suspends the policy first.                      *)
StopIsTranslated ==
    [][\A g \in Gens : stop' # stop /\ <<g, "client">> \in open \ open' =>
          /\ ~suspended /\ nat.rev[Client(nat, g)] = g
          /\ nat.obj[g].left > 0]_vars
=============================================================================
