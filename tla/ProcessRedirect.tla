--------------------------- MODULE ProcessRedirect ---------------------------
(***************************************************************************)
(* ProcessRedirectEngine (fakenet/diverters/processredirect.py): the NAT   *)
(* that sends the TCP flows of one audited process from address A to       *)
(* address B and brings the answers back, together with the way the        *)
(* Windows diverter drives it (_apply_process_redirect in windows.py).     *)
(*                                                                         *)
(* A packet is prepared, injected and then committed or aborted.           *)
(* Preparing a SYN takes the engine's lock twice and asks the operating    *)
(* system who owns the socket in between; injecting happens between        *)
(* prepare and commit.  Into those two windows fall the steps of the other *)
(* threads: suspend and resume (address refresh), close (watchdog, stop).  *)
(*                                                                         *)
(* A flow is the TCP tuple (client endpoint, original port): the forward   *)
(* key and the reverse key of a mapping are both determined by it.  A      *)
(* mapping is a Python object; MappingIds are object identities, reused    *)
(* once nothing refers to them.  The generation numbers, audit counters    *)
(* and the wording of drop reasons are left out.                           *)
(*                                                                         *)
(* Time advances by Tick.  A tombstone and a transaction carry the time    *)
(* they have left; the limits that are only ever compared with the clock   *)
(* (pass entries, idle and half-close limits) run out at a tick of the     *)
(* model's choice.  The owner of a flow is whatever the resolver says when *)
(* it is asked, and it may answer anything each time: answers remembered   *)
(* for 3 s and the query budget only remove behaviours, or drop a SYN,     *)
(* which PrepareRefused allows.                                            *)
(***************************************************************************)
EXTENDS Naturals, FiniteSets, Functions, TLC

CONSTANTS
    Receivers,      \* threads that handle packets (the diverter starts one)
    Flows,          \* TCP tuples towards A
    ClientOf,       \* the client endpoint of a flow
    Pids,           \* processes running the audited image
    MappingIds,     \* identities of _Mapping objects
    None,           \* Python's None
    MaxMappings,    \* 1024 in the code
    MaxPerPid,      \* 256 in the code
    MaxPending,     \* 128 in the code
    PendingTTL,     \* 2 s: an uncommitted transaction
    ShortTomb,      \* 3 s: tombstone of a failed injection or timeout
    LongTomb        \* 240 s: tombstone of a closed connection

Clients == {ClientOf[f] : f \in Flows}
Flags   == {"data", "fin", "rst"}     \* of a packet on a mapped flow
Answers == Pids \cup {"other", "unresolved"}     \* OwnerResolution
Txn     == [m : MappingIds, out : BOOLEAN, flag : Flags, new : BOOLEAN,
            ttl : 0..PendingTTL]
Mapping == [flow : Flows, pid : Pids, cfin : BOOLEAN, sfin : BOOLEAN,
            due : BOOLEAN]

(* What the two adapters need for the proof obligations of the code: a     *)
(* transaction is gone before the shortest tombstone is.                   *)
ASSUME TimesAssumption ==
    /\ PendingTTL \in Nat /\ ShortTomb \in Nat /\ LongTomb \in Nat
    /\ PendingTTL < ShortTomb /\ ShortTomb <= LongTomb
ASSUME ConstantsAssumption ==
    /\ ClientOf \in [Flows -> Clients]
    /\ {MaxMappings, MaxPerPid, MaxPending} \subseteq Nat \ {0}
    /\ None \notin MappingIds \cup Pids \cup Flows \cup Txn \cup Mapping
(* A third receiver would break the tables: see TablesAgree.               *)
ASSUME ReceiversAssumption ==
    \A q, r, s \in Receivers : q = r \/ r = s \/ q = s

VARIABLES
    closed, suspended,   \* the two availability flags
    forward, reverse,    \* flow -> mapping: the tables _forward, _reverse
    client,              \* endpoint -> mapping: the table _client
    obj,                 \* the _Mapping objects something refers to
    txn,                 \* receiver -> the transaction of its token
    reservations,        \* flows whose owner is being asked for
    tomb,                \* flow -> time its tombstones have left (0: none)
    apass,               \* flows on the pass list _a_pass
    rcv                  \* receiver -> where it is, and with which packet

tables == <<forward, reverse, client>>
vars == <<closed, suspended, forward, reverse, client, obj, txn,
          reservations, tomb, apass, rcv>>

Idle == [at |-> "idle", flow |-> None, who |-> None]

RTypeOK ==
    /\ closed \in BOOLEAN /\ suspended \in BOOLEAN
    /\ forward \in [Flows -> MappingIds \cup {None}]
    /\ reverse \in [Flows -> MappingIds \cup {None}]
    /\ client \in [Clients -> MappingIds \cup {None}]
    /\ obj \in [MappingIds -> Mapping \cup {None}]
    /\ txn \in [Receivers -> Txn \cup {None}]
    /\ reservations \subseteq Flows
    /\ tomb \in [Flows -> 0..LongTomb]
    /\ apass \subseteq Flows
    /\ rcv \in [Receivers -> [at : {"idle", "query", "guard", "insert", "send"},
                              flow : Flows \cup {None},
                              who : Pids \cup {None}]]

RInit ==
    /\ closed = FALSE /\ suspended = FALSE
    /\ forward = [f \in Flows |-> None]
    /\ reverse = [f \in Flows |-> None]
    /\ client = [c \in Clients |-> None]
    /\ obj = [m \in MappingIds |-> None]
    /\ txn = [r \in Receivers |-> None]
    /\ reservations = {}
    /\ tomb = [f \in Flows |-> 0]
    /\ apass = {}
    /\ rcv = [r \in Receivers |-> Idle]

-----------------------------------------------------------------------------
(* The tables *)

Unavailable == closed \/ suspended

OpenIn(tx)   == {r \in Receivers : tx[r] # None}
PendingNew(tx) == {tx[r].m : r \in {q \in OpenIn(tx) : tx[q].new}}
LiveIn(fwd)  == Range(fwd) \ {None}

\* Python frees an object nothing refers to; its identity may come back.
Kept(objs, fwd, rev, cl, tx) ==
    [m \in MappingIds |->
        IF m \in Range(fwd) \cup Range(rev) \cup Range(cl)
                 \cup {tx[r].m : r \in OpenIn(tx)}
        THEN objs[m] ELSE None]

\* _remove_mapping_locked for every mapping of ms: the two flow tables are
\* cleared by key, the client table only where it holds that very object.
Without(tab, ms) ==
    [f \in Flows |-> IF \E m \in ms : obj[m].flow = f THEN None ELSE tab[f]]

ClientWithout(ms) == [c \in Clients |-> IF client[c] \in ms THEN None ELSE client[c]]

\* _add_tombstone_locked: an older tombstone of the flow is overwritten.
Tombed(tb, ms, seconds) ==
    [f \in Flows |-> IF \E m \in ms : obj[m].flow = f THEN seconds ELSE tb[f]]

-----------------------------------------------------------------------------
(* _cleanup_locked, the first thing prepare does under the lock *)

Overdue  == {r \in OpenIn(txn) : txn[r].ttl = 0}
Expired  == {m \in LiveIn(forward) : obj[m].due}
TimedOut == {txn[r].m : r \in {q \in Overdue : txn[q].new}}

CleanTxn     == [r \in Receivers |-> IF r \in Overdue THEN None ELSE txn[r]]
CleanForward == Without(forward, Expired)
CleanReverse == Without(reverse, Expired)
CleanClient  == ClientWithout(Expired)
CleanTomb    == Tombed(Tombed(tomb, TimedOut, ShortTomb), Expired, LongTomb)

\* What a prepare that opens no transaction leaves behind.
OnlyCleanup ==
    /\ forward' = CleanForward /\ reverse' = CleanReverse
    /\ client' = CleanClient /\ tomb' = CleanTomb /\ txn' = CleanTxn
    /\ obj' = Kept(obj, CleanForward, CleanReverse, CleanClient, CleanTxn)

\* A transaction on a mapping the tables hold: the packet will be rewritten.
OnMapping(r, m, out, flag) ==
    LET tx == [CleanTxn EXCEPT ![r] = [m |-> m, out |-> out, flag |-> flag,
                                       new |-> FALSE, ttl |-> PendingTTL]]
    IN  /\ forward' = CleanForward /\ reverse' = CleanReverse
        /\ client' = CleanClient /\ tomb' = CleanTomb /\ txn' = tx
        /\ obj' = Kept(obj, CleanForward, CleanReverse, CleanClient, tx)
        /\ rcv' = [rcv EXCEPT ![r] = [Idle EXCEPT !.at = "send"]]

Capacity == Cardinality(OpenIn(CleanTxn)) < MaxPending

-----------------------------------------------------------------------------
(* prepare, outbound, first critical section *)

\* The packets that do not get past the first critical section: the engine
\* is unavailable, the flow is under a tombstone, the pending limit is
\* reached, or the flow is not mapped and the packet is no SYN, is the SYN
\* of a flow that is being looked up or injected, or cannot be looked up
\* (no query budget, answer cache full).
RefusedOutbound(f) ==
    \/ Unavailable
    \/ CleanTomb[f] > 0
    \/ CleanForward[f] = None
    \/ ~Capacity

\* An answer that does not rewrite the packet: drop, or pass unchanged.  A
\* passed non-SYN renews the pass entry, whose expiry the model leaves open.
PrepareRefused(r, f) ==
    /\ rcv[r] = Idle
    /\ RefusedOutbound(f)
    /\ OnlyCleanup
    /\ UNCHANGED <<closed, suspended, reservations, apass, rcv>>

\* A packet of a mapped flow.
PrepareMapped(r, f, flag) ==
    /\ rcv[r] = Idle /\ ~Unavailable
    /\ CleanTomb[f] = 0 /\ CleanForward[f] # None /\ Capacity
    /\ OnMapping(r, CleanForward[f], TRUE, flag)
    /\ UNCHANGED <<closed, suspended, reservations, apass>>

\* A new SYN: reserve the flow and leave the lock to ask for its owner.
PrepareSyn(r, f) ==
    /\ rcv[r] = Idle /\ ~Unavailable
    /\ CleanTomb[f] = 0 /\ CleanForward[f] = None
    /\ f \notin reservations
    /\ Cardinality(reservations) + Cardinality(OpenIn(CleanTxn)) < MaxPending
    /\ \A m \in PendingNew(CleanTxn) : obj[m].flow # f
    /\ OnlyCleanup
    /\ reservations' = reservations \cup {f}
    /\ rcv' = [rcv EXCEPT ![r] = [at |-> "query", flow |-> f, who |-> None]]
    /\ UNCHANGED <<closed, suspended, apass>>

-----------------------------------------------------------------------------
(* suspend: called by the refresh thread, by a prepare whose route check   *)
(* fails and by the diverter when a commit raises                          *)

\* Mutant: suspend tears down the mappings and leaves the transactions.
SuspendKeepsTransactions ==
    IF closed
    THEN UNCHANGED <<suspended, forward, reverse, client, obj, txn,
                     reservations, tomb>>
    ELSE LET live == LiveIn(forward) IN
         /\ suspended' = TRUE
         /\ forward' = Without(forward, live)
         /\ reverse' = Without(reverse, live)
         /\ client' = ClientWithout(live)
         /\ tomb' = Tombed(tomb, live, LongTomb)
         /\ reservations' = {}
         /\ UNCHANGED txn
         /\ obj' = Kept(obj, forward', reverse', client', txn)

SuspendEffect ==
    IF closed
    THEN UNCHANGED <<suspended, forward, reverse, client, obj, txn,
                     reservations, tomb>>
    ELSE LET live == LiveIn(forward) IN
         /\ suspended' = TRUE
         /\ forward' = Without(forward, live)
         /\ reverse' = Without(reverse, live)
         /\ client' = ClientWithout(live)
         /\ tomb' = Tombed(tomb, live, LongTomb)
         /\ txn' = [r \in Receivers |-> None]
         /\ reservations' = {}
         /\ obj' = Kept(obj, forward', reverse', client', txn')

Suspend == SuspendEffect /\ UNCHANGED <<closed, apass, rcv>>

-----------------------------------------------------------------------------
(* prepare, outbound, outside the lock and second critical section         *)

\* The finally clause: whatever the flow's reservation is by now, it goes.
Leave(r) ==
    /\ reservations' = reservations \ {rcv[r].flow}
    /\ rcv' = [rcv EXCEPT ![r] = Idle]

\* The resolver answers.  Only an answer that names the audited image goes
\* on; the flow of another process is put on the pass list and let through.
Resolve(r) ==
    /\ rcv[r].at = "query"
    /\ \E who \in Answers :
          /\ apass' = IF who = "other" THEN apass \cup {rcv[r].flow} ELSE apass
          /\ IF who \in Pids
             THEN /\ rcv' = [rcv EXCEPT ![r].at = "guard", ![r].who = who]
                  /\ UNCHANGED reservations
             ELSE Leave(r)
    /\ UNCHANGED <<closed, suspended, tables, obj, txn, tomb>>

\* The resolver or a later adapter call raises, or the process identity is
\* no longer the one that was resolved.
QueryFails(r) ==
    /\ rcv[r].at \in {"query", "guard"}
    /\ Leave(r)
    /\ UNCHANGED <<closed, suspended, tables, obj, txn, tomb, apass>>

\* The route guard no longer vouches for the packet's route.  Suspending
\* (or an earlier close) has already emptied the reservations.
RouteFails(r) ==
    /\ rcv[r].at = "guard"
    /\ SuspendEffect
    /\ rcv' = [rcv EXCEPT ![r] = Idle]
    /\ UNCHANGED <<closed, apass>>

\* The route is current and the process is still the one resolved.
GuardsHold(r) ==
    /\ rcv[r].at = "guard"
    /\ rcv' = [rcv EXCEPT ![r].at = "insert"]
    /\ UNCHANGED <<closed, suspended, tables, obj, txn, reservations, tomb,
                   apass>>

OfPid(ms, p) == {m \in ms : obj[m].pid = p}

\* The second critical section refuses the flow.
InsertRefused(r, f, p) ==
    LET taken == LiveIn(forward) \cup PendingNew(txn) IN
    \/ Unavailable
    \/ forward[f] # None
    \/ Cardinality(taken) >= MaxMappings
    \/ Cardinality(OfPid(taken, p)) >= MaxPerPid
    \/ client[ClientOf[f]] # None
    \/ \E m \in PendingNew(txn) : ClientOf[obj[m].flow] = ClientOf[f]

\* The identities are a bound of the model; the code has no end of objects.
FreeIds == {m \in MappingIds : obj[m] = None}

Insert(r) ==
    /\ rcv[r].at = "insert"
    /\ reservations' = reservations \ {rcv[r].flow}
    /\ LET f == rcv[r].flow
           p == rcv[r].who
       IN  IF InsertRefused(r, f, p)
           THEN /\ rcv' = [rcv EXCEPT ![r] = Idle]
                /\ UNCHANGED <<obj, txn>>
           ELSE LET m == CHOOSE i \in FreeIds : TRUE IN
                /\ FreeIds # {}
                /\ obj' = [obj EXCEPT ![m] =
                      [flow |-> f, pid |-> p, cfin |-> FALSE, sfin |-> FALSE,
                       due |-> FALSE]]
                /\ txn' = [txn EXCEPT ![r] =
                      [m |-> m, out |-> TRUE, flag |-> "data", new |-> TRUE,
                       ttl |-> PendingTTL]]
                /\ rcv' = [rcv EXCEPT ![r] = [Idle EXCEPT !.at = "send"]]
    /\ UNCHANGED <<closed, suspended, tables, tomb, apass>>

-----------------------------------------------------------------------------
(* prepare, inbound: answers from B *)

\* Dropped, or passed on unchanged because no mapping knows the flow.
InboundRefused(r, f) ==
    /\ rcv[r] = Idle
    /\ Unavailable \/ CleanTomb[f] > 0 \/ CleanReverse[f] = None \/ ~Capacity
    /\ OnlyCleanup
    /\ UNCHANGED <<closed, suspended, reservations, apass, rcv>>

InboundMapped(r, f, flag) ==
    /\ rcv[r] = Idle /\ ~Unavailable
    /\ CleanTomb[f] = 0 /\ CleanReverse[f] # None /\ Capacity
    /\ OnMapping(r, CleanReverse[f], FALSE, flag)
    /\ UNCHANGED <<closed, suspended, reservations, apass>>

-----------------------------------------------------------------------------
(* The outcome of the injection *)

Done(r) == rcv' = [rcv EXCEPT ![r] = Idle]

\* The mapping leaves the tables under a tombstone; objs are the objects.
Bury(r, m, seconds, objs) ==
    /\ forward' = Without(forward, {m})
    /\ reverse' = Without(reverse, {m})
    /\ client' = ClientWithout({m})
    /\ tomb' = Tombed(tomb, {m}, seconds)
    /\ txn' = [txn EXCEPT ![r] = None]
    /\ obj' = Kept(objs, forward', reverse', client', txn')

\* The objects after the packet of t counts as seen, and whether its flags
\* end the mapping (_observe_tcp_locked).
Seen(t) ==
    [obj EXCEPT ![t.m].due = @ /\ (obj[t.m].cfin \/ obj[t.m].sfin),
                ![t.m].cfin = @ \/ (t.flag = "fin" /\ t.out),
                ![t.m].sfin = @ \/ (t.flag = "fin" /\ ~t.out)]
Over(t) ==
    t.flag = "rst" \/ (t.flag = "fin" /\ Seen(t)[t.m].cfin /\ Seen(t)[t.m].sfin)

\* commit(token, True): install a new mapping, then the TCP flags.
CommitSent(r) ==
    /\ rcv[r].at = "send" /\ txn[r] # None
    /\ LET t == txn[r]
           f == obj[t.m].flow
       IN  IF Over(t)
           THEN Bury(r, t.m, LongTomb, Seen(t))
           ELSE /\ IF t.new
                   THEN /\ forward' = [forward EXCEPT ![f] = t.m]
                        /\ reverse' = [reverse EXCEPT ![f] = t.m]
                        /\ client' = [client EXCEPT ![ClientOf[f]] = t.m]
                   ELSE UNCHANGED tables
                /\ txn' = [txn EXCEPT ![r] = None]
                /\ obj' = Kept(Seen(t), forward', reverse', client', txn')
                /\ UNCHANGED tomb
    /\ Done(r)
    /\ UNCHANGED <<closed, suspended, reservations, apass>>

\* Mutant: the tombstone lasts no longer than a transaction.
InjectionFailsBriefly(r) ==
    /\ rcv[r].at = "send" /\ txn[r] # None
    /\ Bury(r, txn[r].m, PendingTTL, obj)
    /\ Done(r)
    /\ UNCHANGED <<closed, suspended, reservations, apass>>

\* commit(token, False) and abort(token): the packet was not injected.
InjectionFails(r) ==
    /\ rcv[r].at = "send" /\ txn[r] # None
    /\ Bury(r, txn[r].m, ShortTomb, obj)
    /\ Done(r)
    /\ UNCHANGED <<closed, suspended, reservations, apass>>

\* The transaction is gone: commit raises, and the diverter suspends.
CommitFails(r) ==
    /\ rcv[r].at = "send" /\ txn[r] = None
    /\ SuspendEffect
    /\ Done(r)
    /\ UNCHANGED <<closed, apass>>

\* The transaction is gone and the injection failed too: abort raises.
AbortFails(r) ==
    /\ rcv[r].at = "send" /\ txn[r] = None
    /\ Done(r)
    /\ UNCHANGED <<closed, suspended, tables, obj, txn, reservations, tomb,
                   apass>>

-----------------------------------------------------------------------------
(* resume, close and time *)

\* Called by the refresh thread while the engine is unavailable.
Resume ==
    /\ suspended /\ ~closed
    /\ suspended' = FALSE
    /\ UNCHANGED <<closed, tables, obj, txn, reservations, tomb, apass,
                   rcv>>

Close ==
    /\ closed' = TRUE
    /\ txn' = [r \in Receivers |-> None]
    /\ reservations' = {}
    /\ forward' = [f \in Flows |-> None]
    /\ reverse' = [f \in Flows |-> None]
    /\ client' = [c \in Clients |-> None]
    /\ obj' = [m \in MappingIds |-> None]
    /\ tomb' = [f \in Flows |-> 0]
    /\ apass' = {}
    /\ UNCHANGED <<suspended, rcv>>

Less(n) == IF n = 0 THEN 0 ELSE n - 1

\* Time passes: every clock loses a unit, and of the long limits some run
\* out: a mapping is due when it was idle too long or, after a FIN of one
\* side, half-closed too long.  Only the first is undone by another packet.
Tick ==
    /\ tomb' = [f \in Flows |-> Less(tomb[f])]
    /\ txn' = [r \in Receivers |-> IF txn[r] = None THEN None
                                   ELSE [txn[r] EXCEPT !.ttl = Less(@)]]
    /\ apass' \in SUBSET apass
    /\ \E late \in SUBSET LiveIn(forward) :
          obj' = [m \in MappingIds |-> IF m \in late
                                       THEN [obj[m] EXCEPT !.due = TRUE] ELSE obj[m]]
    /\ UNCHANGED <<closed, suspended, tables, reservations, rcv>>

-----------------------------------------------------------------------------
RNext ==
    \/ \E r \in Receivers :
          \/ \E f \in Flows : PrepareRefused(r, f) \/ InboundRefused(r, f)
          \/ \E f \in Flows : PrepareSyn(r, f)
          \/ \E f \in Flows, flag \in Flags : \/ PrepareMapped(r, f, flag)
                                              \/ InboundMapped(r, f, flag)
          \/ Resolve(r) \/ QueryFails(r) \/ RouteFails(r) \/ GuardsHold(r)
          \/ Insert(r)
          \/ CommitSent(r) \/ InjectionFails(r) \/ CommitFails(r) \/ AbortFails(r)
    \/ Suspend \/ Resume \/ Close \/ Tick

RSpec == RInit /\ [][RNext]_vars

-----------------------------------------------------------------------------
(* Properties *)

\* The three tables describe the same set of connections: forward and
\* reverse hold the same mapping for every flow, the client table holds
\* exactly the endpoints of live mappings, and no endpoint is used by two
\* connections, counting those whose first SYN is still being injected.
\* With three receivers it fails: Insert does not look for a tombstone, so a
\* flow reserved before a suspension is admitted while the transaction of its
\* last connection is open, and that one's outcome removes it by key.
TablesAgree ==
    /\ forward = reverse
    /\ \A c \in Clients : client[c] # None =>
          forward[obj[client[c]].flow] = client[c]
    /\ \A f \in Flows : forward[f] # None =>
          /\ obj[forward[f]].flow = f
          /\ client[ClientOf[f]] = forward[f]
    /\ \A r \in OpenIn(txn) : txn[r].new =>
          LET c == ClientOf[obj[txn[r].m].flow] IN
          /\ client[c] = None
          /\ \A q \in OpenIn(txn) \ {r} :
                txn[q].new => ClientOf[obj[txn[q].m].flow] # c

\* While a transaction whose mapping has died is still open, its flow is
\* not mapped again: the tombstone outlives the transaction, or the
\* transaction is overdue and goes before the next SYN is looked at.  A late
\* outcome, which removes by key, never meets the flow's next connection.
TombstoneOutlivesTransaction ==
    \A r \in OpenIn(txn) :
        LET f == obj[txn[r].m].flow IN
        ~txn[r].new /\ forward[f] # txn[r].m =>
            forward[f] = None /\ (txn[r].ttl > 0 => tomb[f] > txn[r].ttl)

\* What a suspended or closed engine answers for: nothing is mapped and no
\* token can still install a mapping.
UnavailableIsEmpty ==
    Unavailable => LiveIn(forward) = {} /\ OpenIn(txn) = {}

\* A reservation belongs to a receiver that will release it: none is left
\* behind to refuse the flow's SYNs for ever.
ReservationIsReleased ==
    \A f \in reservations : \E r \in Receivers :
        rcv[r].at \in {"query", "guard", "insert"} /\ rcv[r].flow = f

\* The types, and the tables, the suspension and the reservations: what every critical section of
\* ProcessRedirectEngine leaves behind for the next one.
RedirectInv == RTypeOK /\ TablesAgree /\ UnavailableIsEmpty /\ ReservationIsReleased

\* The plan of the feature has prepare take the lock again and verify its
\* reservation before it opens a transaction: a mapping is only opened
\* under a reservation that is still held.
ReservationIsRevalidated ==
    [][\A r \in Receivers :
          rcv[r].at = "insert" /\ rcv'[r].at = "send" =>
              rcv[r].flow \in reservations]_vars

\* The pass list holds flows whose SYN was resolved to a process that is
\* not the audited one: a redirected flow is not on it.
PassListExcludesRedirected ==
    \A f \in apass : forward[f] = None

=============================================================================
