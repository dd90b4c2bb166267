----------------------- MODULE ProcessRedirectProofs -----------------------
(***************************************************************************)
(* Proofs about ProcessRedirect for any flows, clients, processes, limits  *)
(* and tombstone times, and for the one receiver the diverter starts or    *)
(* two: the inductive invariant RedirectIInv, from it that the three       *)
(* tables agree and that a tombstone outlives the transactions of its      *)
(* flow.                                                                   *)
(***************************************************************************)
EXTENDS ProcessRedirect, TLAPS

-----------------------------------------------------------------------------
(* The inductive invariant, its main part as an operator of the tables:    *)
(* cleaning up and then opening a transaction is one step.                 *)

\* A mapping in the tables is the one of its flow and of its client, and the
\* objects in the tables and in transactions exist.
TablesSound(fwd, cl, ob) ==
    /\ \A f \in Flows : fwd[f] # None =>
          ob[fwd[f]] # None /\ ob[fwd[f]].flow = f /\ cl[ClientOf[f]] = fwd[f]
    /\ \A c \in Clients : cl[c] # None =>
          ob[cl[c]] # None /\ fwd[ob[cl[c]].flow] = cl[c]

\* The client endpoint of a new mapping is free, and no other transaction is
\* for that endpoint and new, or for that flow.
NewSound(cl, ob, tx) ==
    \A r \in Receivers : tx[r] # None /\ tx[r].new =>
        /\ cl[ClientOf[ob[tx[r].m].flow]] = None
        /\ \A q \in Receivers : q # r /\ tx[q] # None =>
              /\ tx[q].new => ClientOf[ob[tx[q].m].flow] # ClientOf[ob[tx[r].m].flow]
              /\ ~tx[q].new => ob[tx[q].m].flow # ob[tx[r].m].flow

\* The tombstone of a mapping that died outlives its transactions.
StaleSound(fwd, ob, tx, tb) ==
    \A r \in Receivers : tx[r] # None =>
        /\ ob[tx[r].m] # None
        /\ ~tx[r].new => LET f == ob[tx[r].m].flow IN
              \/ fwd[f] = tx[r].m
              \/ fwd[f] = None /\ (tx[r].ttl > 0 => tb[f] > tx[r].ttl)

Sound(fwd, cl, ob, tx, tb) ==
    TablesSound(fwd, cl, ob) /\ NewSound(cl, ob, tx) /\ StaleSound(fwd, ob, tx, tb)

\* While the owner of a flow is asked for, no transaction of another receiver
\* is left over from an earlier connection of that flow.
Asking == {"query", "guard", "insert"}
Admitting ==
    \A r, q \in Receivers :
        /\ rcv[r].at \in Asking /\ txn[q] # None /\ ~txn[q].new
        /\ obj[txn[q].m].flow = rcv[r].flow
        => forward[rcv[r].flow] = txn[q].m

\* A transaction belongs to a receiver that is injecting.
Placed ==
    /\ \A r \in Receivers :
          /\ txn[r] # None => rcv[r].at = "send"
          /\ rcv[r].at \in Asking => rcv[r].flow \in Flows
          /\ rcv[r].at = "insert" => rcv[r].who \in Pids
          /\ rcv[r].at = "guard" => rcv[r].who \in Pids
    /\ closed => reservations = {}

RedirectIInv ==
    /\ RTypeOK /\ forward = reverse /\ Sound(forward, client, obj, txn, tomb)
    /\ Admitting /\ Placed /\ UnavailableIsEmpty /\ ReservationIsReleased

-----------------------------------------------------------------------------
(* Operators of the model *)

FlowTable   == [Flows -> MappingIds \cup {None}]
ClientTable == [Clients -> MappingIds \cup {None}]
Objects     == [MappingIds -> Mapping \cup {None}]
Open        == [Receivers -> Txn \cup {None}]
Whereabouts == [at : {"idle", "query", "guard", "insert", "send"},
                flow : Flows \cup {None}, who : Pids \cup {None}]

\* Nothing is live in a table without entries.
LEMMA LiveEntries ==
    ASSUME NEW fwd \in FlowTable
    PROVE  /\ LiveIn(fwd) = {} <=> \A f \in Flows : fwd[f] = None
           /\ \A m \in LiveIn(fwd) : m \in MappingIds /\ \E f \in Flows : fwd[f] = m
           /\ \A f \in Flows : fwd[f] # None => fwd[f] \in LiveIn(fwd)
  BY DEF LiveIn, Range, FlowTable

\* What Sound says of an object is that it is there, and its flow.
Same(ob, ob2, m) == ob[m] # None => ob2[m] # None /\ ob2[m].flow = ob[m].flow

LEMMA SameObjects ==
    ASSUME NEW fwd, NEW cl, NEW ob, NEW ob2, NEW tx, NEW tb, Sound(fwd, cl, ob, tx, tb),
           \A f \in Flows : fwd[f] # None => Same(ob, ob2, fwd[f]),
           \A c \in Clients : cl[c] # None => Same(ob, ob2, cl[c]),
           \A r \in Receivers : tx[r] # None => Same(ob, ob2, tx[r].m)
    PROVE  Sound(fwd, cl, ob2, tx, tb)
  <1>1. TablesSound(fwd, cl, ob2)
    BY DEF Sound, TablesSound, Same
  <1>2. \A r \in Receivers : tx[r] # None =>
          ob2[tx[r].m] # None /\ ob2[tx[r].m].flow = ob[tx[r].m].flow
    BY DEF Sound, StaleSound, Same
  <1>3. NewSound(cl, ob2, tx)
    BY <1>2 DEF Sound, NewSound
  <1>4. StaleSound(fwd, ob2, tx, tb)
    BY <1>2 DEF Sound, StaleSound
  <1>5. QED
    BY <1>1, <1>3, <1>4 DEF Sound

\* Freeing what nothing refers to changes nothing.
LEMMA Freed ==
    ASSUME NEW fwd \in FlowTable, NEW rev, NEW cl \in ClientTable, NEW ob \in Objects,
           NEW tx \in Open, NEW tb, Sound(fwd, cl, ob, tx, tb)
    PROVE  /\ Kept(ob, fwd, rev, cl, tx) \in Objects
           /\ Sound(fwd, cl, Kept(ob, fwd, rev, cl, tx), tx, tb)
           /\ \A r \in Receivers : tx[r] # None =>
                Kept(ob, fwd, rev, cl, tx)[tx[r].m] = ob[tx[r].m]
  <1> DEFINE k == Kept(ob, fwd, rev, cl, tx)
  <1>1. k \in Objects
    BY DEF Kept, Objects
  <1>2. \A f \in Flows : fwd[f] # None => k[fwd[f]] = ob[fwd[f]]
    BY DEF Kept, Range, FlowTable
  <1>3. \A c \in Clients : cl[c] # None => k[cl[c]] = ob[cl[c]]
    BY DEF Kept, Range, ClientTable
  <1>4. \A r \in Receivers : tx[r] # None => k[tx[r].m] = ob[tx[r].m]
    BY DEF Kept, OpenIn, Open, Txn
  <1> HIDE DEF k
  <1>5. Sound(fwd, cl, k, tx, tb)
    BY <1>2, <1>3, <1>4, SameObjects DEF Same
  <1>6. QED
    BY <1>1, <1>4, <1>5 DEF k

\* Mappings leave the tables under tombstones that outlive any transaction.
LEMMA Removed ==
    ASSUME RTypeOK, Sound(forward, client, obj, txn, tomb),
           NEW ms \in SUBSET MappingIds,
           \A m \in ms : obj[m] # None /\ forward[obj[m].flow] \in {m, None},
           NEW tx, \A r \in Receivers : tx[r] = None \/ tx[r] = txn[r],
           NEW tb, \A f \in Flows : /\ tb[f] = tomb[f] \/ tb[f] > PendingTTL
                                    /\ (\E m \in ms : obj[m].flow = f) => tb[f] > PendingTTL,
           \A f \in Flows : tb[f] \in Nat
    PROVE  /\ Without(forward, ms) \in FlowTable /\ ClientWithout(ms) \in ClientTable
           /\ Sound(Without(forward, ms), ClientWithout(ms), obj, tx, tb)
  <1> DEFINE fwd == Without(forward, ms)
             cl == ClientWithout(ms)
  <1>1. fwd \in FlowTable /\ cl \in ClientTable
    BY DEF RTypeOK, Without, ClientWithout, FlowTable, ClientTable
  <1>2. \A f \in Flows : fwd[f] = IF \E m \in ms : obj[m].flow = f THEN None ELSE forward[f]
    BY DEF Without
  <1>3. \A c \in Clients : cl[c] = IF client[c] \in ms THEN None ELSE client[c]
    BY DEF ClientWithout
  <1>4. \A f \in Flows : ClientOf[f] \in Clients
    BY ConstantsAssumption
  <1>5. \A m \in MappingIds : obj[m] # None => obj[m].flow \in Flows
    BY DEF RTypeOK, Mapping
  <1> HIDE DEF fwd, cl
  <1>6. TablesSound(fwd, cl, obj)
    <2>1. ASSUME NEW f \in Flows, fwd[f] # None
          PROVE  obj[fwd[f]] # None /\ obj[fwd[f]].flow = f /\ cl[ClientOf[f]] = fwd[f]
      <3>1. /\ fwd[f] = forward[f] /\ ~\E m \in ms : obj[m].flow = f
        BY <1>2, <2>1
      <3>2. /\ obj[forward[f]] # None /\ obj[forward[f]].flow = f
            /\ client[ClientOf[f]] = forward[f]
        BY <2>1, <3>1 DEF Sound, TablesSound
      <3>3. forward[f] \notin ms
        BY <3>1, <3>2
      <3>4. QED
        BY <1>3, <1>4, <3>1, <3>2, <3>3
    <2>2. ASSUME NEW c \in Clients, cl[c] # None
          PROVE  obj[cl[c]] # None /\ fwd[obj[cl[c]].flow] = cl[c]
      <3>1. cl[c] = client[c] /\ client[c] \notin ms
        BY <1>3, <2>2
      <3>2. obj[client[c]] # None /\ forward[obj[client[c]].flow] = client[c]
        BY <2>2, <3>1 DEF Sound, TablesSound
      <3>3. client[c] \in MappingIds /\ obj[client[c]].flow \in Flows
        BY <1>5, <2>2, <3>1, <3>2 DEF RTypeOK
      <3>4. ~\E m \in ms : obj[m].flow = obj[client[c]].flow
        BY <2>2, <3>1, <3>2
      <3>5. QED
        BY <1>2, <3>1, <3>2, <3>3, <3>4
    <2>3. QED
      BY <2>1, <2>2 DEF TablesSound
  <1>7. \A r \in Receivers : tx[r] # None =>
          /\ tx[r] = txn[r] /\ txn[r] # None /\ tx[r] \in Txn
          /\ obj[tx[r].m] # None /\ obj[tx[r].m].flow \in Flows
    <2>1. \A r \in Receivers : tx[r] # None => tx[r] = txn[r] /\ tx[r] \in Txn
      BY DEF RTypeOK
    <2>2. \A x \in Txn : x.m \in MappingIds
      BY DEF Txn
    <2>3. QED
      BY <1>5, <2>1, <2>2 DEF Sound, StaleSound
  <1>8. NewSound(cl, obj, tx)
    <2>1. \A c \in Clients : client[c] = None => cl[c] = None
      BY <1>3
    <2>2. QED
      BY <1>4, <1>7, <2>1 DEF Sound, NewSound
  <1>9. StaleSound(fwd, obj, tx, tb)
    <2> SUFFICES ASSUME NEW r \in Receivers, tx[r] # None, ~tx[r].new
                 PROVE  LET f == obj[tx[r].m].flow IN
                        \/ fwd[f] = tx[r].m
                        \/ fwd[f] = None /\ (tx[r].ttl > 0 => tb[f] > tx[r].ttl)
      BY <1>7 DEF StaleSound
    <2> DEFINE f == obj[tx[r].m].flow
    <2>1. f \in Flows /\ tx[r].ttl \in Nat /\ tx[r].ttl <= PendingTTL /\ PendingTTL \in Nat
      BY <1>7, TimesAssumption DEF Txn
    <2>2. \/ forward[f] = tx[r].m
          \/ forward[f] = None /\ (tx[r].ttl > 0 => tomb[f] > tx[r].ttl)
      BY <1>7 DEF Sound, StaleSound
    <2>3. CASE \E m \in ms : obj[m].flow = f
      BY <1>2, <2>1, <2>3
    <2>4. CASE ~\E m \in ms : obj[m].flow = f
      BY <1>2, <2>1, <2>2, <2>4
    <2>5. QED
      BY <2>3, <2>4
  <1>10. QED
    BY <1>1, <1>6, <1>8, <1>9 DEF Sound, fwd, cl

-----------------------------------------------------------------------------
(* The cleanup at the beginning of prepare *)

LEMMA Cleaned ==
    ASSUME RedirectIInv
    PROVE  /\ Sound(CleanForward, CleanClient, obj, CleanTxn, CleanTomb)
           /\ CleanForward \in FlowTable /\ CleanClient \in ClientTable /\ CleanTxn \in Open
           /\ CleanReverse = CleanForward /\ CleanTomb \in [Flows -> 0..LongTomb]
           /\ \A r \in Receivers : CleanTxn[r] # None =>
                 CleanTxn[r] = txn[r] /\ txn[r] # None /\ CleanTxn[r].ttl > 0
           /\ \A f \in Flows : forward[f] = None => CleanForward[f] = None
  <1> DEFINE tb == CleanTomb
  <1>1. RTypeOK /\ Sound(forward, client, obj, txn, tomb) /\ forward = reverse
    BY DEF RedirectIInv
  <1>2. CleanTxn \in Open /\ \A r \in Receivers : CleanTxn[r] = None \/ CleanTxn[r] = txn[r]
    BY <1>1 DEF RTypeOK, CleanTxn, Open
  <1>3. \A r \in Receivers : CleanTxn[r] # None =>
          CleanTxn[r] = txn[r] /\ txn[r] # None /\ CleanTxn[r].ttl > 0
    <2>1. \A x \in Txn : x.ttl \in Nat
      BY TimesAssumption DEF Txn
    <2>2. \A r \in Receivers : CleanTxn[r] # None =>
            CleanTxn[r] = txn[r] /\ txn[r] # None /\ txn[r].ttl # 0
      BY DEF CleanTxn, Overdue, OpenIn
    <2>3. QED
      BY <1>1, <2>1, <2>2 DEF RTypeOK
  <1>4. \A m \in Expired : /\ m \in MappingIds /\ obj[m] # None
                           /\ forward[obj[m].flow] = m
    <2>1. forward \in FlowTable
      BY <1>1 DEF RTypeOK, FlowTable
    <2>2. \A m \in Expired : m \in MappingIds /\ m # None /\ \E f \in Flows : forward[f] = m
      BY <2>1, LiveEntries, ConstantsAssumption DEF Expired
    <2>3. QED
      BY <1>1, <2>2 DEF Sound, TablesSound
  <1>5. /\ tb \in [Flows -> 0..LongTomb]
        /\ \A f \in Flows : /\ tb[f] = tomb[f] \/ tb[f] > PendingTTL
                            /\ (\E m \in Expired : obj[m].flow = f) => tb[f] > PendingTTL
    BY <1>1, TimesAssumption DEF CleanTomb, Tombed, RTypeOK
  <1> HIDE DEF tb
  <1>6. \A f \in Flows : tb[f] \in Nat
    BY <1>5, TimesAssumption
  <1>7. /\ CleanForward \in FlowTable /\ CleanClient \in ClientTable
        /\ Sound(CleanForward, CleanClient, obj, CleanTxn, tb)
    BY <1>1, <1>2, <1>4, <1>5, <1>6, Removed DEF CleanForward, CleanClient
  <1>8. CleanReverse = CleanForward
    BY <1>1 DEF CleanReverse, CleanForward
  <1>9. \A f \in Flows : forward[f] = None => CleanForward[f] = None
    BY DEF CleanForward, Without
  <1>10. QED
    BY <1>2, <1>3, <1>5, <1>7, <1>8, <1>9 DEF tb

\* Two receivers: while one begins a packet, the other does not both ask for
\* an owner and inject.
LEMMA OtherIsOne ==
    ASSUME RedirectIInv, NEW x \in Receivers, rcv[x] = Idle
    PROVE  \A r, q \in Receivers : rcv[r].at \in Asking => txn[q] = None
  <1>1. rcv[x].at = "idle"
    BY DEF Idle
  <1>2. QED
    BY <1>1, ReceiversAssumption DEF RedirectIInv, Placed, Asking

-----------------------------------------------------------------------------
(* RedirectIInv holds initially and every action preserves it. *)

LEMMA RedirectInit == RInit => RedirectIInv
  <1> SUFFICES ASSUME RInit PROVE RedirectIInv
    OBVIOUS
  <1>1. RTypeOK
    <2>1. closed \in BOOLEAN /\ suspended \in BOOLEAN
      BY Zenon DEF RInit
    <2>2. Idle \in Whereabouts
      BY DEF Idle, Whereabouts
    <2>3. rcv \in [Receivers -> Whereabouts]
      BY <2>2 DEF RInit
    <2>4. tomb \in [Flows -> 0..LongTomb]
      BY TimesAssumption DEF RInit
    <2>5. QED
      BY <2>1, <2>3, <2>4 DEF RInit, RTypeOK, Whereabouts
  <1>2. Sound(forward, client, obj, txn, tomb)
    BY DEF RInit, Sound, TablesSound, NewSound, StaleSound
  <1>3. Admitting /\ Placed /\ ReservationIsReleased
    BY DEF RInit, Admitting, Placed, ReservationIsReleased, Idle, Asking
  <1>4. UnavailableIsEmpty
    BY DEF RInit, UnavailableIsEmpty, Unavailable
  <1>5. QED
    BY <1>1, <1>2, <1>3, <1>4 DEF RInit, RedirectIInv

\* A packet that opens no transaction and reserves nothing.
LEMMA RefusedInv ==
    ASSUME RedirectIInv, NEW x \in Receivers, rcv[x] = Idle, OnlyCleanup,
           UNCHANGED <<closed, suspended, reservations, apass, rcv>>
    PROVE  RedirectIInv'
  <1>1. /\ forward' = CleanForward /\ reverse' = CleanForward /\ client' = CleanClient
        /\ tomb' = CleanTomb /\ txn' = CleanTxn
        /\ obj' = Kept(obj, CleanForward, CleanForward, CleanClient, CleanTxn)
    BY Cleaned DEF OnlyCleanup
  <1>2. obj \in Objects
    BY DEF RedirectIInv, RTypeOK, Objects
  <1>3. obj' \in Objects /\ Sound(forward', client', obj', txn', tomb')
    BY <1>1, <1>2, Cleaned, Freed
  <1>4. RTypeOK'
    BY <1>1, <1>3, Cleaned DEF RedirectIInv, RTypeOK, FlowTable, ClientTable, Objects, Open
  <1>5. \A r \in Receivers : txn'[r] # None => txn[r] # None
    BY <1>1, Cleaned
  <1>6. Admitting' /\ Placed' /\ ReservationIsReleased'
    BY <1>5, OtherIsOne DEF RedirectIInv, Admitting, Placed, ReservationIsReleased
  <1>7. UnavailableIsEmpty'
    <2>1. forward \in FlowTable /\ forward' \in FlowTable
      BY <1>1, Cleaned DEF RedirectIInv, RTypeOK, FlowTable
    <2>2. ASSUME Unavailable' PROVE LiveIn(forward') = {}
      <3>1. \A f \in Flows : forward[f] = None
        BY <2>1, <2>2, LiveEntries DEF RedirectIInv, UnavailableIsEmpty, Unavailable
      <3>2. QED
        BY <1>1, <2>1, <3>1, Cleaned, LiveEntries
    <2>3. ASSUME Unavailable' PROVE OpenIn(txn') = {}
      BY <1>5, <2>3 DEF RedirectIInv, UnavailableIsEmpty, Unavailable, OpenIn
    <2>4. QED
      BY <2>2, <2>3 DEF UnavailableIsEmpty
  <1>8. QED
    BY <1>1, <1>3, <1>4, <1>6, <1>7 DEF RedirectIInv

\* A packet of a mapped flow, in either direction.
LEMMA MappedInv ==
    ASSUME RedirectIInv, NEW x \in Receivers, rcv[x] = Idle, ~Unavailable,
           NEW f \in Flows, CleanForward[f] # None, NEW out \in BOOLEAN, NEW flag \in Flags,
           OnMapping(x, CleanForward[f], out, flag),
           UNCHANGED <<closed, suspended, reservations, apass>>
    PROVE  RedirectIInv'
  <1> DEFINE m == CleanForward[f]
             e == [m |-> m, out |-> out, flag |-> flag, new |-> FALSE, ttl |-> PendingTTL]
             tx == [CleanTxn EXCEPT ![x] = e]
  <1>1. /\ forward' = CleanForward /\ reverse' = CleanForward /\ client' = CleanClient
        /\ tomb' = CleanTomb /\ txn' = tx
        /\ obj' = Kept(obj, CleanForward, CleanForward, CleanClient, tx)
        /\ rcv' = [rcv EXCEPT ![x] = [Idle EXCEPT !.at = "send"]]
    BY Cleaned DEF OnMapping
  <1>2. m \in MappingIds /\ e \in Txn /\ e # None /\ e.m = m /\ ~e.new
    <2>1. m \in MappingIds
      BY Cleaned DEF FlowTable
    <2>2. PendingTTL \in 0..PendingTTL
      BY TimesAssumption
    <2>3. FALSE \in BOOLEAN
      BY Zenon
    <2>4. e \in Txn
      BY <2>1, <2>2, <2>3 DEF Txn
    <2>5. QED
      BY <2>1, <2>4, ConstantsAssumption
  <1> HIDE DEF e
  <1>3. tx \in Open /\ tx[x] = e /\ \A r \in Receivers : r # x => tx[r] = CleanTxn[r]
    BY <1>2, Cleaned DEF Open
  <1> HIDE DEF tx
  <1>4. obj[m] # None /\ obj[m].flow = f /\ CleanClient[ClientOf[f]] = m
    BY Cleaned DEF Sound, TablesSound
  <1>5. Sound(CleanForward, CleanClient, obj, tx, CleanTomb)
    <2>1. TablesSound(CleanForward, CleanClient, obj)
      BY Cleaned DEF Sound
    <2>2. NewSound(CleanClient, obj, tx)
      <3>1. \A r \in Receivers : tx[r] # None /\ tx[r].new =>
              r # x /\ CleanTxn[r] # None /\ CleanTxn[r].new /\ tx[r] = CleanTxn[r]
        BY <1>2, <1>3
      <3>2. \A r \in Receivers : tx[r] # None /\ tx[r].new =>
              obj[tx[r].m].flow # f
        BY <1>2, <1>4, <3>1, Cleaned DEF Sound, NewSound
      <3>3. QED
        BY <1>2, <1>3, <1>4, <3>1, <3>2, Cleaned DEF Sound, NewSound
    <2>3. StaleSound(CleanForward, obj, tx, CleanTomb)
      BY <1>2, <1>3, <1>4, Cleaned DEF Sound, StaleSound
    <2>4. QED
      BY <2>1, <2>2, <2>3 DEF Sound
  <1>6. obj \in Objects
    BY DEF RedirectIInv, RTypeOK, Objects
  <1>7. /\ obj' \in Objects /\ Sound(forward', client', obj', txn', tomb')
        /\ \A r \in Receivers : txn'[r] # None => obj'[txn'[r].m] = obj[txn'[r].m]
    <2>1. CleanForward \in FlowTable /\ CleanClient \in ClientTable
      BY Cleaned
    <2>2. LET k == Kept(obj, CleanForward, CleanForward, CleanClient, tx)
          IN  /\ k \in Objects /\ Sound(CleanForward, CleanClient, k, tx, CleanTomb)
              /\ \A r \in Receivers : tx[r] # None => k[tx[r].m] = obj[tx[r].m]
      BY <1>3, <1>5, <1>6, <2>1, Freed
    <2>3. QED
      BY <1>1, <2>2
  <1>8. /\ rcv'[x].at = "send" /\ \A r \in Receivers : r # x => rcv'[r] = rcv[r]
        /\ rcv' \in [Receivers -> [at : {"idle", "query", "guard", "insert", "send"},
                                   flow : Flows \cup {None}, who : Pids \cup {None}]]
        /\ rcv[x].at = "idle"
    BY <1>1 DEF RedirectIInv, RTypeOK, Idle
  <1>9. RTypeOK'
    BY <1>1, <1>3, <1>7, <1>8, Cleaned DEF RedirectIInv, RTypeOK, FlowTable, ClientTable, Objects, Open
  <1>10. Admitting'
    <2> SUFFICES ASSUME NEW r \in Receivers, NEW q \in Receivers, rcv'[r].at \in Asking,
                        txn'[q] # None, obj'[txn'[q].m].flow = rcv'[r].flow
                 PROVE  forward'[rcv'[r].flow] = txn'[q].m
      BY DEF Admitting
    <2>1. r # x /\ rcv'[r] = rcv[r]
      BY <1>8 DEF Asking
    <2>2. q = x
      BY <1>1, <1>3, <2>1, OtherIsOne, Cleaned
    <2>3. QED
      BY <1>1, <1>2, <1>3, <1>4, <1>7, <2>2
  <1>11. Placed' /\ ReservationIsReleased'
    <2>1. Placed'
      BY <1>1, <1>3, <1>8, Cleaned DEF RedirectIInv, Placed, Asking
    <2>2. ReservationIsReleased'
      BY <1>8 DEF RedirectIInv, ReservationIsReleased
    <2>3. QED
      BY <2>1, <2>2
  <1>12. UnavailableIsEmpty'
    BY DEF UnavailableIsEmpty, Unavailable
  <1>13. QED
    BY <1>1, <1>7, <1>9, <1>10, <1>11, <1>12 DEF RedirectIInv

\* A new SYN: the flow is reserved and no transaction is left over on it.
LEMMA SynInv ==
    ASSUME RedirectIInv, NEW x \in Receivers, NEW f \in Flows, PrepareSyn(x, f)
    PROVE  RedirectIInv'
  <1>1. /\ forward' = CleanForward /\ reverse' = CleanForward /\ client' = CleanClient
        /\ tomb' = CleanTomb /\ txn' = CleanTxn
        /\ obj' = Kept(obj, CleanForward, CleanForward, CleanClient, CleanTxn)
    BY Cleaned DEF PrepareSyn, OnlyCleanup
  <1>2. obj \in Objects
    BY DEF RedirectIInv, RTypeOK, Objects
  <1>3. /\ obj' \in Objects /\ Sound(forward', client', obj', txn', tomb')
        /\ \A r \in Receivers : txn'[r] # None => obj'[txn'[r].m] = obj[txn'[r].m]
    BY <1>1, <1>2, Cleaned, Freed
  <1>4. /\ rcv' = [rcv EXCEPT ![x] = [at |-> "query", flow |-> f, who |-> None]]
        /\ rcv[x] = Idle /\ reservations' = reservations \cup {f} /\ ~Unavailable
        /\ UNCHANGED <<closed, suspended, apass>>
        /\ CleanTomb[f] = 0 /\ CleanForward[f] = None
    BY DEF PrepareSyn
  <1>5. /\ rcv'[x].at = "query" /\ rcv'[x].flow = f
        /\ \A r \in Receivers : r # x => rcv'[r] = rcv[r]
        /\ rcv' \in [Receivers -> Whereabouts]
        /\ rcv[x].at = "idle"
    BY <1>4 DEF RedirectIInv, RTypeOK, Idle, Whereabouts
  <1>6. RTypeOK'
    BY <1>1, <1>3, <1>4, <1>5, Cleaned
       DEF RedirectIInv, RTypeOK, FlowTable, ClientTable, Objects, Open, Whereabouts
  <1>7. Admitting'
    <2> SUFFICES ASSUME NEW r \in Receivers, NEW q \in Receivers, rcv'[r].at \in Asking,
                        txn'[q] # None, ~txn'[q].new, obj'[txn'[q].m].flow = rcv'[r].flow
                 PROVE  FALSE
      BY DEF Admitting
    <2>1. r = x
      BY <1>1, <1>4, <1>5, OtherIsOne, Cleaned
    <2>2. txn'[q] \in Txn /\ txn'[q].ttl > 0
      BY <1>1, Cleaned DEF Open
    <2>3. txn'[q].m # None /\ txn'[q].ttl \in Nat
      BY <2>2, ConstantsAssumption, TimesAssumption DEF Txn
    <2>4. \/ forward'[f] = txn'[q].m
          \/ forward'[f] = None /\ (txn'[q].ttl > 0 => tomb'[f] > txn'[q].ttl)
      BY <1>3, <1>5, <2>1 DEF Sound, StaleSound
    <2>5. QED
      BY <1>1, <1>4, <2>2, <2>3, <2>4
  <1>8. Placed'
    BY <1>1, <1>4, <1>5, Cleaned DEF RedirectIInv, Placed, Asking, Unavailable
  <1>9. ReservationIsReleased'
    BY <1>4, <1>5 DEF RedirectIInv, ReservationIsReleased
  <1>10. UnavailableIsEmpty'
    BY <1>4 DEF UnavailableIsEmpty, Unavailable
  <1>11. QED
    BY <1>1, <1>3, <1>6, <1>7, <1>8, <1>9, <1>10 DEF RedirectIInv

\* A receiver goes on or gives up, and the tables stay as they are.
LEMMA MovedInv ==
    ASSUME RedirectIInv, NEW x \in Receivers, txn[x] = None,
           UNCHANGED <<closed, suspended, tables, obj, txn, tomb>>,
           NEW w \in Whereabouts, rcv' = [rcv EXCEPT ![x] = w],
           w.at \in Asking => rcv[x].at \in Asking /\ w.flow = rcv[x].flow,
           w.at \in {"guard", "insert"} => w.who \in Pids,
           apass' \subseteq Flows, reservations' \subseteq reservations,
           rcv[x].at \in Asking /\ w.at \notin Asking => rcv[x].flow \notin reservations'
    PROVE  RedirectIInv'
  <1>1. /\ rcv'[x] = w /\ \A r \in Receivers : r # x => rcv'[r] = rcv[r]
        /\ rcv' \in [Receivers -> Whereabouts]
    BY DEF RedirectIInv, RTypeOK, Whereabouts
  <1>2. RTypeOK'
    BY <1>1 DEF RedirectIInv, RTypeOK, tables, Whereabouts
  <1>3. Admitting'
    BY <1>1 DEF RedirectIInv, Admitting, tables
  <1>4. Placed'
    BY <1>1 DEF RedirectIInv, Placed, Asking
  <1>5. ReservationIsReleased'
    BY <1>1 DEF RedirectIInv, ReservationIsReleased, Asking
  <1>6. UnavailableIsEmpty'
    BY DEF RedirectIInv, UnavailableIsEmpty, Unavailable, tables
  <1>7. QED
    BY <1>2, <1>3, <1>4, <1>5, <1>6 DEF RedirectIInv, tables

LEMMA ResolveInv ==
    ASSUME RedirectIInv, NEW x \in Receivers,
           Resolve(x) \/ QueryFails(x) \/ GuardsHold(x) \/ AbortFails(x)
    PROVE  RedirectIInv'
  <1>1. Idle \in Whereabouts /\ Idle.at = "idle"
    BY DEF Idle, Whereabouts
  <1>2. rcv[x] \in Whereabouts /\ (rcv[x].at \in Asking => txn[x] = None)
    BY DEF RedirectIInv, RTypeOK, Placed, Asking, Whereabouts
  <1>3. rcv[x].at \in Asking => rcv[x].flow \in Flows
    BY DEF RedirectIInv, Placed
  <1>4. apass \subseteq Flows
    BY DEF RedirectIInv, RTypeOK
  <1>5. CASE Resolve(x)
    <2>1. PICK who \in Answers :
            /\ apass' = IF who = "other" THEN apass \cup {rcv[x].flow} ELSE apass
            /\ IF who \in Pids
               THEN /\ rcv' = [rcv EXCEPT ![x].at = "guard", ![x].who = who]
                    /\ UNCHANGED reservations
               ELSE Leave(x)
      BY <1>5 DEF Resolve
    <2>2. rcv[x].at \in Asking /\ UNCHANGED <<closed, suspended, tables, obj, txn, tomb>>
      BY <1>5 DEF Resolve, Asking
    <2>3. apass' \subseteq Flows
      BY <1>3, <1>4, <2>1, <2>2
    <2>4. CASE who \in Pids
      <3> DEFINE w == [at |-> "guard", flow |-> rcv[x].flow, who |-> who]
      <3>1. w \in Whereabouts /\ w.at = "guard" /\ w.flow = rcv[x].flow /\ w.who = who
        BY <1>2, <2>4 DEF Whereabouts
      <3>2. rcv' = [rcv EXCEPT ![x] = w]
        BY <1>2, <2>1, <2>4 DEF Whereabouts
      <3> HIDE DEF w
      <3>3. QED
        BY <1>2, <2>1, <2>2, <2>3, <2>4, <3>1, <3>2, MovedInv DEF Asking
    <2>5. CASE who \notin Pids
      BY <1>1, <1>2, <2>1, <2>2, <2>3, <2>5, MovedInv DEF Leave, Asking
    <2>6. QED
      BY <2>4, <2>5
  <1>6. CASE QueryFails(x)
    BY <1>1, <1>2, <1>4, <1>6, MovedInv DEF QueryFails, Leave, Asking
  <1>7. CASE GuardsHold(x)
    <2> DEFINE w == [at |-> "insert", flow |-> rcv[x].flow, who |-> rcv[x].who]
    <2>1. rcv[x].at = "guard" /\ rcv[x].who \in Pids
      BY <1>7 DEF GuardsHold, RedirectIInv, Placed
    <2>2. w \in Whereabouts /\ w.at = "insert" /\ w.flow = rcv[x].flow /\ w.who \in Pids
      BY <1>2, <2>1 DEF Whereabouts
    <2>3. rcv' = [rcv EXCEPT ![x] = w]
      <3>1. rcv' = [rcv EXCEPT ![x] = [rcv[x] EXCEPT !.at = "insert"]]
        BY <1>7 DEF GuardsHold
      <3>2. [rcv[x] EXCEPT !.at = "insert"] = w
        BY <1>2 DEF Whereabouts
      <3>3. QED
        BY <3>1, <3>2
    <2> HIDE DEF w
    <2>4. QED
      BY <1>2, <1>4, <1>7, <2>1, <2>2, <2>3, MovedInv DEF GuardsHold, Asking
  <1>8. CASE AbortFails(x)
    BY <1>1, <1>4, <1>8, MovedInv DEF AbortFails, Done, Asking
  <1>9. QED
    BY <1>5, <1>6, <1>7, <1>8

-----------------------------------------------------------------------------
(* Suspending, by the refresh thread or by a receiver that then gives up *)

LEMMA SuspendedInv ==
    ASSUME RedirectIInv, SuspendEffect, UNCHANGED <<closed, apass>>,
           rcv' \in [Receivers -> Whereabouts],
           \A r \in Receivers : rcv'[r] = rcv[r] \/ (txn[r] = None /\ rcv'[r] = Idle)
    PROVE  RedirectIInv'
  <1>1. RTypeOK /\ Sound(forward, client, obj, txn, tomb) /\ forward = reverse
    BY DEF RedirectIInv
  <1>2. forward \in FlowTable /\ client \in ClientTable /\ obj \in Objects
    BY <1>1 DEF RTypeOK, FlowTable, ClientTable, Objects
  <1>3. Idle.at = "idle"
    BY DEF Idle
  <1>4. ASSUME closed PROVE RedirectIInv'
    <2>1. /\ UNCHANGED <<suspended, forward, reverse, client, obj, txn, reservations, tomb>>
          /\ reservations = {}
      BY <1>4 DEF SuspendEffect, RedirectIInv, Placed
    <2>2. \A r \in Receivers : txn[r] = None
      BY <1>4 DEF RedirectIInv, UnavailableIsEmpty, Unavailable, OpenIn
    <2>3. RTypeOK'
      BY <1>1, <2>1 DEF RTypeOK, Whereabouts
    <2>4. Admitting' /\ ReservationIsReleased'
      BY <2>1, <2>2 DEF Admitting, ReservationIsReleased
    <2>5. Placed'
      BY <1>3, <2>1, <2>2 DEF RedirectIInv, Placed, Asking
    <2>6. UnavailableIsEmpty'
      BY <2>1 DEF RedirectIInv, UnavailableIsEmpty, Unavailable
    <2>7. QED
      BY <1>1, <2>1, <2>3, <2>4, <2>5, <2>6 DEF RedirectIInv
  <1>5. ASSUME ~closed PROVE RedirectIInv'
    <2> DEFINE live == LiveIn(forward)
               tb == Tombed(tomb, live, LongTomb)
               tx == [r \in Receivers |-> None]
    <2>1. /\ suspended' = TRUE /\ forward' = Without(forward, live)
          /\ reverse' = Without(forward, live) /\ client' = ClientWithout(live)
          /\ tomb' = tb /\ txn' = tx /\ reservations' = {}
          /\ obj' = Kept(obj, forward', forward', client', txn')
      BY <1>1, <1>5 DEF SuspendEffect
    <2>2. \A m \in live : /\ m \in MappingIds /\ obj[m] # None
                          /\ forward[obj[m].flow] = m
      <3>1. \A m \in live : m \in MappingIds /\ m # None /\ \E f \in Flows : forward[f] = m
        BY <1>2, LiveEntries, ConstantsAssumption
      <3>2. QED
        BY <1>1, <3>1 DEF Sound, TablesSound
    <2>3. /\ tb \in [Flows -> 0..LongTomb]
          /\ \A f \in Flows : /\ tb[f] = tomb[f] \/ tb[f] > PendingTTL
                              /\ (\E m \in live : obj[m].flow = f) => tb[f] > PendingTTL
      BY <1>1, TimesAssumption DEF Tombed, RTypeOK
    <2>4. \A f \in Flows : tb[f] \in Nat
      BY <2>3, TimesAssumption
    <2>5. tx \in Open /\ \A r \in Receivers : tx[r] = None
      BY DEF Open
    <2> HIDE DEF tb, tx
    <2>6. /\ forward' \in FlowTable /\ client' \in ClientTable
          /\ Sound(forward', client', obj, tx, tb)
      BY <1>1, <2>1, <2>2, <2>3, <2>4, <2>5, Removed
    <2>7. obj' \in Objects /\ Sound(forward', client', obj', txn', tomb')
      BY <1>2, <2>1, <2>5, <2>6, Freed
    <2>8. RTypeOK'
      <3>1. suspended' \in BOOLEAN
        BY <2>1, Zenon
      <3>2. QED
        BY <1>1, <2>1, <2>3, <2>5, <2>6, <2>7, <3>1
           DEF RTypeOK, FlowTable, ClientTable, Objects, Open, Whereabouts
    <2>9. Admitting' /\ ReservationIsReleased'
      BY <2>1, <2>5 DEF Admitting, ReservationIsReleased
    <2>10. Placed'
      BY <1>3, <2>1, <2>5 DEF RedirectIInv, Placed, Asking
    <2>11. UnavailableIsEmpty'
      <3>1. \A f \in Flows : forward[f] # None => forward[f] \in live
        BY <1>2, LiveEntries
      <3>2. \A f \in Flows : forward[f] # None => obj[forward[f]].flow = f
        BY <1>1 DEF Sound, TablesSound
      <3>3. \A f \in Flows : forward'[f] = None
        BY <2>1, <3>1, <3>2 DEF Without
      <3>4. LiveIn(forward') = {}
        BY <2>6, <3>3, LiveEntries
      <3>5. QED
        BY <2>1, <2>5, <3>4 DEF UnavailableIsEmpty, OpenIn
    <2>12. QED
      BY <2>1, <2>7, <2>8, <2>9, <2>10, <2>11 DEF RedirectIInv
  <1>6. QED
    BY <1>4, <1>5

LEMMA SuspendInv ==
    ASSUME RedirectIInv,
           Suspend \/ \E x \in Receivers : RouteFails(x) \/ CommitFails(x)
    PROVE  RedirectIInv'
  <1>1. rcv \in [Receivers -> Whereabouts]
    BY DEF RedirectIInv, RTypeOK, Whereabouts
  <1>2. Idle \in Whereabouts
    BY DEF Idle, Whereabouts
  <1>3. CASE Suspend
    <2>1. SuspendEffect /\ UNCHANGED <<closed, apass>> /\ rcv' = rcv
      BY <1>3 DEF Suspend
    <2>2. /\ rcv' \in [Receivers -> Whereabouts]
          /\ \A r \in Receivers : rcv'[r] = rcv[r] \/ (txn[r] = None /\ rcv'[r] = Idle)
      BY <1>1, <2>1
    <2>3. QED
      BY <2>1, <2>2, SuspendedInv
  <1>4. ASSUME NEW x \in Receivers, RouteFails(x) \/ CommitFails(x) PROVE RedirectIInv'
    <2>1. /\ SuspendEffect /\ UNCHANGED <<closed, apass>> /\ txn[x] = None
          /\ rcv' = [rcv EXCEPT ![x] = Idle]
      BY <1>4 DEF RouteFails, CommitFails, Done, RedirectIInv, Placed
    <2>2. rcv' \in [Receivers -> Whereabouts]
      BY <1>1, <1>2, <2>1
    <2>3. \A r \in Receivers : rcv'[r] = rcv[r] \/ (txn[r] = None /\ rcv'[r] = Idle)
      <3>1. rcv'[x] = Idle /\ \A r \in Receivers : r # x => rcv'[r] = rcv[r]
        BY <1>1, <2>1
      <3>2. QED
        BY <2>1, <3>1
    <2>4. QED
      BY <2>1, <2>2, <2>3, SuspendedInv
  <1>5. QED
    BY <1>3, <1>4

-----------------------------------------------------------------------------
(* The second critical section of a new flow *)

LEMMA AdmittedInv ==
    ASSUME RedirectIInv, NEW x \in Receivers, Insert(x),
           ~InsertRefused(x, rcv[x].flow, rcv[x].who)
    PROVE  RedirectIInv'
  <1> DEFINE f == rcv[x].flow
             m == CHOOSE i \in FreeIds : TRUE
             o == [flow |-> f, pid |-> rcv[x].who, cfin |-> FALSE, sfin |-> FALSE,
                   due |-> FALSE]
             e == [m |-> m, out |-> TRUE, flag |-> "data", new |-> TRUE, ttl |-> PendingTTL]
  <1>1. RTypeOK /\ Sound(forward, client, obj, txn, tomb) /\ forward = reverse
    BY DEF RedirectIInv
  <1>2. rcv[x].at = "insert" /\ f \in Flows /\ rcv[x].who \in Pids /\ txn[x] = None
    BY DEF Insert, RedirectIInv, Placed, Asking
  <1>3. /\ obj' = [obj EXCEPT ![m] = o] /\ txn' = [txn EXCEPT ![x] = e]
        /\ rcv' = [rcv EXCEPT ![x] = [Idle EXCEPT !.at = "send"]] /\ m \in FreeIds
        /\ reservations' = reservations \ {f}
        /\ UNCHANGED <<closed, suspended, tables, tomb, apass>>
    BY DEF Insert
  <1>4. m \in MappingIds /\ obj[m] = None
    BY <1>3 DEF FreeIds
  <1>5. o \in Mapping /\ o # None /\ o.flow = f
    <2>1. FALSE \in BOOLEAN
      BY Zenon
    <2>2. o \in Mapping
      BY <1>2, <2>1 DEF Mapping
    <2>3. QED
      BY <2>2, ConstantsAssumption
  <1> HIDE DEF m
  <1>6. e \in Txn /\ e # None /\ e.m = m /\ e.new
    <2>1. FALSE \in BOOLEAN /\ TRUE \in BOOLEAN
      BY Zenon
    <2>2. PendingTTL \in 0..PendingTTL
      BY TimesAssumption
    <2>3. e \in Txn
      BY <1>4, <2>1, <2>2 DEF Txn, Flags
    <2>4. QED
      BY <2>3, ConstantsAssumption
  <1> HIDE DEF f, o, e
  <1>7. /\ ~Unavailable /\ forward[f] = None /\ client[ClientOf[f]] = None
        /\ \A i \in PendingNew(txn) : ClientOf[obj[i].flow] # ClientOf[f]
    BY DEF InsertRefused, f
  <1>8. /\ obj' \in Objects /\ obj'[m] = o
        /\ \A k \in MappingIds : obj[k] # None => obj'[k] = obj[k]
    BY <1>1, <1>3, <1>4, <1>5 DEF RTypeOK, Objects
  <1>9. /\ txn' \in Open /\ txn'[x] = e /\ \A r \in Receivers : r # x => txn'[r] = txn[r]
    BY <1>1, <1>3, <1>6 DEF RTypeOK, Open
  <1>10. \A r \in Receivers : txn[r] # None =>
            txn[r] \in Txn /\ txn[r].m \in MappingIds /\ obj[txn[r].m] # None
    BY <1>1 DEF RTypeOK, Txn, Sound, StaleSound
  <1>11. Sound(forward, client, obj', txn, tomb)
    <2>1. \A g \in Flows : forward[g] # None => Same(obj, obj', forward[g])
      BY <1>1, <1>8 DEF Same, RTypeOK
    <2>2. \A c \in Clients : client[c] # None => Same(obj, obj', client[c])
      BY <1>1, <1>8 DEF Same, RTypeOK
    <2>3. \A r \in Receivers : txn[r] # None => Same(obj, obj', txn[r].m)
      BY <1>8, <1>10 DEF Same
    <2>4. QED
      BY <1>1, <2>1, <2>2, <2>3, SameObjects
  <1>12. \A q \in Receivers : txn[q] # None =>
            /\ txn[q].new => ClientOf[obj'[txn[q].m].flow] # ClientOf[f]
            /\ ~txn[q].new => obj'[txn[q].m].flow # f
    <2> SUFFICES ASSUME NEW q \in Receivers, txn[q] # None
                 PROVE  /\ txn[q].new => ClientOf[obj[txn[q].m].flow] # ClientOf[f]
                        /\ ~txn[q].new => obj[txn[q].m].flow # f
      BY <1>8, <1>10
    <2>1. txn[q].new => txn[q].m \in PendingNew(txn)
      BY DEF PendingNew, OpenIn
    <2>2. ~txn[q].new /\ obj[txn[q].m].flow = f => forward[f] = txn[q].m
      BY <1>2 DEF RedirectIInv, Admitting, Asking, f
    <2>3. txn[q].m # None
      BY <1>10, ConstantsAssumption
    <2>4. QED
      BY <1>7, <2>1, <2>2, <2>3
  <1>13. Sound(forward', client', obj', txn', tomb')
    <2>1. TablesSound(forward, client, obj')
      BY <1>11 DEF Sound
    <2>2. NewSound(client, obj', txn')
      <3>1. NewSound(client, obj', txn)
        BY <1>11 DEF Sound
      <3>2. obj'[txn'[x].m].flow = f
        BY <1>5, <1>6, <1>8, <1>9
      <3>3. ASSUME NEW r \in Receivers, txn'[r] # None, txn'[r].new
            PROVE  client[ClientOf[obj'[txn'[r].m].flow]] = None
        BY <1>7, <1>9, <3>1, <3>2, <3>3 DEF NewSound
      <3>4. ASSUME NEW r \in Receivers, txn'[r] # None, txn'[r].new,
                   NEW q \in Receivers, q # r, txn'[q] # None
            PROVE  /\ txn'[q].new => ClientOf[obj'[txn'[q].m].flow] # ClientOf[obj'[txn'[r].m].flow]
                   /\ ~txn'[q].new => obj'[txn'[q].m].flow # obj'[txn'[r].m].flow
        <4>1. CASE r = x
          BY <1>9, <1>12, <3>2, <3>4, <4>1
        <4>2. CASE q = x
          BY <1>6, <1>9, <1>12, <3>2, <3>4, <4>2
        <4>3. CASE r # x /\ q # x
          BY <1>9, <3>1, <3>4, <4>3 DEF NewSound
        <4>4. QED
          BY <4>1, <4>2, <4>3
      <3>5. QED
        BY <3>3, <3>4 DEF NewSound
    <2>3. StaleSound(forward, obj', txn', tomb)
      BY <1>5, <1>6, <1>8, <1>9, <1>11 DEF Sound, StaleSound
    <2>4. QED
      BY <1>3, <2>1, <2>2, <2>3 DEF Sound, tables
  <1>14. /\ rcv'[x].at = "send" /\ \A r \in Receivers : r # x => rcv'[r] = rcv[r]
         /\ rcv' \in [Receivers -> Whereabouts]
    BY <1>1, <1>3 DEF RTypeOK, Idle, Whereabouts
  <1>15. RTypeOK'
    BY <1>1, <1>3, <1>8, <1>9, <1>14 DEF RTypeOK, Objects, Open, Whereabouts, tables
  <1>16. Admitting'
    BY <1>3, <1>6, <1>8, <1>9, <1>10, <1>14 DEF RedirectIInv, Admitting, Asking, tables
  <1>17. Placed'
    BY <1>3, <1>9, <1>14 DEF RedirectIInv, Placed, Asking
  <1>18. ReservationIsReleased'
    BY <1>3, <1>14 DEF RedirectIInv, ReservationIsReleased, f
  <1>19. UnavailableIsEmpty'
    BY <1>3, <1>7 DEF UnavailableIsEmpty, Unavailable
  <1>20. QED
    BY <1>1, <1>3, <1>13, <1>15, <1>16, <1>17, <1>18, <1>19 DEF RedirectIInv, tables

LEMMA InsertInv ==
    ASSUME RedirectIInv, NEW x \in Receivers, Insert(x) PROVE RedirectIInv'
  <1>1. CASE InsertRefused(x, rcv[x].flow, rcv[x].who)
    <2>1. /\ rcv[x].at = "insert" /\ rcv' = [rcv EXCEPT ![x] = Idle]
          /\ reservations' = reservations \ {rcv[x].flow}
          /\ UNCHANGED <<closed, suspended, tables, obj, txn, tomb, apass>>
      BY <1>1 DEF Insert
    <2>2. Idle \in Whereabouts /\ Idle.at = "idle"
      BY DEF Idle, Whereabouts
    <2>3. apass' \subseteq Flows /\ txn[x] = None
      BY <2>1 DEF RedirectIInv, RTypeOK, Placed
    <2>4. QED
      BY <2>1, <2>2, <2>3, MovedInv DEF Asking
  <1>2. QED
    BY <1>1, AdmittedInv

-----------------------------------------------------------------------------
(* The outcome of an injection *)

\* What the outcome finds: the mapping exists, no other mapping has its flow,
\* and no other receiver holds a transaction while a third asks for an owner.
LEMMA OutcomeOf ==
    ASSUME RedirectIInv, NEW x \in Receivers, txn[x] # None
    PROVE  /\ txn[x] \in Txn /\ txn[x].m \in MappingIds /\ obj[txn[x].m] \in Mapping
           /\ obj[txn[x].m] # None /\ obj[txn[x].m].flow \in Flows
           /\ forward[obj[txn[x].m].flow] \in {txn[x].m, None}
           /\ txn[x].new => forward[obj[txn[x].m].flow] = None
           /\ ~Unavailable
           /\ \A r, q \in Receivers : rcv[r].at \in Asking /\ q # x => txn[q] = None
  <1>1. RTypeOK /\ Sound(forward, client, obj, txn, tomb)
    BY DEF RedirectIInv
  <1>2. txn[x] \in Txn /\ txn[x].m \in MappingIds /\ obj[txn[x].m] # None
    BY <1>1 DEF RTypeOK, Txn, Sound, StaleSound
  <1>3. obj[txn[x].m] \in Mapping /\ obj[txn[x].m].flow \in Flows
    BY <1>1, <1>2 DEF RTypeOK, Mapping
  <1>4. txn[x].new => forward[obj[txn[x].m].flow] = None
    BY <1>1, <1>3 DEF Sound, NewSound, TablesSound
  <1>5. forward[obj[txn[x].m].flow] \in {txn[x].m, None}
    BY <1>1, <1>4 DEF Sound, StaleSound
  <1>6. ~Unavailable
    BY DEF RedirectIInv, UnavailableIsEmpty, OpenIn
  <1>7. \A r, q \in Receivers : rcv[r].at \in Asking /\ q # x => txn[q] = None
    BY ReceiversAssumption DEF RedirectIInv, Placed, Asking
  <1>8. QED
    BY <1>2, <1>3, <1>4, <1>5, <1>6, <1>7

\* The receiver is done; the tables it leaves are sound.
LEMMA DoneInv ==
    ASSUME RedirectIInv, NEW x \in Receivers, txn[x] # None, Done(x),
           UNCHANGED <<closed, suspended, reservations, apass>>,
           txn' = [txn EXCEPT ![x] = None], forward' = reverse',
           forward' \in FlowTable, client' \in ClientTable, obj' \in Objects,
           tomb' \in [Flows -> 0..LongTomb], Sound(forward', client', obj', txn', tomb')
    PROVE  RedirectIInv'
  <1>1. /\ rcv'[x] = Idle /\ \A r \in Receivers : r # x => rcv'[r] = rcv[r]
        /\ rcv' \in [Receivers -> Whereabouts] /\ Idle.at = "idle" /\ rcv[x].at = "send"
    BY DEF RedirectIInv, RTypeOK, Placed, Done, Idle, Whereabouts
  <1>2. /\ txn'[x] = None /\ \A r \in Receivers : r # x => txn'[r] = txn[r]
        /\ txn' \in Open
    BY DEF RedirectIInv, RTypeOK, Open
  <1>3. RTypeOK'
    BY <1>1, <1>2 DEF RedirectIInv, RTypeOK, FlowTable, ClientTable, Objects, Open, Whereabouts
  <1>4. Admitting'
    BY <1>1, <1>2, OutcomeOf DEF Admitting, Asking
  <1>5. Placed'
    BY <1>1, <1>2 DEF RedirectIInv, Placed, Asking
  <1>6. ReservationIsReleased'
    BY <1>1 DEF RedirectIInv, ReservationIsReleased
  <1>7. UnavailableIsEmpty'
    BY OutcomeOf DEF UnavailableIsEmpty, Unavailable
  <1>8. QED
    BY <1>3, <1>4, <1>5, <1>6, <1>7 DEF RedirectIInv

\* The mapping leaves the tables.
LEMMA BuriedInv ==
    ASSUME RedirectIInv, NEW x \in Receivers, txn[x] # None, Done(x),
           UNCHANGED <<closed, suspended, reservations, apass>>,
           NEW seconds \in {ShortTomb, LongTomb}, NEW objs \in Objects,
           \A k \in MappingIds : Same(obj, objs, k),
           Bury(x, txn[x].m, seconds, objs)
    PROVE  RedirectIInv'
  <1> DEFINE m == txn[x].m
             tb == Tombed(tomb, {m}, seconds)
             tx == [txn EXCEPT ![x] = None]
  <1>1. RTypeOK /\ Sound(forward, client, obj, txn, tomb) /\ forward = reverse
    BY DEF RedirectIInv
  <1>2. /\ forward' = Without(forward, {m}) /\ reverse' = forward'
        /\ client' = ClientWithout({m}) /\ tomb' = tb /\ txn' = tx
        /\ obj' = Kept(objs, forward', forward', client', txn')
    BY <1>1 DEF Bury
  <1>3. /\ tb \in [Flows -> 0..LongTomb]
        /\ \A f \in Flows : /\ tb[f] = tomb[f] \/ tb[f] > PendingTTL
                            /\ (\E k \in {m} : obj[k].flow = f) => tb[f] > PendingTTL
    BY <1>1, TimesAssumption DEF Tombed, RTypeOK
  <1>4. \A f \in Flows : tb[f] \in Nat
    BY <1>3, TimesAssumption
  <1>5. tx \in Open /\ \A r \in Receivers : tx[r] = None \/ tx[r] = txn[r]
    BY <1>1 DEF RTypeOK, Open
  <1> HIDE DEF tb, tx
  <1>6. {m} \in SUBSET MappingIds /\ \A k \in {m} : obj[k] # None /\ forward[obj[k].flow] \in {k, None}
    BY OutcomeOf
  <1>7. /\ forward' \in FlowTable /\ client' \in ClientTable
        /\ Sound(forward', client', obj, tx, tb)
    BY <1>1, <1>2, <1>3, <1>4, <1>5, <1>6, Removed
  <1>8. Sound(forward', client', objs, tx, tb)
    <2>1. \A f \in Flows : forward'[f] # None => Same(obj, objs, forward'[f])
      BY <1>7 DEF FlowTable
    <2>2. \A c \in Clients : client'[c] # None => Same(obj, objs, client'[c])
      BY <1>7 DEF ClientTable
    <2>3. \A r \in Receivers : tx[r] # None => Same(obj, objs, tx[r].m)
      BY <1>5 DEF Open, Txn
    <2>4. QED
      BY <1>7, <2>1, <2>2, <2>3, SameObjects
  <1>9. obj' \in Objects /\ Sound(forward', client', obj', txn', tomb')
    BY <1>2, <1>5, <1>7, <1>8, Freed
  <1>10. QED
    BY <1>2, <1>3, <1>7, <1>9, DoneInv DEF tx

\* Observing a packet changes what is known of the connection, not its flow.
LEMMA SeenObjects ==
    ASSUME RedirectIInv, NEW x \in Receivers, txn[x] # None
    PROVE  Seen(txn[x]) \in Objects /\ \A k \in MappingIds : Same(obj, Seen(txn[x]), k)
  <1> DEFINE t == txn[x]
             o == [obj[t.m] EXCEPT !.due = @ /\ (obj[t.m].cfin \/ obj[t.m].sfin),
                                   !.cfin = @ \/ (t.flag = "fin" /\ t.out),
                                   !.sfin = @ \/ (t.flag = "fin" /\ ~t.out)]
  <1>1. obj \in Objects /\ t.m \in MappingIds /\ obj[t.m] \in Mapping
    BY OutcomeOf DEF RedirectIInv, RTypeOK, Objects
  <1>2. Seen(t) = [obj EXCEPT ![t.m] = o]
    BY <1>1 DEF Seen, Objects, Mapping
  <1>3. o \in Mapping /\ o.flow = obj[t.m].flow
    BY <1>1 DEF Mapping
  <1> HIDE DEF o
  <1>4. QED
    BY <1>1, <1>2, <1>3, ConstantsAssumption DEF Objects, Same

\* A new mapping enters the tables.
LEMMA Installed ==
    ASSUME RedirectIInv, NEW x \in Receivers, txn[x] # None, txn[x].new,
           NEW m, m = txn[x].m, NEW f, f = obj[m].flow,
           NEW fwd, fwd = [forward EXCEPT ![f] = m],
           NEW cl, cl = [client EXCEPT ![ClientOf[f]] = m],
           NEW tx, tx = [txn EXCEPT ![x] = None]
    PROVE  fwd \in FlowTable /\ cl \in ClientTable /\ Sound(fwd, cl, obj, tx, tomb)
  <1>1. RTypeOK /\ Sound(forward, client, obj, txn, tomb)
    BY DEF RedirectIInv
  <1>2. m \in MappingIds /\ obj[m] # None /\ f \in Flows /\ forward[f] = None /\ m # None
    BY OutcomeOf, ConstantsAssumption
  <1>3. \A g \in Flows : ClientOf[g] \in Clients
    BY ConstantsAssumption
  <1>4. /\ fwd \in FlowTable /\ fwd[f] = m /\ \A g \in Flows : g # f => fwd[g] = forward[g]
    BY <1>1, <1>2 DEF RTypeOK, FlowTable
  <1>5. /\ cl \in ClientTable /\ cl[ClientOf[f]] = m
        /\ \A c \in Clients : c # ClientOf[f] => cl[c] = client[c]
    BY <1>1, <1>2, <1>3 DEF RTypeOK, ClientTable
  <1>6. tx[x] = None /\ \A r \in Receivers : r # x => tx[r] = txn[r]
    BY <1>1 DEF RTypeOK
  <1>7. client[ClientOf[f]] = None
    BY <1>1 DEF Sound, NewSound
  <1>8. \A r \in Receivers : r # x /\ txn[r] # None =>
          /\ obj[txn[r].m] # None /\ obj[txn[r].m].flow \in Flows
          /\ txn[r].new => ClientOf[obj[txn[r].m].flow] # ClientOf[f]
          /\ ~txn[r].new => obj[txn[r].m].flow # f
    BY <1>1, OutcomeOf DEF Sound, NewSound
  <1>9. TablesSound(fwd, cl, obj)
    <2>1. ASSUME NEW g \in Flows, fwd[g] # None
          PROVE  obj[fwd[g]] # None /\ obj[fwd[g]].flow = g /\ cl[ClientOf[g]] = fwd[g]
      <3>1. CASE g = f
        BY <1>2, <1>4, <1>5, <3>1
      <3>2. CASE g # f
        <4>1. /\ fwd[g] = forward[g] /\ obj[forward[g]] # None /\ obj[forward[g]].flow = g
              /\ client[ClientOf[g]] = forward[g]
          BY <1>1, <1>4, <2>1, <3>2 DEF Sound, TablesSound
        <4>2. ClientOf[g] # ClientOf[f]
          BY <1>7, <2>1, <4>1
        <4>3. QED
          BY <1>3, <1>5, <4>1, <4>2
      <3>3. QED
        BY <3>1, <3>2
    <2>2. ASSUME NEW c \in Clients, cl[c] # None
          PROVE  obj[cl[c]] # None /\ fwd[obj[cl[c]].flow] = cl[c]
      <3>1. CASE c = ClientOf[f]
        BY <1>2, <1>4, <1>5, <3>1
      <3>2. CASE c # ClientOf[f]
        <4>1. /\ cl[c] = client[c] /\ obj[client[c]] # None /\ client[c] # None
              /\ forward[obj[client[c]].flow] = client[c]
          BY <1>1, <1>5, <2>2, <3>2 DEF Sound, TablesSound
        <4>2. obj[client[c]].flow \in Flows
          BY <1>1, <4>1 DEF RTypeOK, Mapping
        <4>3. QED
          BY <1>2, <1>4, <4>1, <4>2
      <3>3. QED
        BY <3>1, <3>2
    <2>3. QED
      BY <2>1, <2>2 DEF TablesSound
  <1>10. NewSound(cl, obj, tx)
    <2>1. ASSUME NEW r \in Receivers, tx[r] # None, tx[r].new
          PROVE  cl[ClientOf[obj[tx[r].m].flow]] = None
      <3>1. r # x /\ tx[r] = txn[r]
        BY <1>6, <2>1
      <3>2. client[ClientOf[obj[txn[r].m].flow]] = None
        BY <1>1, <2>1, <3>1 DEF Sound, NewSound
      <3>3. ClientOf[obj[txn[r].m].flow] \in Clients
        BY <1>3, <1>8, <2>1, <3>1
      <3>4. ClientOf[obj[txn[r].m].flow] # ClientOf[f]
        BY <1>8, <2>1, <3>1
      <3>5. QED
        BY <1>5, <3>1, <3>2, <3>3, <3>4
    <2>2. ASSUME NEW r \in Receivers, tx[r] # None, tx[r].new,
                 NEW q \in Receivers, q # r, tx[q] # None
          PROVE  /\ tx[q].new => ClientOf[obj[tx[q].m].flow] # ClientOf[obj[tx[r].m].flow]
                 /\ ~tx[q].new => obj[tx[q].m].flow # obj[tx[r].m].flow
      <3>1. tx[r] = txn[r] /\ tx[q] = txn[q]
        BY <1>6, <2>2
      <3>2. QED
        BY <1>1, <2>2, <3>1 DEF Sound, NewSound
    <2>3. QED
      BY <2>1, <2>2 DEF NewSound
  <1>11. StaleSound(fwd, obj, tx, tomb)
    <2>1. ASSUME NEW r \in Receivers, tx[r] # None
          PROVE  r # x /\ tx[r] = txn[r] /\ txn[r] # None /\ obj[txn[r].m] # None
      BY <1>6, <1>8, <2>1
    <2>2. ASSUME NEW r \in Receivers, tx[r] # None, ~tx[r].new
          PROVE  fwd[obj[txn[r].m].flow] = forward[obj[txn[r].m].flow]
      BY <1>4, <1>8, <2>1, <2>2
    <2>3. QED
      BY <1>1, <2>1, <2>2 DEF Sound, StaleSound
  <1>12. QED
    BY <1>4, <1>5, <1>9, <1>10, <1>11 DEF Sound

LEMMA OutcomeInv ==
    ASSUME RedirectIInv, NEW x \in Receivers, CommitSent(x) \/ InjectionFails(x)
    PROVE  RedirectIInv'
  <1> DEFINE t == txn[x]
             f == obj[t.m].flow
             tx == [txn EXCEPT ![x] = None]
  <1>1. /\ txn[x] # None /\ Done(x)
        /\ UNCHANGED <<closed, suspended, reservations, apass>>
    BY DEF CommitSent, InjectionFails
  <1>2. /\ RTypeOK /\ Sound(forward, client, obj, txn, tomb) /\ forward = reverse
        /\ obj \in Objects
    BY DEF RedirectIInv, RTypeOK, Objects
  <1>3. Seen(t) \in Objects /\ \A k \in MappingIds : Same(obj, Seen(t), k)
    BY <1>1, SeenObjects
  <1>4. CASE InjectionFails(x)
    <2>1. Bury(x, t.m, ShortTomb, obj)
      BY <1>4 DEF InjectionFails
    <2>2. \A k \in MappingIds : Same(obj, obj, k)
      BY DEF Same
    <2>3. QED
      BY <1>1, <1>2, <2>1, <2>2, BuriedInv
  <1>5. CASE CommitSent(x) /\ Over(t)
    <2>1. Bury(x, t.m, LongTomb, Seen(t))
      BY <1>5 DEF CommitSent
    <2>2. QED
      BY <1>1, <1>3, <2>1, BuriedInv
  <1>6. CASE CommitSent(x) /\ ~Over(t)
    <2>1. /\ IF t.new
             THEN /\ forward' = [forward EXCEPT ![f] = t.m]
                  /\ reverse' = [reverse EXCEPT ![f] = t.m]
                  /\ client' = [client EXCEPT ![ClientOf[f]] = t.m]
             ELSE UNCHANGED tables
          /\ txn' = tx /\ UNCHANGED tomb
          /\ obj' = Kept(Seen(t), forward', reverse', client', txn')
      BY <1>6 DEF CommitSent
    <2>2. tx \in Open /\ tx[x] = None /\ \A r \in Receivers : r # x => tx[r] = txn[r]
      BY <1>2 DEF RTypeOK, Open
    <2>3. reverse' = forward' /\ tomb' \in [Flows -> 0..LongTomb]
      BY <1>2, <2>1 DEF tables, RTypeOK
    <2>4. forward' \in FlowTable /\ client' \in ClientTable /\ Sound(forward', client', obj, tx, tomb)
      <3>1. CASE t.new
        BY <1>1, <2>1, <3>1, Installed
      <3>2. CASE ~t.new
        <4>1. forward' = forward /\ client' = client
          BY <2>1, <3>2 DEF tables
        <4>2. forward' \in FlowTable /\ client' \in ClientTable
          BY <1>2, <4>1 DEF RTypeOK, FlowTable, ClientTable
        <4>3. \A r \in Receivers : tx[r] # None => tx[r] = txn[r]
          BY <2>2
        <4> HIDE DEF tx
        <4>4. TablesSound(forward, client, obj) /\ StaleSound(forward, obj, tx, tomb)
          BY <1>2, <4>3 DEF Sound, StaleSound
        <4>5. NewSound(client, obj, tx)
          BY <1>2, <4>3 DEF Sound, NewSound
        <4>6. QED
          BY <4>1, <4>2, <4>4, <4>5 DEF Sound
      <3>3. QED
        BY <3>1, <3>2
    <2> HIDE DEF tx
    <2>5. Sound(forward', client', Seen(t), tx, tomb)
      <3>1. \A g \in Flows : forward'[g] # None => Same(obj, Seen(t), forward'[g])
        BY <1>3, <2>4 DEF FlowTable
      <3>2. \A c \in Clients : client'[c] # None => Same(obj, Seen(t), client'[c])
        BY <1>3, <2>4 DEF ClientTable
      <3>3. \A r \in Receivers : tx[r] # None => Same(obj, Seen(t), tx[r].m)
        BY <1>3, <2>2 DEF Open, Txn
      <3>4. QED
        BY <2>4, <3>1, <3>2, <3>3, SameObjects
    <2>6. obj' \in Objects /\ Sound(forward', client', obj', txn', tomb')
      BY <1>3, <2>1, <2>2, <2>3, <2>4, <2>5, Freed
    <2>7. QED
      BY <1>1, <2>1, <2>3, <2>4, <2>6, DoneInv DEF tx
  <1>7. QED
    BY <1>4, <1>5, <1>6

-----------------------------------------------------------------------------
(* Resume, close and time *)

LEMMA CloseInv == RedirectIInv /\ Close => RedirectIInv'
  <1> SUFFICES ASSUME RedirectIInv, Close PROVE RedirectIInv'
    OBVIOUS
  <1>1. RTypeOK'
    <2>1. closed' \in BOOLEAN
      BY Zenon DEF Close
    <2>2. tomb' \in [Flows -> 0..LongTomb]
      BY TimesAssumption DEF Close
    <2>3. QED
      BY <2>1, <2>2 DEF Close, RedirectIInv, RTypeOK
  <1>2. Sound(forward', client', obj', txn', tomb')
    BY DEF Close, Sound, TablesSound, NewSound, StaleSound
  <1>3. Admitting' /\ ReservationIsReleased'
    BY DEF Close, Admitting, ReservationIsReleased
  <1>4. Placed'
    BY DEF Close, RedirectIInv, Placed
  <1>5. UnavailableIsEmpty'
    <2>1. forward' \in FlowTable /\ \A f \in Flows : forward'[f] = None
      BY DEF Close, FlowTable
    <2>2. OpenIn(txn') = {}
      BY DEF Close, OpenIn
    <2>3. QED
      BY <2>1, <2>2, LiveEntries DEF UnavailableIsEmpty
  <1>6. QED
    BY <1>1, <1>2, <1>3, <1>4, <1>5 DEF Close, RedirectIInv

LEMMA ResumeInv == RedirectIInv /\ Resume => RedirectIInv'
  <1> SUFFICES ASSUME RedirectIInv, Resume PROVE RedirectIInv'
    OBVIOUS
  <1>1. RTypeOK'
    <2>1. suspended' \in BOOLEAN
      BY Zenon DEF Resume
    <2>2. QED
      BY <2>1 DEF Resume, RedirectIInv, RTypeOK, tables
  <1>2. UnavailableIsEmpty'
    BY DEF Resume, UnavailableIsEmpty, Unavailable
  <1>3. Admitting' /\ Placed' /\ ReservationIsReleased'
    BY DEF Resume, RedirectIInv, Admitting, Placed, ReservationIsReleased, tables
  <1>4. QED
    BY <1>1, <1>2, <1>3 DEF Resume, RedirectIInv, tables

\* Clocks that run together keep their order.
LEMMA LessLess ==
    /\ \A n \in Nat : Less(n) \in Nat /\ Less(n) <= n
    /\ \A n, k \in Nat : n > k => (Less(k) > 0 => Less(n) > Less(k))
  BY DEF Less

LEMMA TickInv == RedirectIInv /\ Tick => RedirectIInv'
  <1> SUFFICES ASSUME RedirectIInv, Tick PROVE RedirectIInv'
    OBVIOUS
  <1>1. /\ RTypeOK /\ Sound(forward, client, obj, txn, tomb) /\ forward = reverse
        /\ obj \in Objects
    BY DEF RedirectIInv, RTypeOK, Objects
  <1>2. UNCHANGED <<closed, suspended, forward, reverse, client, reservations, rcv>>
    BY DEF Tick, tables
  <1>3. tomb' \in [Flows -> 0..LongTomb] /\ \A f \in Flows : tomb[f] \in Nat /\ tomb'[f] = Less(tomb[f])
    <2>1. \A n \in 0..LongTomb : n \in Nat /\ Less(n) \in 0..LongTomb
      BY TimesAssumption DEF Less
    <2>2. tomb \in [Flows -> 0..LongTomb] /\ tomb' = [f \in Flows |-> Less(tomb[f])]
      BY <1>1 DEF Tick, RTypeOK
    <2>3. QED
      BY <2>1, <2>2
  <1>4. \A r \in Receivers : /\ txn[r] = None => txn'[r] = None
                             /\ txn[r] # None =>
                                  /\ txn'[r] \in Txn /\ txn[r] \in Txn /\ txn[r].ttl \in Nat
                                  /\ txn'[r].m = txn[r].m /\ txn'[r].new = txn[r].new
                                  /\ txn'[r].ttl = Less(txn[r].ttl)
    <2> SUFFICES ASSUME NEW r \in Receivers, txn[r] # None
                 PROVE  /\ txn'[r] \in Txn /\ txn[r] \in Txn /\ txn[r].ttl \in Nat
                        /\ txn'[r].m = txn[r].m /\ txn'[r].new = txn[r].new
                        /\ txn'[r].ttl = Less(txn[r].ttl)
      BY DEF Tick
    <2>1. txn[r] \in Txn /\ txn'[r] = [txn[r] EXCEPT !.ttl = Less(@)]
      BY <1>1 DEF Tick, RTypeOK
    <2>2. txn[r].ttl \in Nat /\ txn[r].ttl \in 0..PendingTTL
      BY <2>1, TimesAssumption DEF Txn
    <2>3. Less(txn[r].ttl) \in 0..PendingTTL
      BY <2>2, TimesAssumption DEF Less
    <2>4. QED
      BY <2>1, <2>2, <2>3 DEF Txn
  <1>5. txn' \in Open
    BY <1>4 DEF Tick, Open
  <1>6. obj' \in Objects /\ \A k \in MappingIds : Same(obj, obj', k)
    <2>1. PICK late \in SUBSET LiveIn(forward) :
            obj' = [m \in MappingIds |-> IF m \in late
                                         THEN [obj[m] EXCEPT !.due = TRUE] ELSE obj[m]]
      BY DEF Tick
    <2>2. \A m \in LiveIn(forward) : m \in MappingIds /\ obj[m] \in Mapping
      <3>1. forward \in FlowTable
        BY <1>1 DEF RTypeOK, FlowTable
      <3>2. \A m \in LiveIn(forward) : m \in MappingIds /\ m # None /\ \E f \in Flows : forward[f] = m
        BY <3>1, LiveEntries, ConstantsAssumption
      <3>3. QED
        BY <1>1, <3>2 DEF Sound, TablesSound, RTypeOK
    <2>3. \A o \in Mapping : [o EXCEPT !.due = TRUE] \in Mapping /\ [o EXCEPT !.due = TRUE].flow = o.flow
      <3>1. TRUE \in BOOLEAN
        BY Zenon
      <3>2. QED
        BY <3>1 DEF Mapping
    <2>4. QED
      BY <1>1, <2>1, <2>2, <2>3, ConstantsAssumption DEF Objects, Same
  <1>7. Sound(forward, client, obj, txn', tomb')
    <2>1. NewSound(client, obj, txn')
      <3>1. \A r \in Receivers : txn'[r] # None =>
              txn[r] # None /\ txn'[r].m = txn[r].m /\ txn'[r].new = txn[r].new
        BY <1>4
      <3>2. QED
        BY <1>1, <3>1 DEF Sound, NewSound
    <2>2. StaleSound(forward, obj, txn', tomb')
      <3> SUFFICES ASSUME NEW r \in Receivers, txn'[r] # None
                   PROVE  /\ obj[txn'[r].m] # None
                          /\ ~txn'[r].new => LET f == obj[txn'[r].m].flow IN
                                \/ forward[f] = txn'[r].m
                                \/ forward[f] = None /\ (txn'[r].ttl > 0 => tomb'[f] > txn'[r].ttl)
        BY DEF StaleSound
      <3> DEFINE f == obj[txn[r].m].flow
      <3>1. txn[r] # None /\ txn'[r].m = txn[r].m /\ txn'[r].new = txn[r].new
        BY <1>4
      <3>2. txn[r].ttl \in Nat /\ txn'[r].ttl = Less(txn[r].ttl) /\ f \in Flows
        BY <1>4, <3>1, OutcomeOf
      <3>3. txn'[r].ttl > 0 => txn[r].ttl > 0
        BY <3>2 DEF Less
      <3>4. tomb[f] > txn[r].ttl => (txn'[r].ttl > 0 => tomb'[f] > txn'[r].ttl)
        BY <1>3, <3>2, LessLess
      <3>5. /\ obj[txn[r].m] # None
            /\ ~txn[r].new => \/ forward[f] = txn[r].m
                              \/ forward[f] = None /\ (txn[r].ttl > 0 => tomb[f] > txn[r].ttl)
        BY <1>1, <3>1 DEF Sound, StaleSound
      <3>6. QED
        BY <3>1, <3>3, <3>4, <3>5
    <2>3. QED
      BY <1>1, <2>1, <2>2 DEF Sound
  <1>8. Sound(forward', client', obj', txn', tomb')
    <2>1. \A f \in Flows : forward[f] # None => Same(obj, obj', forward[f])
      BY <1>1, <1>6 DEF RTypeOK
    <2>2. \A c \in Clients : client[c] # None => Same(obj, obj', client[c])
      BY <1>1, <1>6 DEF RTypeOK
    <2>3. \A r \in Receivers : txn'[r] # None => Same(obj, obj', txn'[r].m)
      BY <1>5, <1>6 DEF Open, Txn
    <2>4. QED
      BY <1>2, <1>7, <2>1, <2>2, <2>3, SameObjects
  <1>9. RTypeOK'
    BY <1>1, <1>2, <1>3, <1>5, <1>6 DEF Tick, RTypeOK, Objects, Open
  <1>10. Admitting'
    <2>1. \A r \in Receivers : txn'[r] # None =>
            /\ txn[r] # None /\ txn'[r].m = txn[r].m /\ txn'[r].new = txn[r].new
            /\ obj'[txn'[r].m].flow = obj[txn[r].m].flow
      BY <1>4, <1>6, OutcomeOf DEF Same
    <2>2. QED
      BY <1>2, <2>1 DEF RedirectIInv, Admitting
  <1>11. Placed' /\ ReservationIsReleased'
    BY <1>2, <1>4 DEF RedirectIInv, Placed, ReservationIsReleased
  <1>12. UnavailableIsEmpty'
    BY <1>2, <1>4 DEF RedirectIInv, UnavailableIsEmpty, Unavailable, OpenIn
  <1>13. QED
    BY <1>1, <1>2, <1>8, <1>9, <1>10, <1>11, <1>12 DEF RedirectIInv

-----------------------------------------------------------------------------
LEMMA RedirectNext == RedirectIInv /\ [RNext]_vars => RedirectIInv'
  <1> SUFFICES ASSUME RedirectIInv, [RNext]_vars PROVE RedirectIInv'
    OBVIOUS
  <1>1. ASSUME NEW r \in Receivers, NEW f \in Flows, PrepareRefused(r, f) \/ InboundRefused(r, f)
        PROVE  RedirectIInv'
    BY <1>1, RefusedInv DEF PrepareRefused, InboundRefused
  <1>2. ASSUME NEW r \in Receivers, NEW f \in Flows, PrepareSyn(r, f) PROVE RedirectIInv'
    BY <1>2, SynInv
  <1>3. ASSUME NEW r \in Receivers, NEW f \in Flows, NEW flag \in Flags, PrepareMapped(r, f, flag)
        PROVE  RedirectIInv'
    <2>1. TRUE \in BOOLEAN
      BY Zenon
    <2>2. QED
      BY <1>3, <2>1, MappedInv DEF PrepareMapped
  <1>4. ASSUME NEW r \in Receivers, NEW f \in Flows, NEW flag \in Flags, InboundMapped(r, f, flag)
        PROVE  RedirectIInv'
    <2>1. FALSE \in BOOLEAN
      BY Zenon
    <2>2. CleanReverse = CleanForward
      BY Cleaned
    <2>3. QED
      BY <1>4, <2>1, <2>2, MappedInv DEF InboundMapped
  <1>5. ASSUME NEW r \in Receivers,
               Resolve(r) \/ QueryFails(r) \/ GuardsHold(r) \/ AbortFails(r)
        PROVE  RedirectIInv'
    BY <1>5, ResolveInv
  <1>6. ASSUME NEW r \in Receivers, Insert(r) PROVE RedirectIInv'
    BY <1>6, InsertInv
  <1>7. ASSUME NEW r \in Receivers, CommitSent(r) \/ InjectionFails(r) PROVE RedirectIInv'
    BY <1>7, OutcomeInv
  <1>8. ASSUME NEW r \in Receivers, RouteFails(r) \/ CommitFails(r) PROVE RedirectIInv'
    BY <1>8, SuspendInv
  <1>9. CASE Suspend
    BY <1>9, SuspendInv
  <1>10. CASE Resume \/ Close \/ Tick
    BY <1>10, ResumeInv, CloseInv, TickInv
  <1>11. CASE UNCHANGED vars
    BY <1>11 DEF vars, RedirectIInv, RTypeOK, Admitting, Placed, UnavailableIsEmpty, Unavailable,
                 ReservationIsReleased
  <1>12. QED
    BY <1>1, <1>2, <1>3, <1>4, <1>5, <1>6, <1>7, <1>8, <1>9, <1>10, <1>11 DEF RNext

\* RedirectIInv holds in every reachable state: the form of the tables that
\* each critical section of ProcessRedirectEngine needs of the one before.
THEOREM RedirectInductive == RSpec => []RedirectIInv
  BY RedirectInit, RedirectNext, PTL DEF RSpec

\* For every number of flows, processes and limits, and for one or two
\* receivers: _forward, _reverse and _client describe the same connections, an
\* engine that is suspended or closed holds none and no token that could install
\* one, and every reservation has a receiver that releases it.
THEOREM EngineTables == RSpec => []RedirectInv
  <1>1. RedirectIInv => TablesAgree
    BY DEF RedirectIInv, Sound, TablesSound, NewSound, TablesAgree, OpenIn
  <1>2. RedirectIInv => RedirectInv
    BY <1>1 DEF RedirectIInv, RedirectInv
  <1>3. QED
    BY <1>2, RedirectInductive, PTL

\* A mapping that died stays under its tombstone until every transaction on it
\* is over or overdue: the late outcome that removes by key never finds the
\* next connection of the flow in the tables.
THEOREM LateOutcome == RSpec => []TombstoneOutlivesTransaction
  <1>1. RedirectIInv => TombstoneOutlivesTransaction
    BY DEF RedirectIInv, Sound, StaleSound, TombstoneOutlivesTransaction, OpenIn
  <1>2. QED
    BY <1>1, RedirectInductive, PTL
=============================================================================
