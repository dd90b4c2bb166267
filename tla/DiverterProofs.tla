--------------------------- MODULE DiverterProofs ---------------------------
(***************************************************************************)
(* Proofs about two parts of the diverter.                                 *)
(*                                                                         *)
(* EgressRelay, for any flows, clients and sources, any number of mappings *)
(* and any limits: the inductive invariant RelayIInv, and from it that the *)
(* tables of the policy agree, that a suspended policy holds nothing, that *)
(* a permit has its worker and that the four quotas are exact.             *)
(*                                                                         *)
(* PacketPath, for any programs, addresses, ports and exemption lists and  *)
(* any number of packets: the inductive invariant PathInv, and from it     *)
(* that the tables describe the latest packet, that an answer comes from   *)
(* where the client asked and that an indicator names its program.         *)
(***************************************************************************)
EXTENDS EgressRelay, PacketPath, FiniteSetTheorems, TLAPS

-----------------------------------------------------------------------------
(* The inductive invariant.  What it says of the policy's tables is an     *)
(* operator of their state, because most steps clean up before they do     *)
(* their own work.                                                         *)

NatTables ==
    [fwd : [Flows -> Gens \cup {NoGen}], rev : [Clients -> Gens \cup {NoGen}],
     cli : [Clients -> Gens \cup {NoGen}], gen : SUBSET Gens,
     obj : [Gens -> Mapping \cup {NoMapping}],
     tomb : [Flows -> 0..Tomb], ctomb : [Clients -> 0..Tomb],
     pend : [Sources -> Nat], act : [Sources -> Nat], permit : [Gens -> 0..ActiveLife]]

\* The mappings given out are those that have an object.
Given(n, upto) ==
    /\ \A g \in 1..upto : n.obj[g] \in Mapping
    /\ \A g \in Gens : n.obj[g] # NoMapping => g \in 1..upto

\* A live mapping is found in all tables, and only under its own keys.
Found(n, upto) ==
    /\ \A g \in n.gen : /\ g \in 1..upto
                        /\ n.fwd[n.obj[g].flow] = g
                        /\ n.rev[Client(n, g)] = g /\ n.cli[Client(n, g)] = g
    /\ \A g \in 1..upto : n.obj[g].active => g \in n.gen
Keyed(n, upto) ==
    /\ \A f \in Flows : n.fwd[f] # NoGen => n.fwd[f] \in 1..upto /\ n.obj[n.fwd[f]].flow = f
    /\ \A c \in Clients : n.rev[c] # NoGen => n.rev[c] \in 1..upto /\ Client(n, n.rev[c]) = c
    /\ \A c \in Clients : n.cli[c] # NoGen => n.cli[c] \in n.gen /\ Client(n, n.cli[c]) = c

\* The rewrite of a closed mapping goes before the tuple is allowed again.
Buried(n, g) ==
    n.obj[g].left > 0 =>
        n.tomb[n.obj[g].flow] > n.obj[g].left /\ n.ctomb[Client(n, g)] > n.obj[g].left
LeftOver(n) ==
    /\ \A f \in Flows : n.fwd[f] # NoGen => n.fwd[f] \in n.gen \/ Buried(n, n.fwd[f])
    /\ \A c \in Clients : n.rev[c] # NoGen => n.rev[c] \in n.gen \/ Buried(n, n.rev[c])

\* The policy's counters count its mappings.
Of(n, s, act) == {g \in n.gen : Source(n, g) = s /\ n.obj[g].active = act}
Counted(n) ==
    \A s \in Sources : /\ n.pend[s] = Cardinality(Of(n, s, FALSE))
                       /\ n.act[s] = Cardinality(Of(n, s, TRUE))

Sound(n, upto) ==
    n \in NatTables /\ Given(n, upto) /\ Found(n, upto) /\ Keyed(n, upto) /\ LeftOver(n) /\ Counted(n)

Vacant(n) ==
    /\ n.gen = {} /\ (\A f \in Flows : n.fwd[f] = NoGen)
    /\ \A c \in Clients : n.rev[c] = NoGen /\ n.cli[c] = NoGen
    /\ \A s \in Sources : n.pend[s] = 0 /\ n.act[s] = 0
    /\ \A g \in Gens : n.permit[g] = 0

\* The relay: one worker per mapping, after its mapping was consumed, with
\* the slot that belongs to the point it has reached.
RelayTypes ==
    /\ suspended \in BOOLEAN /\ quiesced \in BOOLEAN /\ stop \in {"running", "set", "closed"}
    /\ generation \in 0..MaxGen /\ backlog \subseteq Clients
    /\ acc \in [at : {"accept", "admit", "retire"}, gen : Gens \cup {NoGen}]
    /\ w \in [Gens -> AtWorker] /\ hold \in [Gens -> {"none", "pending", "active"}]
    /\ conns \subseteq Sockets /\ open \subseteq Sockets
    /\ slots \in [pend : [Sources -> Nat], act : [Sources -> Nat]]
Handed(n) ==
    /\ acc.at = "accept" <=> acc.gen = NoGen
    /\ acc.gen # NoGen => acc.gen \in 1..generation /\ w[acc.gen] = "none"
    /\ \A g \in Gens : w[g] # "none" => g \in 1..generation
    /\ \A g \in n.gen : w[g] # "none" \/ acc.gen = g => n.obj[g].consumed
    /\ \A g \in n.gen : n.obj[g].active => w[g] \in {"relay", "finally", "closing", "unmap", "gone"}
SlotOf(at, k) ==
    /\ at \in {"new", "added", "hello"} => k = "pending"
    /\ at \in {"socket", "register", "connect", "relay"} => k = "active"
    /\ at \in {"none", "closing", "unmap", "gone"} => k = "none"
Holding(n, h, k, s) == {g \in Gens : h[g] = k /\ Source(n, g) = s}
SlotsCounted(n) ==
    \A s \in Sources : /\ slots.pend[s] = Cardinality(Holding(n, hold, "pending", s))
                       /\ slots.act[s] = Cardinality(Holding(n, hold, "active", s))
PermitsHeld(n) == \A g \in Gens : n.permit[g] > 0 => w[g] \in {"connect", "relay", "finally"}

RelayIInv ==
    /\ RelayTypes /\ Sound(nat, generation) /\ (suspended => Vacant(nat))
    /\ Handed(nat) /\ (\A g \in Gens : SlotOf(w[g], hold[g]))
    /\ SlotsCounted(nat) /\ PermitsHeld(nat)

-----------------------------------------------------------------------------
(* Operators of the model *)

LEMMA NotMapping == NoMapping \notin Mapping
  BY DEF NoMapping, Mapping

LEMMA LessFacts ==
    \A a, b \in Nat : /\ Less(a, b) \in Nat /\ Less(a, b) <= a
                      /\ b <= a => Less(a, b) = a - b
  BY DEF Less

\* A deadline one tick later.
LEMMA LessOne ==
    /\ \A a \in Nat : Less(a, 1) \in Nat /\ Less(a, 1) <= a /\ (Less(a, 1) > 0 => a > 0)
    /\ \A a, b \in Nat : a > b /\ Less(b, 1) > 0 => Less(a, 1) > Less(b, 1)
  <1>1. ASSUME NEW a \in Nat, NEW b \in Nat
        PROVE  /\ Less(a, 1) \in Nat /\ Less(a, 1) <= a /\ (Less(a, 1) > 0 => a > 0)
               /\ a > b /\ Less(b, 1) > 0 => Less(a, 1) > Less(b, 1)
    BY DEF Less
  <1>2. QED
    BY <1>1

LEMMA LessIn ==
    ASSUME NEW k \in Nat, NEW a \in 0..k
    PROVE  Less(a, 1) \in 0..k
  BY DEF Less

LEMMA Fields ==
    ASSUME NEW n \in NatTables
    PROVE  /\ n.fwd \in [Flows -> Gens \cup {NoGen}] /\ n.rev \in [Clients -> Gens \cup {NoGen}]
           /\ n.cli \in [Clients -> Gens \cup {NoGen}] /\ n.gen \subseteq Gens
           /\ n.obj \in [Gens -> Mapping \cup {NoMapping}]
           /\ n.tomb \in [Flows -> 0..Tomb] /\ n.ctomb \in [Clients -> 0..Tomb]
           /\ n.pend \in [Sources -> Nat] /\ n.act \in [Sources -> Nat]
           /\ n.permit \in [Gens -> 0..ActiveLife]
  BY DEF NatTables

LEMMA MappingFields ==
    ASSUME NEW x \in Mapping
    PROVE  /\ x.flow \in Flows /\ ClientOf[x.flow] \in Clients
           /\ SourceOf[ClientOf[x.flow]] \in Sources
           /\ x.consumed \in BOOLEAN /\ x.active \in BOOLEAN
           /\ x.left \in 0..(PendingLife + ActiveLife + Grace) /\ x.left \in Nat
  <1>1. /\ x.flow \in Flows /\ x.consumed \in BOOLEAN /\ x.active \in BOOLEAN
        /\ x.left \in 0..(PendingLife + ActiveLife + Grace)
    BY DEF Mapping
  <1>2. QED
    BY <1>1, RelayConstants, RelayTimes

LEMMA FiniteGens == \A S \in SUBSET Gens : IsFiniteSet(S) /\ Cardinality(S) \in Nat
  <1>1. IsFiniteSet(Gens)
    BY FS_Interval, RelayConstants DEF Gens
  <1>2. QED
    BY <1>1, FS_Subset, FS_CardinalityType

LEMMA WithoutIs ==
    ASSUME NEW K, NEW t \in [K -> Gens \cup {NoGen}], NEW E \in SUBSET Gens
    PROVE  /\ Without(t, E) \in [K -> Gens \cup {NoGen}]
           /\ \A k \in K : /\ t[k] \in E => Without(t, E)[k] = NoGen
                           /\ t[k] \notin E => Without(t, E)[k] = t[k]
  BY DEF Without

\* Objects that keep their addresses.
Kin(n, m) ==
    \A g \in Gens : /\ n.obj[g] = NoMapping => m.obj[g] = NoMapping
                    /\ n.obj[g] \in Mapping => m.obj[g] \in Mapping /\ m.obj[g].flow = n.obj[g].flow
InTables(n, g) ==
    g \in n.gen \/ (\E f \in Flows : n.fwd[f] = g) \/ (\E c \in Clients : n.rev[c] = g)

LEMMA ForgetIs ==
    ASSUME NEW n \in NatTables, NEW m, m = Forget(n)
    PROVE  /\ m \in NatTables /\ Kin(n, m)
           /\ m.fwd = n.fwd /\ m.rev = n.rev /\ m.cli = n.cli /\ m.gen = n.gen
           /\ m.tomb = n.tomb /\ m.ctomb = n.ctomb
           /\ m.pend = n.pend /\ m.act = n.act /\ m.permit = n.permit
           /\ \A g \in Gens : InTables(n, g) => m.obj[g] = n.obj[g]
           /\ \A g \in Gens : n.obj[g] \in Mapping /\ ~InTables(n, g) => m.obj[g].active = FALSE
           /\ \A g \in Gens : n.obj[g] \in Mapping => m.obj[g] = n.obj[g] \/ m.obj[g].active = FALSE
  <1> DEFINE kept == n.gen \cup Range(n.fwd) \cup Range(n.rev)
             gone(g) == [n.obj[g] EXCEPT !.consumed = FALSE, !.active = FALSE, !.left = 0]
             o == [g \in Gens |-> IF g \in kept \/ n.obj[g] = NoMapping THEN n.obj[g] ELSE gone(g)]
  <1>1. m = [n EXCEPT !.obj = o]
    BY DEF Forget
  <1>2. \A g \in Gens : g \in kept <=> InTables(n, g)
    BY Fields DEF Range, InTables
  <1> HIDE DEF kept
  <1>3. 0 \in 0..(PendingLife + ActiveLife + Grace) /\ FALSE \in BOOLEAN
    <2>1. FALSE \in BOOLEAN
      BY Zenon
    <2>2. QED
      BY <2>1, RelayTimes
  <1>4. \A g \in Gens : n.obj[g] \in Mapping =>
          gone(g) \in Mapping /\ gone(g).flow = n.obj[g].flow /\ gone(g).active = FALSE
    BY <1>3 DEF Mapping
  <1> HIDE DEF gone
  <1>5. \A g \in Gens : n.obj[g] \in Mapping \cup {NoMapping}
    BY Fields
  <1>6. o \in [Gens -> Mapping \cup {NoMapping}]
    BY <1>4, <1>5
  <1>7. \A g \in Gens : /\ o[g] = IF g \in kept \/ n.obj[g] = NoMapping THEN n.obj[g] ELSE gone(g)
                        /\ n.obj[g] \in Mapping => n.obj[g] # NoMapping
    BY NotMapping
  <1> HIDE DEF o
  <1>8. /\ m \in NatTables /\ m.obj = o
        /\ m.fwd = n.fwd /\ m.rev = n.rev /\ m.cli = n.cli /\ m.gen = n.gen
        /\ m.tomb = n.tomb /\ m.ctomb = n.ctomb
        /\ m.pend = n.pend /\ m.act = n.act /\ m.permit = n.permit
    BY <1>1, <1>6 DEF NatTables
  <1>9. QED
    BY <1>2, <1>4, <1>7, <1>8 DEF Kin

\* How many of the mappings E a source's counter counts.
Share(n, E, s, act) == Cardinality({g \in E : Source(n, g) = s /\ n.obj[g].active = act})

LEMMA ReleasedIs ==
    ASSUME NEW n \in NatTables, NEW E \in SUBSET Gens
    PROVE  LET m == Released(n, E) IN
           /\ m \in NatTables /\ m.obj = n.obj /\ m.gen = n.gen \ E
           /\ m.fwd = n.fwd /\ m.rev = n.rev /\ m.cli = n.cli /\ m.permit = n.permit
           /\ \A s \in Sources :
                /\ m.pend[s] = Less(n.pend[s], Share(n, E, s, FALSE))
                /\ m.act[s] = Less(n.act[s], Share(n, E, s, TRUE))
           /\ \A f \in Flows : m.tomb[f] = n.tomb[f] \/ m.tomb[f] = Tomb
           /\ \A c \in Clients : m.ctomb[c] = n.ctomb[c] \/ m.ctomb[c] = Tomb
           /\ \A g \in E : n.obj[g] \in Mapping =>
                m.tomb[n.obj[g].flow] = Tomb /\ m.ctomb[Client(n, g)] = Tomb
  <1> DEFINE m == Released(n, E)
             gen == n.gen \ E
             pend == [s \in Sources |-> Less(n.pend[s], Share(n, E, s, FALSE))]
             actv == [s \in Sources |-> Less(n.act[s], Share(n, E, s, TRUE))]
             tomb == [f \in Flows |-> IF \E g \in E : n.obj[g].flow = f THEN Tomb ELSE n.tomb[f]]
             ctomb == [c \in Clients |-> IF \E g \in E : Client(n, g) = c THEN Tomb ELSE n.ctomb[c]]
  <1>1. m = [n EXCEPT !.gen = gen, !.pend = pend, !.act = actv, !.tomb = tomb, !.ctomb = ctomb]
    BY DEF Released, Share
  <1> HIDE DEF m
  <1>2. \A s, a : Share(n, E, s, a) \in Nat
    BY FiniteGens DEF Share
  <1>3. pend \in [Sources -> Nat] /\ actv \in [Sources -> Nat]
    BY <1>2, Fields, LessFacts
  <1>4. gen \in SUBSET Gens /\ tomb \in [Flows -> 0..Tomb] /\ ctomb \in [Clients -> 0..Tomb]
    BY Fields, RelayTimes
  <1>5. /\ \A s \in Sources : /\ pend[s] = Less(n.pend[s], Share(n, E, s, FALSE))
                               /\ actv[s] = Less(n.act[s], Share(n, E, s, TRUE))
        /\ \A f \in Flows : tomb[f] = IF \E g \in E : n.obj[g].flow = f THEN Tomb ELSE n.tomb[f]
        /\ \A c \in Clients : ctomb[c] = IF \E g \in E : Client(n, g) = c THEN Tomb ELSE n.ctomb[c]
    OBVIOUS
  <1> HIDE DEF pend, actv, tomb, ctomb
  <1>6. /\ m \in NatTables /\ m.obj = n.obj /\ m.gen = gen
        /\ m.fwd = n.fwd /\ m.rev = n.rev /\ m.cli = n.cli /\ m.permit = n.permit
        /\ m.pend = pend /\ m.act = actv /\ m.tomb = tomb /\ m.ctomb = ctomb
    BY <1>1, <1>3, <1>4 DEF NatTables
  <1>7. \A g \in E : n.obj[g] \in Mapping =>
          m.tomb[n.obj[g].flow] = Tomb /\ m.ctomb[Client(n, g)] = Tomb
    BY <1>5, <1>6, MappingFields DEF Client
  <1>8. QED
    BY <1>5, <1>6, <1>7 DEF m

\* The mappings E are released, the entries of X taken out of the rewrites.
Pruned(t, u, X) ==
    \A k \in DOMAIN t : (t[k] \in X => u[k] = NoGen) /\ (t[k] \notin X => u[k] = t[k])
Thinned(n, m, E, X) ==
    /\ m \in NatTables /\ Kin(n, m) /\ m.gen = n.gen \ E /\ m.permit = n.permit
    /\ Pruned(n.fwd, m.fwd, X) /\ Pruned(n.rev, m.rev, X) /\ Pruned(n.cli, m.cli, E)
    /\ \A s \in Sources :
         /\ m.pend[s] = Less(n.pend[s], Share(n, E, s, FALSE))
         /\ m.act[s] = Less(n.act[s], Share(n, E, s, TRUE))
    /\ \A f \in Flows : m.tomb[f] = n.tomb[f] \/ m.tomb[f] = Tomb
    /\ \A c \in Clients : m.ctomb[c] = n.ctomb[c] \/ m.ctomb[c] = Tomb
    /\ \A g \in Gens : InTables(m, g) => m.obj[g] = n.obj[g]
    /\ \A g \in Gens : n.obj[g] \in Mapping /\ ~InTables(m, g) => m.obj[g].active = FALSE

LEMMA RemovedIs ==
    ASSUME NEW n \in NatTables, NEW E \in SUBSET Gens
    PROVE  Thinned(n, Removed(n, E), E, E)
  <1> DEFINE m == Removed(n, E)
             r == Released(n, E)
             q == [r EXCEPT !.fwd = Without(n.fwd, E), !.rev = Without(n.rev, E),
                            !.cli = Without(n.cli, E)]
  <1>1. /\ r \in NatTables /\ r.obj = n.obj /\ r.gen = n.gen \ E /\ r.permit = n.permit
        /\ r.fwd = n.fwd /\ r.rev = n.rev /\ r.cli = n.cli
    BY ReleasedIs
  <1>2. m = Forget(q)
    BY <1>1 DEF Removed
  <1> HIDE DEF r, m
  <1>3. /\ Without(n.fwd, E) \in [Flows -> Gens \cup {NoGen}]
        /\ Without(n.rev, E) \in [Clients -> Gens \cup {NoGen}]
        /\ Without(n.cli, E) \in [Clients -> Gens \cup {NoGen}]
    BY Fields, WithoutIs
  <1>4. /\ Pruned(n.fwd, Without(n.fwd, E), E) /\ Pruned(n.rev, Without(n.rev, E), E)
        /\ Pruned(n.cli, Without(n.cli, E), E)
    BY Fields, WithoutIs DEF Pruned
  <1>5. /\ q \in NatTables /\ q.obj = r.obj /\ q.gen = r.gen /\ q.permit = r.permit
        /\ q.pend = r.pend /\ q.act = r.act /\ q.tomb = r.tomb /\ q.ctomb = r.ctomb
        /\ q.fwd = Without(n.fwd, E) /\ q.rev = Without(n.rev, E) /\ q.cli = Without(n.cli, E)
    BY <1>1, <1>3 DEF NatTables
  <1> HIDE DEF q
  <1>6. /\ m \in NatTables /\ Kin(q, m)
        /\ m.fwd = q.fwd /\ m.rev = q.rev /\ m.cli = q.cli /\ m.gen = q.gen
        /\ m.tomb = q.tomb /\ m.ctomb = q.ctomb
        /\ m.pend = q.pend /\ m.act = q.act /\ m.permit = q.permit
        /\ \A g \in Gens : InTables(q, g) => m.obj[g] = q.obj[g]
        /\ \A g \in Gens : q.obj[g] \in Mapping /\ ~InTables(q, g) => m.obj[g].active = FALSE
    <2>1. q \in NatTables
      BY <1>5
    <2>2. QED
      BY <1>2, <2>1, ForgetIs
  <1>7. Kin(n, m) /\ \A g \in Gens : InTables(m, g) <=> InTables(q, g)
    BY <1>1, <1>5, <1>6 DEF Kin, InTables
  <1>8. /\ \A s \in Sources :
             /\ r.pend[s] = Less(n.pend[s], Share(n, E, s, FALSE))
             /\ r.act[s] = Less(n.act[s], Share(n, E, s, TRUE))
        /\ \A f \in Flows : r.tomb[f] = n.tomb[f] \/ r.tomb[f] = Tomb
        /\ \A c \in Clients : r.ctomb[c] = n.ctomb[c] \/ r.ctomb[c] = Tomb
    <2>1. \A s \in Sources : /\ r.pend[s] = Less(n.pend[s], Share(n, E, s, FALSE))
                             /\ r.act[s] = Less(n.act[s], Share(n, E, s, TRUE))
      BY ReleasedIs DEF r
    <2>2. \A f \in Flows : r.tomb[f] = n.tomb[f] \/ r.tomb[f] = Tomb
      BY ReleasedIs DEF r
    <2>3. \A c \in Clients : r.ctomb[c] = n.ctomb[c] \/ r.ctomb[c] = Tomb
      BY ReleasedIs DEF r
    <2>4. QED
      BY <2>1, <2>2, <2>3
  <1>9. /\ \A g \in Gens : InTables(m, g) => m.obj[g] = n.obj[g]
        /\ \A g \in Gens : n.obj[g] \in Mapping /\ ~InTables(m, g) => m.obj[g].active = FALSE
    BY <1>1, <1>5, <1>6, <1>7
  <1>10. /\ m.gen = n.gen \ E /\ m.permit = n.permit /\ m.pend = r.pend /\ m.act = r.act
         /\ m.tomb = r.tomb /\ m.ctomb = r.ctomb
         /\ Pruned(n.fwd, m.fwd, E) /\ Pruned(n.rev, m.rev, E) /\ Pruned(n.cli, m.cli, E)
    BY <1>1, <1>4, <1>5, <1>6
  <1>11. Thinned(n, m, E, E)
    BY <1>6, <1>7, <1>8, <1>9, <1>10 DEF Thinned
  <1>12. QED
    BY <1>11 DEF m

Expired(n) == {g \in Gens : n.obj[g] # NoMapping /\ n.obj[g].left = 0}

LEMMA CleanedIs ==
    ASSUME NEW n \in NatTables
    PROVE  Thinned(n, Cleaned(n), Expired(n) \cap n.gen, Expired(n))
  <1> DEFINE m == Cleaned(n)
             X == Expired(n)
             E == X \cap n.gen
             r == Removed(n, E)
             q == [r EXCEPT !.fwd = Without(r.fwd, X), !.rev = Without(r.rev, X)]
  <1>1. X \in SUBSET Gens /\ E \in SUBSET Gens /\ E \subseteq X
    BY DEF Expired
  <1>2. Thinned(n, r, E, E)
    BY <1>1, RemovedIs
  <1>3. m = Forget(q)
    BY DEF Cleaned, Expired
  <1> HIDE DEF r, X, E, m
  <1>4. r \in NatTables
    BY <1>2 DEF Thinned
  <1>5. /\ Without(r.fwd, X) \in [Flows -> Gens \cup {NoGen}]
        /\ Without(r.rev, X) \in [Clients -> Gens \cup {NoGen}]
    BY <1>1, <1>4, Fields, WithoutIs
  <1>6. Pruned(r.fwd, Without(r.fwd, X), X) /\ Pruned(r.rev, Without(r.rev, X), X)
    BY <1>1, <1>4, Fields, WithoutIs DEF Pruned
  <1>7. /\ q \in NatTables /\ q.obj = r.obj /\ q.gen = r.gen /\ q.permit = r.permit
        /\ q.pend = r.pend /\ q.act = r.act /\ q.tomb = r.tomb /\ q.ctomb = r.ctomb
        /\ q.fwd = Without(r.fwd, X) /\ q.rev = Without(r.rev, X) /\ q.cli = r.cli
    BY <1>4, <1>5 DEF NatTables
  <1> HIDE DEF q
  <1>8. /\ m \in NatTables /\ Kin(q, m)
        /\ m.fwd = q.fwd /\ m.rev = q.rev /\ m.cli = q.cli /\ m.gen = q.gen
        /\ m.tomb = q.tomb /\ m.ctomb = q.ctomb
        /\ m.pend = q.pend /\ m.act = q.act /\ m.permit = q.permit
        /\ \A g \in Gens : InTables(q, g) => m.obj[g] = q.obj[g]
        /\ \A g \in Gens : q.obj[g] \in Mapping /\ ~InTables(q, g) => m.obj[g].active = FALSE
    <2>1. q \in NatTables
      BY <1>7
    <2>2. QED
      BY <1>3, <2>1, ForgetIs
  <1>9. NoGen \notin Gens
    BY DEF NoGen, Gens
  <1>10. Pruned(n.fwd, m.fwd, X) /\ Pruned(n.rev, m.rev, X)
    BY <1>1, <1>2, <1>4, <1>6, <1>7, <1>8, <1>9, Fields DEF Pruned, Thinned
  <1>11. \A g \in Gens : (InTables(m, g) <=> InTables(q, g)) /\ (InTables(q, g) => InTables(r, g))
    <2>1. \A g \in Gens : InTables(m, g) <=> InTables(q, g)
      BY <1>8 DEF InTables
    <2>2. \A g \in Gens : InTables(q, g) => InTables(r, g)
      BY <1>4, <1>6, <1>7, <1>9, Fields DEF InTables, Pruned
    <2>3. QED
      BY <2>1, <2>2
  <1>12. Kin(n, r) /\ Kin(n, m)
    BY <1>2, <1>7, <1>8 DEF Kin, Thinned
  <1>13. /\ \A g \in Gens : InTables(m, g) => m.obj[g] = n.obj[g]
         /\ \A g \in Gens : n.obj[g] \in Mapping /\ ~InTables(m, g) => m.obj[g].active = FALSE
    BY <1>2, <1>7, <1>8, <1>11, <1>12 DEF Thinned, Kin
  <1>14. /\ m.gen = r.gen /\ m.permit = r.permit /\ m.pend = r.pend /\ m.act = r.act
         /\ m.tomb = r.tomb /\ m.ctomb = r.ctomb /\ m.cli = r.cli
    BY <1>7, <1>8
  <1>15. Thinned(n, m, E, X)
    <2>1. /\ m.gen = n.gen \ E /\ m.permit = n.permit /\ Pruned(n.cli, m.cli, E)
          /\ \A f \in Flows : m.tomb[f] = n.tomb[f] \/ m.tomb[f] = Tomb
          /\ \A c \in Clients : m.ctomb[c] = n.ctomb[c] \/ m.ctomb[c] = Tomb
      BY <1>2, <1>14 DEF Thinned
    <2>2. \A s \in Sources : /\ m.pend[s] = Less(n.pend[s], Share(n, E, s, FALSE))
                             /\ m.act[s] = Less(n.act[s], Share(n, E, s, TRUE))
      BY <1>2, <1>14 DEF Thinned
    <2>3. QED
      BY <1>8, <1>10, <1>12, <1>13, <2>1, <2>2 DEF Thinned
  <1>16. QED
    BY <1>15 DEF X, E, m

-----------------------------------------------------------------------------
(* What the operators keep of Sound *)

LEMMA Countdown ==
    ASSUME NEW A \in SUBSET Gens, NEW T \in SUBSET A
    PROVE  Cardinality(A \ T) = Less(Cardinality(A), Cardinality(T))
  <1>1. /\ IsFiniteSet(A) /\ Cardinality(A) \in Nat /\ Cardinality(T) \in Nat
        /\ Cardinality(T) <= Cardinality(A)
    BY FiniteGens, FS_Subset
  <1>2. A \cap T = T
    OBVIOUS
  <1>3. Cardinality(A \ T) = Cardinality(A) - Cardinality(A \cap T)
    BY <1>1, FS_Difference
  <1>4. QED
    BY <1>1, <1>2, <1>3, LessFacts

\* What a step of the policy's tables leaves to those who know a mapping.
Follows(n, m, upto) ==
    /\ m.gen \subseteq n.gen
    /\ \A g \in 1..upto : m.obj[g].flow = n.obj[g].flow
    /\ \A g \in m.gen : /\ n.obj[g].consumed => m.obj[g].consumed
                        /\ m.obj[g].active => n.obj[g].active
    /\ Vacant(n) => Vacant(m)

LEMMA GivenMappings ==
    ASSUME NEW n \in NatTables, NEW upto \in 0..MaxGen, Given(n, upto), NEW g \in 1..upto
    PROVE  /\ g \in Gens /\ g # NoGen /\ n.obj[g] \in Mapping /\ n.obj[g].flow \in Flows
           /\ Client(n, g) \in Clients /\ Source(n, g) \in Sources
           /\ n.obj[g].active \in BOOLEAN /\ n.obj[g].consumed \in BOOLEAN /\ n.obj[g].left \in Nat
  <1>1. g \in Gens /\ g # NoGen
    BY RelayConstants DEF Gens, NoGen
  <1>2. n.obj[g] \in Mapping
    BY DEF Given
  <1>3. QED
    BY <1>1, <1>2, MappingFields DEF Client, Source

LEMMA KinGiven ==
    ASSUME NEW n \in NatTables, NEW m \in NatTables, NEW upto \in 0..MaxGen, Given(n, upto), Kin(n, m)
    PROVE  /\ Given(m, upto)
           /\ \A g \in 1..upto : /\ m.obj[g].flow = n.obj[g].flow
                                 /\ Client(m, g) = Client(n, g) /\ Source(m, g) = Source(n, g)
  <1>1. \A g \in 1..upto : m.obj[g] \in Mapping /\ m.obj[g].flow = n.obj[g].flow
    BY GivenMappings DEF Kin
  <1>2. \A g \in Gens : m.obj[g] # NoMapping => n.obj[g] # NoMapping
    BY DEF Kin
  <1>3. QED
    BY <1>1, <1>2 DEF Given, Client, Source

\* Some mappings are released and no other changes.
LEMMA ReleaseCounts ==
    ASSUME NEW n \in NatTables, NEW m \in NatTables, NEW E \in SUBSET n.gen, Counted(n),
           m.gen = n.gen \ E,
           \A g \in m.gen : Source(m, g) = Source(n, g) /\ m.obj[g].active = n.obj[g].active,
           \A s \in Sources : /\ m.pend[s] = Less(n.pend[s], Share(n, E, s, FALSE))
                              /\ m.act[s] = Less(n.act[s], Share(n, E, s, TRUE))
    PROVE  Counted(m)
  <1>1. ASSUME NEW s, NEW a
        PROVE  Cardinality(Of(m, s, a)) = Less(Cardinality(Of(n, s, a)), Share(n, E, s, a))
    <2> DEFINE T == {g \in E : Source(n, g) = s /\ n.obj[g].active = a}
    <2>1. Of(n, s, a) \in SUBSET Gens /\ T \in SUBSET Of(n, s, a)
      BY Fields DEF Of
    <2>2. Of(m, s, a) = Of(n, s, a) \ T
      BY DEF Of
    <2>3. QED
      BY <2>1, <2>2, Countdown DEF Share
  <1>2. QED
    BY <1>1 DEF Counted

\* A table without mappings counts none.
LEMMA VacantCounts ==
    ASSUME NEW n \in NatTables, Counted(n), n.gen = {}
    PROVE  \A s \in Sources : n.pend[s] = 0 /\ n.act[s] = 0
  <1>1. \A s \in Sources : Of(n, s, FALSE) = {} /\ Of(n, s, TRUE) = {}
    BY DEF Of
  <1>2. QED
    BY <1>1, FS_EmptySet DEF Counted

LEMMA ThinnedSound ==
    ASSUME NEW n \in NatTables, NEW m \in NatTables, NEW upto \in 0..MaxGen,
           NEW X \in SUBSET Gens, NEW E \in SUBSET n.gen, E \subseteq X, X \cap n.gen \subseteq E,
           Sound(n, upto), Thinned(n, m, E, X)
    PROVE  Sound(m, upto) /\ Follows(n, m, upto)
  <1>1. Kin(n, m) /\ Given(n, upto)
    BY DEF Sound, Thinned
  <1>2. /\ Given(m, upto)
        /\ \A g \in 1..upto : /\ m.obj[g].flow = n.obj[g].flow
                              /\ Client(m, g) = Client(n, g) /\ Source(m, g) = Source(n, g)
    BY <1>1, KinGiven
  <1>3. /\ \A f \in Flows : IF n.fwd[f] \in X THEN m.fwd[f] = NoGen ELSE m.fwd[f] = n.fwd[f]
        /\ \A c \in Clients : IF n.rev[c] \in X THEN m.rev[c] = NoGen ELSE m.rev[c] = n.rev[c]
        /\ \A c \in Clients : IF n.cli[c] \in E THEN m.cli[c] = NoGen ELSE m.cli[c] = n.cli[c]
    BY Fields DEF Thinned, Pruned
  <1>4. m.gen = n.gen \ E /\ m.permit = n.permit
    BY DEF Thinned
  <1>5. \A g \in m.gen : g \in 1..upto /\ g \in Gens /\ m.obj[g] = n.obj[g] /\ g \notin X
    <2>1. \A g \in m.gen : g \in 1..upto /\ g \in Gens /\ g \notin X
      BY <1>1, <1>4, GivenMappings DEF Sound, Found
    <2>2. \A g \in m.gen : m.obj[g] = n.obj[g]
      BY <2>1 DEF Thinned, InTables
    <2>3. QED
      BY <2>1, <2>2
  <1>6. Found(m, upto)
    <2>1. ASSUME NEW g \in m.gen
          PROVE  /\ m.fwd[m.obj[g].flow] = g /\ m.rev[Client(m, g)] = g /\ m.cli[Client(m, g)] = g
      <3>1. g \in n.gen /\ g \notin E /\ g \in 1..upto
        BY <1>4, <1>5
      <3>2. n.fwd[n.obj[g].flow] = g /\ n.rev[Client(n, g)] = g /\ n.cli[Client(n, g)] = g
        BY <3>1 DEF Sound, Found
      <3>3. n.obj[g].flow \in Flows /\ Client(n, g) \in Clients
        BY <1>1, <3>1, GivenMappings
      <3>4. QED
        BY <1>2, <1>3, <1>5, <3>1, <3>2, <3>3
    <2>2. ASSUME NEW g \in 1..upto, m.obj[g].active
          PROVE  g \in m.gen
      <3>1. g \in Gens /\ n.obj[g] \in Mapping /\ g # NoGen /\ n.obj[g].flow \in Flows
            /\ Client(n, g) \in Clients
        BY <1>1, GivenMappings
      <3>2. InTables(m, g) /\ m.obj[g] = n.obj[g]
        BY <2>2, <3>1 DEF Thinned
      <3>3. g \in n.gen
        BY <2>2, <3>2 DEF Sound, Found
      <3>4. g \notin X
        <4>1. CASE g \in m.gen
          BY <1>5, <4>1
        <4>2. CASE \E f \in Flows : m.fwd[f] = g
          BY <1>3, <3>1, <4>2
        <4>3. CASE \E c \in Clients : m.rev[c] = g
          BY <1>3, <3>1, <4>3
        <4>4. QED
          BY <3>2, <4>1, <4>2, <4>3 DEF InTables
      <3>5. QED
        BY <1>4, <3>3, <3>4
    <2>3. QED
      BY <1>5, <2>1, <2>2 DEF Found
  <1>7. Keyed(m, upto)
    <2>1. \A f \in Flows : m.fwd[f] # NoGen => m.fwd[f] \in 1..upto /\ m.obj[m.fwd[f]].flow = f
      BY <1>2, <1>3 DEF Sound, Keyed
    <2>2. \A c \in Clients : m.rev[c] # NoGen => m.rev[c] \in 1..upto /\ Client(m, m.rev[c]) = c
      BY <1>2, <1>3 DEF Sound, Keyed
    <2>3. ASSUME NEW c \in Clients, m.cli[c] # NoGen
          PROVE  m.cli[c] \in m.gen /\ Client(m, m.cli[c]) = c
      <3>1. m.cli[c] = n.cli[c] /\ n.cli[c] \notin E
        BY <1>3, <2>3
      <3>2. n.cli[c] \in n.gen /\ Client(n, n.cli[c]) = c
        BY <2>3, <3>1 DEF Sound, Keyed
      <3>3. QED
        BY <1>2, <1>4, <1>5, <3>1, <3>2
    <2>4. QED
      BY <2>1, <2>2, <2>3 DEF Keyed
  <1>8. LeftOver(m)
    <2>1. ASSUME NEW g \in 1..upto, g \notin n.gen, Buried(n, g), m.obj[g] = n.obj[g]
          PROVE  Buried(m, g)
      <3>1. /\ n.obj[g].flow \in Flows /\ Client(n, g) \in Clients /\ n.obj[g].left \in Nat
            /\ Client(m, g) = Client(n, g)
        BY <1>1, <1>2, GivenMappings
      <3>2. n.tomb[n.obj[g].flow] \in 0..Tomb /\ n.ctomb[Client(n, g)] \in 0..Tomb
        BY <3>1, Fields
      <3>3. /\ m.tomb[n.obj[g].flow] \in {n.tomb[n.obj[g].flow], Tomb}
            /\ m.ctomb[Client(n, g)] \in {n.ctomb[Client(n, g)], Tomb}
        BY <3>1 DEF Thinned
      <3>4. QED
        BY <2>1, <3>1, <3>2, <3>3, RelayTimes DEF Buried
    <2>2. ASSUME NEW f \in Flows, m.fwd[f] # NoGen
          PROVE  m.fwd[f] \in m.gen \/ Buried(m, m.fwd[f])
      <3>1. m.fwd[f] = n.fwd[f] /\ n.fwd[f] \notin X
        BY <1>3, <2>2
      <3>2. n.fwd[f] \in 1..upto /\ n.fwd[f] \in Gens /\ (n.fwd[f] \in n.gen \/ Buried(n, n.fwd[f]))
        BY <1>1, <2>2, <3>1, GivenMappings DEF Sound, Keyed, LeftOver
      <3>3. m.obj[n.fwd[f]] = n.obj[n.fwd[f]]
        BY <3>1, <3>2 DEF Thinned, InTables
      <3>4. QED
        BY <1>4, <2>1, <3>1, <3>2, <3>3
    <2>3. ASSUME NEW c \in Clients, m.rev[c] # NoGen
          PROVE  m.rev[c] \in m.gen \/ Buried(m, m.rev[c])
      <3>1. m.rev[c] = n.rev[c] /\ n.rev[c] \notin X
        BY <1>3, <2>3
      <3>2. n.rev[c] \in 1..upto /\ n.rev[c] \in Gens /\ (n.rev[c] \in n.gen \/ Buried(n, n.rev[c]))
        BY <1>1, <2>3, <3>1, GivenMappings DEF Sound, Keyed, LeftOver
      <3>3. m.obj[n.rev[c]] = n.obj[n.rev[c]]
        BY <3>1, <3>2 DEF Thinned, InTables
      <3>4. QED
        BY <1>4, <2>1, <3>1, <3>2, <3>3
    <2>4. QED
      BY <2>2, <2>3 DEF LeftOver
  <1>9. Counted(m)
    <2>1. \A g \in m.gen : Source(m, g) = Source(n, g) /\ m.obj[g].active = n.obj[g].active
      BY <1>2, <1>5
    <2>2. \A s \in Sources : /\ m.pend[s] = Less(n.pend[s], Share(n, E, s, FALSE))
                             /\ m.act[s] = Less(n.act[s], Share(n, E, s, TRUE))
      BY DEF Thinned
    <2>3. Counted(n)
      BY DEF Sound
    <2>4. QED
      BY <1>4, <2>1, <2>2, <2>3, ReleaseCounts
  <1>10. ASSUME Vacant(n) PROVE Vacant(m)
    <2>1. m.gen = {} /\ \A s \in Sources : m.pend[s] = 0 /\ m.act[s] = 0
      BY <1>4, <1>9, <1>10, VacantCounts DEF Vacant
    <2>2. QED
      BY <1>3, <1>4, <1>10, <2>1 DEF Vacant
  <1>11. Sound(m, upto)
    BY <1>2, <1>6, <1>7, <1>8, <1>9 DEF Sound
  <1>12. QED
    BY <1>2, <1>4, <1>5, <1>10, <1>11 DEF Follows

\* After a cleanup nothing in the tables has run out of time.
InTime(n) ==
    /\ \A f \in Flows : n.fwd[f] # NoGen => n.obj[n.fwd[f]].left > 0
    /\ \A c \in Clients : n.rev[c] # NoGen => n.obj[n.rev[c]].left > 0

LEMMA CleanSound ==
    ASSUME NEW n \in NatTables, NEW upto \in 0..MaxGen, Sound(n, upto)
    PROVE  /\ Cleaned(n) \in NatTables /\ Sound(Cleaned(n), upto) /\ Follows(n, Cleaned(n), upto)
           /\ Cleaned(n).permit = n.permit /\ InTime(Cleaned(n))
  <1> DEFINE m == Cleaned(n)
             X == Expired(n)
             E == X \cap n.gen
  <1>1. Thinned(n, m, E, X)
    BY CleanedIs
  <1>2. m \in NatTables /\ m.permit = n.permit
    BY <1>1 DEF Thinned
  <1>3. X \in SUBSET Gens /\ E \in SUBSET n.gen /\ E \subseteq X /\ X \cap n.gen \subseteq E
    BY DEF Expired
  <1> HIDE DEF m, E, X
  <1>4. Sound(m, upto) /\ Follows(n, m, upto)
    BY <1>1, <1>2, <1>3, ThinnedSound
  <1>5. ASSUME NEW g \in 1..upto, g \notin X, m.obj[g] = n.obj[g]
        PROVE  m.obj[g].left > 0
    <2>1. n.obj[g] \in Mapping /\ g \in Gens /\ n.obj[g].left \in Nat
      BY GivenMappings DEF Sound
    <2>2. QED
      BY <1>5, <2>1, NotMapping DEF X, Expired
  <1>6. /\ \A f \in Flows : m.fwd[f] # NoGen => m.fwd[f] \notin X
        /\ \A c \in Clients : m.rev[c] # NoGen => m.rev[c] \notin X
    BY <1>1, Fields DEF Thinned, Pruned
  <1>7. /\ \A f \in Flows : m.fwd[f] # NoGen => m.fwd[f] \in 1..upto /\ m.fwd[f] \in Gens
        /\ \A c \in Clients : m.rev[c] # NoGen => m.rev[c] \in 1..upto /\ m.rev[c] \in Gens
    BY <1>2, <1>4, GivenMappings DEF Sound, Keyed
  <1>8. /\ \A f \in Flows : m.fwd[f] # NoGen => m.obj[m.fwd[f]] = n.obj[m.fwd[f]]
        /\ \A c \in Clients : m.rev[c] # NoGen => m.obj[m.rev[c]] = n.obj[m.rev[c]]
    BY <1>1, <1>7 DEF Thinned, InTables
  <1>9. InTime(m)
    BY <1>5, <1>6, <1>7, <1>8 DEF InTime
  <1>10. QED
    BY <1>2, <1>4, <1>9 DEF m

LEMMA RemoveSound ==
    ASSUME NEW n \in NatTables, NEW upto \in 0..MaxGen, Sound(n, upto), NEW E \in SUBSET n.gen
    PROVE  /\ Removed(n, E) \in NatTables /\ Removed(n, E).permit = n.permit
           /\ Sound(Removed(n, E), upto) /\ Follows(n, Removed(n, E), upto)
  <1>1. E \in SUBSET Gens
    BY Fields
  <1>2. Thinned(n, Removed(n, E), E, E)
    BY <1>1, RemovedIs
  <1>3. Removed(n, E) \in NatTables /\ Removed(n, E).permit = n.permit
    BY <1>2 DEF Thinned
  <1>4. QED
    BY <1>1, <1>2, <1>3, ThinnedSound

\* The state of one live mapping changes, its addresses do not.
LEMMA TouchSound ==
    ASSUME NEW n \in NatTables, NEW m \in NatTables, NEW upto \in 0..MaxGen, Sound(n, upto),
           NEW g \in n.gen, NEW x \in Mapping, x.flow = n.obj[g].flow,
           m.obj = [n.obj EXCEPT ![g] = x],
           m.fwd = n.fwd, m.rev = n.rev, m.cli = n.cli, m.gen = n.gen,
           m.tomb = n.tomb, m.ctomb = n.ctomb, Counted(m)
    PROVE  Sound(m, upto)
  <1>1. g \in 1..upto /\ g \in Gens /\ Given(n, upto)
    BY GivenMappings DEF Sound, Found
  <1>2. m.obj[g] = x /\ \A h \in Gens : h # g => m.obj[h] = n.obj[h]
    BY <1>1, Fields
  <1>3. /\ \A h \in 1..upto : /\ h \in Gens /\ m.obj[h] \in Mapping /\ m.obj[h].flow = n.obj[h].flow
                              /\ Client(m, h) = Client(n, h)
        /\ \A h \in Gens : m.obj[h] # NoMapping => h \in 1..upto
    <2>1. \A h \in 1..upto : h \in Gens /\ m.obj[h] \in Mapping /\ m.obj[h].flow = n.obj[h].flow
      BY <1>1, <1>2, GivenMappings
    <2>2. QED
      BY <1>1, <1>2, <2>1 DEF Given, Client
  <1>4. Given(m, upto)
    BY <1>3 DEF Given
  <1>5. Found(m, upto)
    BY <1>2, <1>3 DEF Sound, Found
  <1>6. Keyed(m, upto)
    <2>1. \A f \in Flows : m.fwd[f] # NoGen => m.fwd[f] \in 1..upto /\ m.obj[m.fwd[f]].flow = f
      BY <1>3 DEF Sound, Keyed
    <2>2. \A c \in Clients : m.rev[c] # NoGen => m.rev[c] \in 1..upto /\ Client(m, m.rev[c]) = c
      BY <1>3 DEF Sound, Keyed
    <2>3. \A c \in Clients : m.cli[c] # NoGen => m.cli[c] \in m.gen /\ Client(m, m.cli[c]) = c
      BY <1>3 DEF Sound, Keyed, Found
    <2>4. QED
      BY <2>1, <2>2, <2>3 DEF Keyed
  <1>7. \A h \in 1..upto : Buried(n, h) /\ h \notin n.gen => Buried(m, h)
    BY <1>2, <1>3 DEF Buried
  <1>8. LeftOver(m)
    BY <1>7 DEF LeftOver, Sound, Keyed
  <1>9. QED
    BY <1>4, <1>5, <1>6, <1>8 DEF Sound

\* Nothing that is counted changes.
LEMMA SameCounts ==
    ASSUME NEW n \in NatTables, NEW m \in NatTables, Counted(n), m.gen = n.gen,
           m.pend = n.pend, m.act = n.act,
           \A g \in n.gen : Source(m, g) = Source(n, g) /\ m.obj[g].active = n.obj[g].active
    PROVE  Counted(m)
  <1>1. \A s, a : Of(m, s, a) = Of(n, s, a)
    BY DEF Of
  <1>2. QED
    BY <1>1 DEF Counted

LEMMA LifeTimes ==
    /\ {PendingLife, ActiveLife, Grace} \subseteq 0..(PendingLife + ActiveLife + Grace)
    /\ {PendingLife, ActiveLife, Grace, Tomb} \subseteq Nat /\ PendingLife > 0 /\ ActiveLife > 0
    /\ Grace < Tomb /\ ActiveLife \in 0..ActiveLife /\ Tomb \in 0..Tomb
  BY RelayTimes

\* match_flow: a packet prolongs the life of an active mapping.
LEMMA RefreshSound ==
    ASSUME NEW n \in NatTables, NEW upto \in 0..MaxGen, Sound(n, upto), NEW g \in 1..upto
    PROVE  /\ Refreshed(n, g) \in NatTables /\ Sound(Refreshed(n, g), upto)
           /\ Follows(n, Refreshed(n, g), upto) /\ Refreshed(n, g).permit = n.permit
  <1>1. CASE ~n.obj[g].active
    <2>1. Refreshed(n, g) = n
      BY <1>1 DEF Refreshed
    <2>2. QED
      BY <2>1 DEF Follows
  <1>2. CASE n.obj[g].active
    <2> DEFINE x == [n.obj[g] EXCEPT !.left = ActiveLife]
               m == Refreshed(n, g)
    <2>1. g \in n.gen /\ g \in Gens /\ n.obj[g] \in Mapping
      BY <1>2, GivenMappings DEF Sound, Found
    <2>2. /\ x \in Mapping /\ x.flow = n.obj[g].flow /\ x.consumed = n.obj[g].consumed
          /\ x.active = n.obj[g].active
      BY <2>1, LifeTimes DEF Mapping
    <2>3. m = [n EXCEPT !.obj = [n.obj EXCEPT ![g] = x]]
      BY <1>2 DEF Refreshed
    <2> HIDE DEF x, m
    <2>4. [n.obj EXCEPT ![g] = x] \in [Gens -> Mapping \cup {NoMapping}]
      BY <2>1, <2>2, Fields
    <2>5. /\ m \in NatTables /\ m.obj = [n.obj EXCEPT ![g] = x]
          /\ m.fwd = n.fwd /\ m.rev = n.rev /\ m.cli = n.cli /\ m.gen = n.gen
          /\ m.tomb = n.tomb /\ m.ctomb = n.ctomb
          /\ m.pend = n.pend /\ m.act = n.act /\ m.permit = n.permit
      BY <2>3, <2>4 DEF NatTables
    <2>6. \A h \in Gens : /\ m.obj[h].flow = n.obj[h].flow /\ m.obj[h].consumed = n.obj[h].consumed
                          /\ m.obj[h].active = n.obj[h].active
      BY <2>1, <2>2, <2>5, Fields
    <2>7. Counted(m)
      <3>1. \A h \in n.gen : Source(m, h) = Source(n, h) /\ m.obj[h].active = n.obj[h].active
        BY <2>6, Fields DEF Source, Client
      <3>2. Counted(n)
        BY DEF Sound
      <3>3. QED
        BY <2>5, <3>1, <3>2, SameCounts
    <2>8. Sound(m, upto)
      BY <2>1, <2>2, <2>5, <2>7, TouchSound
    <2>9. Follows(n, m, upto)
      <3>1. \A h \in 1..upto : h \in Gens
        BY GivenMappings DEF Sound
      <3>2. QED
        BY <2>1, <2>5, <2>6, <3>1, Fields DEF Follows, Vacant
    <2>10. QED
      BY <2>5, <2>8, <2>9 DEF m
  <1>3. QED
    BY <1>1, <1>2

\* consume_relay_target
LEMMA ConsumeSound ==
    ASSUME NEW n \in NatTables, NEW upto \in 0..MaxGen, Sound(n, upto), NEW g \in n.gen,
           NEW m, m = [n EXCEPT !.obj[g].consumed = TRUE, !.obj[g].left = PendingLife]
    PROVE  /\ m \in NatTables /\ Sound(m, upto) /\ Follows(n, m, upto) /\ m.permit = n.permit
           /\ m.obj[g].consumed
  <1> DEFINE x == [n.obj[g] EXCEPT !.consumed = TRUE, !.left = PendingLife]
  <1>1. g \in 1..upto /\ g \in Gens /\ n.obj[g] \in Mapping
    BY GivenMappings DEF Sound, Found
  <1>2. x \in Mapping /\ x.flow = n.obj[g].flow /\ x.consumed /\ x.active = n.obj[g].active
    <2>1. TRUE \in BOOLEAN
      BY Zenon
    <2>2. QED
      BY <1>1, <2>1, LifeTimes DEF Mapping
  <1>3. m = [n EXCEPT !.obj = [n.obj EXCEPT ![g] = x]]
    BY <1>1, Fields DEF NatTables
  <1> HIDE DEF x
  <1>4. [n.obj EXCEPT ![g] = x] \in [Gens -> Mapping \cup {NoMapping}]
    BY <1>1, <1>2, Fields
  <1>5. /\ m \in NatTables /\ m.obj = [n.obj EXCEPT ![g] = x]
        /\ m.fwd = n.fwd /\ m.rev = n.rev /\ m.cli = n.cli /\ m.gen = n.gen
        /\ m.tomb = n.tomb /\ m.ctomb = n.ctomb
        /\ m.pend = n.pend /\ m.act = n.act /\ m.permit = n.permit
    BY <1>3, <1>4 DEF NatTables
  <1>6. \A h \in Gens : /\ m.obj[h].flow = n.obj[h].flow /\ m.obj[h].active = n.obj[h].active
                        /\ n.obj[h].consumed => m.obj[h].consumed
    BY <1>1, <1>2, <1>5, Fields
  <1>7. Counted(m)
    <2>1. \A h \in n.gen : Source(m, h) = Source(n, h) /\ m.obj[h].active = n.obj[h].active
      BY <1>6, Fields DEF Source, Client
    <2>2. Counted(n)
      BY DEF Sound
    <2>3. QED
      BY <1>5, <2>1, <2>2, SameCounts
  <1>8. Sound(m, upto)
    BY <1>1, <1>2, <1>5, <1>7, TouchSound
  <1>9. Follows(n, m, upto)
    <2>1. \A h \in 1..upto : h \in Gens
      BY GivenMappings DEF Sound
    <2>2. QED
      BY <1>1, <1>5, <1>6, <2>1, Fields DEF Follows, Vacant
  <1>10. m.obj[g].consumed
    BY <1>1, <1>2, <1>5, Fields
  <1>11. QED
    BY <1>5, <1>8, <1>9, <1>10

\* activate_relay_mapping
Activated(n, g) ==
    LET s == Source(n, g)
    IN  [n EXCEPT !.pend[s] = Less(@, 1), !.act[s] = @ + 1,
                  !.obj[g].active = TRUE, !.obj[g].left = ActiveLife]

LEMMA ActivateSound ==
    ASSUME NEW n \in NatTables, NEW upto \in 0..MaxGen, Sound(n, upto), NEW g \in n.gen,
           ~n.obj[g].active
    PROVE  LET m == Activated(n, g) IN
           /\ m \in NatTables /\ Sound(m, upto) /\ m.permit = n.permit /\ m.gen = n.gen
           /\ \A h \in Gens : /\ m.obj[h].flow = n.obj[h].flow /\ m.obj[h].consumed = n.obj[h].consumed
                              /\ h # g => m.obj[h] = n.obj[h]
  <1> DEFINE s == Source(n, g)
             m == Activated(n, g)
  <1>0. m = [n EXCEPT !.pend[s] = Less(@, 1), !.act[s] = @ + 1,
                      !.obj[g].active = TRUE, !.obj[g].left = ActiveLife]
    BY DEF Activated
  <1>s. s = Source(n, g)
    OBVIOUS
  <1> HIDE DEF m, s
  <1> DEFINE x == [n.obj[g] EXCEPT !.active = TRUE, !.left = ActiveLife]
             p == [n.pend EXCEPT ![s] = Less(n.pend[s], 1)]
             a == [n.act EXCEPT ![s] = n.act[s] + 1]
  <1>1. /\ g \in 1..upto /\ g \in Gens /\ n.obj[g] \in Mapping /\ s \in Sources
        /\ n.obj[g].active = FALSE
    <2>1. g \in 1..upto /\ g \in Gens /\ n.obj[g] \in Mapping /\ s \in Sources
      BY <1>s, GivenMappings DEF Sound, Found
    <2>2. n.obj[g].active \in BOOLEAN
      BY <2>1, MappingFields
    <2>3. QED
      BY <2>1, <2>2
  <1>2. x \in Mapping /\ x.flow = n.obj[g].flow /\ x.consumed = n.obj[g].consumed /\ x.active = TRUE
    <2>1. TRUE \in BOOLEAN
      BY Zenon
    <2>2. QED
      BY <1>1, <2>1, LifeTimes DEF Mapping
  <1>3. m = [n EXCEPT !.pend = p, !.act = a, !.obj = [n.obj EXCEPT ![g] = x]]
    BY <1>0, <1>1, Fields DEF NatTables
  <1>4. [n.obj EXCEPT ![g] = x] \in [Gens -> Mapping \cup {NoMapping}]
    BY <1>1, <1>2, Fields
  <1>5. p \in [Sources -> Nat] /\ a \in [Sources -> Nat]
    <2>1. n.pend[s] \in Nat /\ n.act[s] \in Nat
      BY <1>1, Fields
    <2>2. Less(n.pend[s], 1) \in Nat /\ n.act[s] + 1 \in Nat
      BY <2>1, LessOne
    <2>3. QED
      BY <1>1, <2>2, Fields
  <1>6. /\ p[s] = Less(n.pend[s], 1) /\ a[s] = n.act[s] + 1
        /\ \A t \in Sources : t # s => p[t] = n.pend[t] /\ a[t] = n.act[t]
    BY <1>1, Fields
  <1> HIDE DEF x, p, a
  <1>7. /\ m \in NatTables /\ m.obj = [n.obj EXCEPT ![g] = x]
        /\ m.fwd = n.fwd /\ m.rev = n.rev /\ m.cli = n.cli /\ m.gen = n.gen
        /\ m.tomb = n.tomb /\ m.ctomb = n.ctomb
        /\ m.pend = p /\ m.act = a /\ m.permit = n.permit
    BY <1>3, <1>4, <1>5 DEF NatTables
  <1>8. \A h \in Gens : /\ m.obj[h].flow = n.obj[h].flow /\ m.obj[h].consumed = n.obj[h].consumed
                        /\ h # g => m.obj[h] = n.obj[h]
    BY <1>1, <1>2, <1>7, Fields
  <1>9. Counted(m)
    <2>1. \A h \in n.gen : /\ Source(m, h) = Source(n, h)
                           /\ h # g => m.obj[h].active = n.obj[h].active
      BY <1>8, Fields DEF Source, Client
    <2>2. m.obj[g].active = TRUE /\ TRUE # FALSE
      BY <1>1, <1>2, <1>7, Fields
    <2>3. ASSUME NEW t \in Sources, t # s
          PROVE  Of(m, t, FALSE) = Of(n, t, FALSE) /\ Of(m, t, TRUE) = Of(n, t, TRUE)
      BY <1>s, <1>7, <2>1, <2>3 DEF Of
    <2>4. Of(m, s, FALSE) = Of(n, s, FALSE) \ {g} /\ g \in Of(n, s, FALSE)
      BY <1>s, <1>1, <1>7, <2>1, <2>2 DEF Of
    <2>5. Of(m, s, TRUE) = Of(n, s, TRUE) \cup {g} /\ g \notin Of(n, s, TRUE)
      BY <1>s, <1>1, <1>7, <2>1, <2>2 DEF Of
    <2>6. /\ IsFiniteSet(Of(n, s, FALSE)) /\ IsFiniteSet(Of(n, s, TRUE))
          /\ Of(n, s, FALSE) \in SUBSET Gens /\ Cardinality(Of(n, s, TRUE)) \in Nat
      BY FiniteGens, Fields DEF Of
    <2>7. Cardinality(Of(m, s, FALSE)) = Less(Cardinality(Of(n, s, FALSE)), 1)
      <3>1. Cardinality({g}) = 1 /\ {g} \in SUBSET Of(n, s, FALSE)
        BY <2>4, FS_Singleton
      <3>2. QED
        BY <2>4, <2>6, <3>1, Countdown
    <2>8. Cardinality(Of(m, s, TRUE)) = Cardinality(Of(n, s, TRUE)) + 1
      BY <2>5, <2>6, FS_AddElement
    <2>9. \A t \in Sources : /\ n.pend[t] = Cardinality(Of(n, t, FALSE))
                             /\ n.act[t] = Cardinality(Of(n, t, TRUE))
      BY DEF Sound, Counted
    <2>10. ASSUME NEW t \in Sources
           PROVE  p[t] = Cardinality(Of(m, t, FALSE)) /\ a[t] = Cardinality(Of(m, t, TRUE))
      <3>1. CASE t = s
        BY <1>1, <1>6, <2>7, <2>8, <2>9, <3>1
      <3>2. CASE t # s
        BY <1>6, <2>3, <2>9, <3>2
      <3>3. QED
        BY <3>1, <3>2
    <2>11. QED
      BY <1>7, <2>10 DEF Counted
  <1>10. Sound(m, upto)
    BY <1>1, <1>2, <1>7, <1>9, TouchSound
  <1>11. QED
    BY <1>7, <1>8, <1>10 DEF m

\* close_relay_mapping
LEMMA CloseSound ==
    ASSUME NEW n \in NatTables, NEW upto \in 0..MaxGen, Sound(n, upto), NEW g \in 1..upto
    PROVE  /\ Closed(n, g) \in NatTables /\ Sound(Closed(n, g), upto)
           /\ Follows(n, Closed(n, g), upto) /\ Closed(n, g).permit = n.permit
  <1>1. CASE g \notin n.gen
    <2>1. Closed(n, g) = n
      BY <1>1 DEF Closed
    <2>2. QED
      BY <2>1 DEF Follows
  <1>2. CASE g \in n.gen
    <2> DEFINE m == Closed(n, g)
               r == Released(n, {g})
               x == [n.obj[g] EXCEPT !.active = FALSE, !.left = Grace]
               c == Client(n, g)
               cl == [n.cli EXCEPT ![c] = NoGen]
    <2>1. /\ g \in Gens /\ n.obj[g] \in Mapping /\ n.obj[g].flow \in Flows /\ c \in Clients
          /\ Given(n, upto) /\ {g} \in SUBSET Gens /\ {g} \in SUBSET n.gen
      BY <1>2, GivenMappings DEF Sound
    <2>2. /\ r \in NatTables /\ r.obj = n.obj /\ r.gen = n.gen \ {g}
          /\ r.fwd = n.fwd /\ r.rev = n.rev /\ r.cli = n.cli /\ r.permit = n.permit
      BY <2>1, ReleasedIs
    <2>3. \A t \in Sources : /\ r.pend[t] = Less(n.pend[t], Share(n, {g}, t, FALSE))
                             /\ r.act[t] = Less(n.act[t], Share(n, {g}, t, TRUE))
      BY <2>1, ReleasedIs
    <2>4. /\ r.tomb[n.obj[g].flow] = Tomb /\ r.ctomb[c] = Tomb
          /\ \A f \in Flows : r.tomb[f] = n.tomb[f] \/ r.tomb[f] = Tomb
          /\ \A d \in Clients : r.ctomb[d] = n.ctomb[d] \/ r.ctomb[d] = Tomb
      <3>1. /\ \A f \in Flows : r.tomb[f] = n.tomb[f] \/ r.tomb[f] = Tomb
            /\ \A d \in Clients : r.ctomb[d] = n.ctomb[d] \/ r.ctomb[d] = Tomb
        BY <2>1, ReleasedIs
      <3>2. r.tomb[n.obj[g].flow] = Tomb /\ r.ctomb[c] = Tomb
        BY <2>1, ReleasedIs
      <3>3. QED
        BY <3>1, <3>2
    <2>5. m = [r EXCEPT !.cli = cl, !.obj = [n.obj EXCEPT ![g] = x]]
      BY <1>2, <2>1, <2>2 DEF Closed, Retained, NatTables
    <2> HIDE DEF r, m
    <2>6. /\ x \in Mapping /\ x.flow = n.obj[g].flow /\ x.consumed = n.obj[g].consumed
          /\ x.active = FALSE /\ x.left = Grace
      <3>1. FALSE \in BOOLEAN
        BY Zenon
      <3>2. QED
        BY <2>1, <3>1, LifeTimes DEF Mapping
    <2> HIDE DEF x
    <2>7. /\ [n.obj EXCEPT ![g] = x] \in [Gens -> Mapping \cup {NoMapping}]
          /\ cl \in [Clients -> Gens \cup {NoGen}]
      BY <2>1, <2>6, Fields
    <2>8. cl[c] = NoGen /\ \A d \in Clients : d # c => cl[d] = n.cli[d]
      BY <2>1, Fields
    <2> HIDE DEF cl, c
    <2>9. /\ m \in NatTables /\ m.obj = [n.obj EXCEPT ![g] = x] /\ m.cli = cl
          /\ m.fwd = n.fwd /\ m.rev = n.rev /\ m.gen = n.gen \ {g}
          /\ m.tomb = r.tomb /\ m.ctomb = r.ctomb
          /\ m.pend = r.pend /\ m.act = r.act /\ m.permit = n.permit
      BY <2>2, <2>5, <2>7 DEF NatTables
    <2>10. m.obj[g] = x /\ \A h \in Gens : h # g => m.obj[h] = n.obj[h]
      BY <2>1, <2>9, Fields
    <2>11. Kin(n, m)
      BY <2>1, <2>6, <2>10, NotMapping DEF Kin
    <2>12. /\ Given(m, upto)
           /\ \A h \in 1..upto : /\ m.obj[h].flow = n.obj[h].flow
                                 /\ Client(m, h) = Client(n, h) /\ Source(m, h) = Source(n, h)
      BY <2>1, <2>9, <2>11, KinGiven
    <2>13. \A h \in 1..upto : h \in Gens
      BY <2>1, GivenMappings
    <2>14. Found(m, upto)
      <3>1. ASSUME NEW h \in m.gen
            PROVE  /\ h \in 1..upto /\ m.fwd[m.obj[h].flow] = h
                   /\ m.rev[Client(m, h)] = h /\ m.cli[Client(m, h)] = h
        <4>1. /\ h \in n.gen /\ h # g /\ h \in 1..upto /\ n.fwd[n.obj[h].flow] = h
              /\ n.rev[Client(n, h)] = h /\ n.cli[Client(n, h)] = h /\ n.cli[c] = g
          BY <1>2, <2>9 DEF Sound, Found, c
        <4>2. Client(n, h) \in Clients /\ Client(n, h) # c
          BY <2>1, <4>1, GivenMappings
        <4>3. QED
          BY <2>8, <2>9, <2>12, <4>1, <4>2
      <3>2. \A h \in 1..upto : m.obj[h].active => h \in m.gen
        BY <2>6, <2>9, <2>10, <2>13 DEF Sound, Found
      <3>3. QED
        BY <3>1, <3>2 DEF Found
    <2>15. Keyed(m, upto)
      <3>1. \A f \in Flows : m.fwd[f] # NoGen => m.fwd[f] \in 1..upto /\ m.obj[m.fwd[f]].flow = f
        BY <2>9, <2>12 DEF Sound, Keyed
      <3>2. \A d \in Clients : m.rev[d] # NoGen => m.rev[d] \in 1..upto /\ Client(m, m.rev[d]) = d
        BY <2>9, <2>12 DEF Sound, Keyed
      <3>3. ASSUME NEW d \in Clients, m.cli[d] # NoGen
            PROVE  m.cli[d] \in m.gen /\ Client(m, m.cli[d]) = d
        <4>1. d # c /\ m.cli[d] = n.cli[d]
          BY <2>8, <2>9, <3>3
        <4>2. n.cli[d] \in n.gen /\ Client(n, n.cli[d]) = d /\ n.cli[d] \in 1..upto
          BY <3>3, <4>1 DEF Sound, Keyed, Found
        <4>3. n.cli[d] # g
          BY <4>1, <4>2 DEF c
        <4>4. QED
          BY <2>9, <2>12, <4>1, <4>2, <4>3
      <3>4. QED
        BY <3>1, <3>2, <3>3 DEF Keyed
    <2>16. LeftOver(m)
      <3>1. Buried(m, g)
        <4>1. m.obj[g].left = Grace /\ m.tomb[m.obj[g].flow] = Tomb /\ m.ctomb[Client(m, g)] = Tomb
          BY <2>4, <2>6, <2>9, <2>10, <2>12 DEF c
        <4>2. QED
          BY <4>1, LifeTimes DEF Buried
      <3>2. ASSUME NEW h \in 1..upto, h # g, Buried(n, h)
            PROVE  Buried(m, h)
        <4>1. /\ n.obj[h].flow \in Flows /\ Client(n, h) \in Clients /\ n.obj[h].left \in Nat
              /\ Client(m, h) = Client(n, h) /\ m.obj[h] = n.obj[h]
          BY <2>1, <2>10, <2>12, <3>2, GivenMappings
        <4>2. n.tomb[n.obj[h].flow] \in 0..Tomb /\ n.ctomb[Client(n, h)] \in 0..Tomb
          BY <4>1, Fields
        <4>3. /\ m.tomb[n.obj[h].flow] \in {n.tomb[n.obj[h].flow], Tomb}
              /\ m.ctomb[Client(n, h)] \in {n.ctomb[Client(n, h)], Tomb}
          BY <2>4, <2>9, <4>1
        <4>4. QED
          BY <3>2, <4>1, <4>2, <4>3, LifeTimes DEF Buried
      <3>3. /\ \A f \in Flows : n.fwd[f] # NoGen =>
                 n.fwd[f] \in 1..upto /\ (n.fwd[f] \in n.gen \/ Buried(n, n.fwd[f]))
            /\ \A d \in Clients : n.rev[d] # NoGen =>
                 n.rev[d] \in 1..upto /\ (n.rev[d] \in n.gen \/ Buried(n, n.rev[d]))
        BY DEF Sound, Keyed, LeftOver
      <3>4. QED
        BY <2>9, <3>1, <3>2, <3>3 DEF LeftOver
    <2>17. Counted(m)
      <3>1. \A h \in m.gen : Source(m, h) = Source(n, h) /\ m.obj[h].active = n.obj[h].active
        BY <2>9, <2>10, <2>12, <2>13 DEF Sound, Found
      <3>2. Counted(n)
        BY DEF Sound
      <3>3. QED
        BY <2>1, <2>3, <2>9, <3>1, <3>2, ReleaseCounts
    <2>18. Sound(m, upto)
      BY <2>9, <2>12, <2>14, <2>15, <2>16, <2>17 DEF Sound
    <2>19. Follows(n, m, upto)
      BY <1>2, <2>9, <2>10, <2>12, Fields DEF Follows, Vacant
    <2>20. QED
      BY <2>9, <2>18, <2>19 DEF m
  <1>3. QED
    BY <1>1, <1>2

\* create_relay_mapping: after a cleanup, what is not refused has no entry.
LEMMA FreeTuple ==
    ASSUME NEW n \in NatTables, NEW upto \in 0..MaxGen, Sound(n, upto), InTime(n),
           NEW f \in Flows, ~Refused(n, f)
    PROVE  n.cli[ClientOf[f]] = NoGen /\ n.rev[ClientOf[f]] = NoGen
  <1> DEFINE c == ClientOf[f]
             g == n.rev[c]
  <1>1. c \in Clients /\ n.cli[c] = NoGen /\ ~(n.ctomb[c] > 0)
    BY RelayConstants DEF Refused
  <1>2. ASSUME g # NoGen
        PROVE  FALSE
    <2>1. g \in 1..upto /\ Client(n, g) = c /\ n.obj[g].left > 0 /\ (g \in n.gen \/ Buried(n, g))
      BY <1>1, <1>2 DEF Sound, Keyed, InTime, LeftOver
    <2>2. g \notin n.gen
      BY <1>1, <1>2, <2>1 DEF Sound, Found
    <2>3. n.ctomb[c] > n.obj[g].left /\ n.obj[g].left \in Nat /\ n.ctomb[c] \in 0..Tomb
      BY <1>1, <2>1, <2>2, GivenMappings, Fields DEF Buried, Sound
    <2>4. QED
      BY <1>1, <2>1, <2>3, LifeTimes
  <1>3. QED
    BY <1>1, <1>2

\* The generation create_relay_mapping gives out next.
Fresh(g, upto) == g \in Gens /\ g = upto + 1
Free(n, f) == n.fwd[f] = NoGen /\ n.rev[ClientOf[f]] = NoGen /\ n.cli[ClientOf[f]] = NoGen
Grown(n, m, upto, g) ==
    /\ m \in NatTables /\ Sound(m, g) /\ m.permit = n.permit /\ m.gen = n.gen \cup {g}
    /\ \A h \in 1..upto : m.obj[h] = n.obj[h]
    /\ m.obj[g] \in Mapping /\ m.obj[g].active = FALSE

LEMMA InsertSound ==
    ASSUME NEW n \in NatTables, NEW upto \in 0..MaxGen, Sound(n, upto), NEW f \in Flows,
           Free(n, f), NEW g, Fresh(g, upto)
    PROVE  Grown(n, Inserted(n, f, g), upto, g)
  <1> DEFINE m == Inserted(n, f, g)
             c == ClientOf[f]
             s == SourceOf[c]
             x == [flow |-> f, consumed |-> FALSE, active |-> FALSE, left |-> PendingLife]
             fw == [n.fwd EXCEPT ![f] = g]
             rv == [n.rev EXCEPT ![c] = g]
             cl == [n.cli EXCEPT ![c] = g]
             p == [n.pend EXCEPT ![s] = n.pend[s] + 1]
             o == [n.obj EXCEPT ![g] = x]
  <1>0. /\ g \in Gens /\ g = upto + 1
        /\ n.fwd[f] = NoGen /\ n.rev[ClientOf[f]] = NoGen /\ n.cli[ClientOf[f]] = NoGen
    BY DEF Fresh, Free
  <1> USE <1>0
  <1>1. /\ c \in Clients /\ s \in Sources /\ g \in 0..MaxGen /\ Given(n, upto)
        /\ \A h \in 1..upto : h # g /\ h \in 1..g /\ h \in Gens
        /\ \A h \in 1..g : h \in 1..upto \/ h = g
        /\ g \in 1..g /\ g # NoGen /\ g \notin 1..upto
    BY RelayConstants DEF Gens, NoGen, Sound
  <1>2. x \in Mapping /\ x.flow = f /\ x.active = FALSE
    <2>1. FALSE \in BOOLEAN
      BY Zenon
    <2>2. QED
      BY <2>1, LifeTimes DEF Mapping
  <1>3. m = [n EXCEPT !.fwd = fw, !.rev = rv, !.cli = cl, !.gen = n.gen \cup {g}, !.pend = p,
                      !.obj = o]
    BY DEF Inserted, NatTables
  <1> HIDE DEF x, m
  <1>4. /\ fw \in [Flows -> Gens \cup {NoGen}] /\ rv \in [Clients -> Gens \cup {NoGen}]
        /\ cl \in [Clients -> Gens \cup {NoGen}] /\ p \in [Sources -> Nat]
        /\ o \in [Gens -> Mapping \cup {NoMapping}] /\ n.gen \cup {g} \in SUBSET Gens
    BY <1>1, <1>2, Fields
  <1>5. /\ fw[f] = g /\ \A e \in Flows : e # f => fw[e] = n.fwd[e]
        /\ rv[c] = g /\ cl[c] = g /\ \A d \in Clients : d # c => rv[d] = n.rev[d] /\ cl[d] = n.cli[d]
        /\ p[s] = n.pend[s] + 1 /\ \A t \in Sources : t # s => p[t] = n.pend[t]
        /\ o[g] = x /\ \A h \in Gens : h # g => o[h] = n.obj[h]
    BY <1>1, Fields
  <1> HIDE DEF fw, rv, cl, p, o
  <1>6. /\ m \in NatTables /\ m.fwd = fw /\ m.rev = rv /\ m.cli = cl /\ m.gen = n.gen \cup {g}
        /\ m.pend = p /\ m.act = n.act /\ m.obj = o /\ m.tomb = n.tomb /\ m.ctomb = n.ctomb
        /\ m.permit = n.permit
    BY <1>3, <1>4 DEF NatTables
  <1>7. /\ m.obj[g] \in Mapping /\ m.obj[g].flow = f /\ Client(m, g) = c /\ Source(m, g) = s
        /\ m.obj[g].active = FALSE
        /\ \A h \in 1..upto : /\ m.obj[h] = n.obj[h] /\ n.obj[h] \in Mapping
                              /\ Client(m, h) = Client(n, h) /\ Source(m, h) = Source(n, h)
    <2>1. /\ m.obj[g] \in Mapping /\ m.obj[g].flow = f /\ m.obj[g].active = FALSE
          /\ \A h \in 1..upto : m.obj[h] = n.obj[h] /\ n.obj[h] \in Mapping
      BY <1>1, <1>2, <1>5, <1>6, GivenMappings
    <2>2. QED
      BY <2>1 DEF Client, Source
  <1>8. Given(m, g)
    <2>1. \A h \in Gens : h # g /\ m.obj[h] # NoMapping => h \in 1..g
      BY <1>1, <1>5, <1>6 DEF Given
    <2>2. QED
      BY <1>1, <1>7, <2>1 DEF Given
  <1>9. Found(m, g)
    <2>1. ASSUME NEW h \in n.gen
          PROVE  /\ h \in 1..g /\ m.fwd[m.obj[h].flow] = h
                 /\ m.rev[Client(m, h)] = h /\ m.cli[Client(m, h)] = h
      <3>1. /\ h \in 1..upto /\ n.fwd[n.obj[h].flow] = h
            /\ n.rev[Client(n, h)] = h /\ n.cli[Client(n, h)] = h
        BY DEF Sound, Found
      <3>2. n.obj[h].flow \in Flows /\ Client(n, h) \in Clients /\ h # NoGen
        BY <1>1, <3>1, GivenMappings
      <3>3. n.obj[h].flow # f /\ Client(n, h) # c
        BY <3>1, <3>2
      <3>4. QED
        BY <1>1, <1>5, <1>6, <1>7, <3>1, <3>2, <3>3
    <2>2. ASSUME NEW h \in 1..g, m.obj[h].active
          PROVE  h \in m.gen
      BY <1>1, <1>6, <1>7, <2>2 DEF Sound, Found
    <2>3. QED
      BY <1>1, <1>5, <1>6, <1>7, <2>1, <2>2 DEF Found
  <1>10. Keyed(m, g)
    <2>1. ASSUME NEW e \in Flows, m.fwd[e] # NoGen
          PROVE  m.fwd[e] \in 1..g /\ m.obj[m.fwd[e]].flow = e
      <3>1. CASE e = f
        BY <1>1, <1>5, <1>6, <1>7, <3>1
      <3>2. CASE e # f
        <4>1. m.fwd[e] = n.fwd[e] /\ n.fwd[e] \in 1..upto /\ n.obj[n.fwd[e]].flow = e
          BY <1>5, <1>6, <2>1, <3>2 DEF Sound, Keyed
        <4>2. QED
          BY <1>1, <1>7, <4>1
      <3>3. QED
        BY <3>1, <3>2
    <2>2. ASSUME NEW d \in Clients, m.rev[d] # NoGen
          PROVE  m.rev[d] \in 1..g /\ Client(m, m.rev[d]) = d
      <3>1. CASE d = c
        BY <1>1, <1>5, <1>6, <1>7, <3>1
      <3>2. CASE d # c
        <4>1. m.rev[d] = n.rev[d] /\ n.rev[d] \in 1..upto /\ Client(n, n.rev[d]) = d
          BY <1>5, <1>6, <2>2, <3>2 DEF Sound, Keyed
        <4>2. QED
          BY <1>1, <1>7, <4>1
      <3>3. QED
        BY <3>1, <3>2
    <2>3. ASSUME NEW d \in Clients, m.cli[d] # NoGen
          PROVE  m.cli[d] \in m.gen /\ Client(m, m.cli[d]) = d
      <3>1. CASE d = c
        BY <1>1, <1>5, <1>6, <1>7, <3>1
      <3>2. CASE d # c
        <4>1. /\ m.cli[d] = n.cli[d] /\ n.cli[d] \in n.gen /\ Client(n, n.cli[d]) = d
              /\ n.cli[d] \in 1..upto
          BY <1>5, <1>6, <2>3, <3>2 DEF Sound, Keyed, Found
        <4>2. QED
          BY <1>6, <1>7, <4>1
      <3>3. QED
        BY <3>1, <3>2
    <2>4. QED
      BY <2>1, <2>2, <2>3 DEF Keyed
  <1>11. LeftOver(m)
    <2>1. \A h \in 1..upto : Buried(n, h) => Buried(m, h)
      BY <1>6, <1>7 DEF Buried
    <2>2. \A e \in Flows : m.fwd[e] # NoGen => m.fwd[e] \in m.gen \/ Buried(m, m.fwd[e])
      BY <1>5, <1>6, <2>1 DEF Sound, Keyed, LeftOver
    <2>3. \A d \in Clients : m.rev[d] # NoGen => m.rev[d] \in m.gen \/ Buried(m, m.rev[d])
      BY <1>5, <1>6, <2>1 DEF Sound, Keyed, LeftOver
    <2>4. QED
      BY <2>2, <2>3 DEF LeftOver
  <1>12. Counted(m)
    <2>1. /\ g \notin n.gen
          /\ \A h \in n.gen : /\ Source(m, h) = Source(n, h)
                              /\ m.obj[h].active = n.obj[h].active
      BY <1>1, <1>7 DEF Sound, Found
    <2>2. \A t \in Sources : Of(m, t, TRUE) = Of(n, t, TRUE)
      BY <1>6, <1>7, <2>1 DEF Of
    <2>3. \A t \in Sources : t # s => Of(m, t, FALSE) = Of(n, t, FALSE)
      BY <1>6, <1>7, <2>1 DEF Of
    <2>4. Of(m, s, FALSE) = Of(n, s, FALSE) \cup {g} /\ g \notin Of(n, s, FALSE)
      BY <1>6, <1>7, <2>1 DEF Of
    <2>5. IsFiniteSet(Of(n, s, FALSE)) /\ Cardinality(Of(n, s, FALSE)) \in Nat
      BY FiniteGens, Fields DEF Of
    <2>6. Cardinality(Of(m, s, FALSE)) = Cardinality(Of(n, s, FALSE)) + 1
      BY <2>4, <2>5, FS_AddElement
    <2>7. \A t \in Sources : /\ n.pend[t] = Cardinality(Of(n, t, FALSE))
                             /\ n.act[t] = Cardinality(Of(n, t, TRUE))
      BY DEF Sound, Counted
    <2>8. ASSUME NEW t \in Sources
          PROVE  p[t] = Cardinality(Of(m, t, FALSE)) /\ n.act[t] = Cardinality(Of(m, t, TRUE))
      <3>1. CASE t = s
        BY <1>1, <1>5, <2>2, <2>6, <2>7, <3>1
      <3>2. CASE t # s
        BY <1>5, <2>2, <2>3, <2>7, <3>2
      <3>3. QED
        BY <3>1, <3>2
    <2>9. QED
      BY <1>6, <2>8 DEF Counted
  <1>13. Sound(m, g)
    BY <1>6, <1>8, <1>9, <1>10, <1>11, <1>12 DEF Sound
  <1>14. QED
    BY <1>6, <1>7, <1>13 DEF m, Grown

\* Permits are apart from the tables.
LEMMA PermitSound ==
    ASSUME NEW n \in NatTables, NEW upto \in 0..MaxGen, Sound(n, upto),
           NEW p \in [Gens -> 0..ActiveLife]
    PROVE  LET m == [n EXCEPT !.permit = p] IN
           /\ m \in NatTables /\ Sound(m, upto) /\ m.permit = p /\ m.gen = n.gen /\ m.obj = n.obj
           /\ (\A g \in Gens : n.permit[g] = 0 => p[g] = 0) => (Vacant(n) => Vacant(m))
  <1> DEFINE m == [n EXCEPT !.permit = p]
  <1>1. /\ m \in NatTables /\ m.obj = n.obj
        /\ m.fwd = n.fwd /\ m.rev = n.rev /\ m.cli = n.cli /\ m.gen = n.gen
        /\ m.tomb = n.tomb /\ m.ctomb = n.ctomb
        /\ m.pend = n.pend /\ m.act = n.act /\ m.permit = p
    BY DEF NatTables
  <1> HIDE DEF m
  <1>2. \A g : Client(m, g) = Client(n, g) /\ Source(m, g) = Source(n, g)
    BY <1>1 DEF Client, Source
  <1>3. Given(m, upto) /\ Found(m, upto)
    BY <1>1, <1>2 DEF Sound, Given, Found
  <1>4. Keyed(m, upto)
    BY <1>1, <1>2 DEF Sound, Keyed
  <1>5. LeftOver(m)
    <2>1. \A g : Buried(n, g) => Buried(m, g)
      BY <1>1, <1>2 DEF Buried
    <2>2. QED
      BY <1>1, <2>1 DEF Sound, LeftOver
  <1>6. Counted(m)
    <2>1. Counted(n)
      BY DEF Sound
    <2>2. QED
      BY <1>1, <1>2, <2>1, SameCounts
  <1>7. ASSUME \A g \in Gens : n.permit[g] = 0 => p[g] = 0, Vacant(n)
        PROVE  Vacant(m)
    BY <1>1, <1>7 DEF Vacant
  <1>8. Sound(m, upto)
    BY <1>1, <1>3, <1>4, <1>5, <1>6 DEF Sound
  <1>9. QED
    BY <1>1, <1>7, <1>8 DEF m

\* Time passes for all deadlines alike.
Ticked(n) ==
    [n EXCEPT
        !.obj = [g \in Gens |-> IF n.obj[g] = NoMapping THEN NoMapping
                                ELSE [n.obj[g] EXCEPT !.left = Less(n.obj[g].left, 1)]],
        !.tomb = [f \in Flows |-> Less(n.tomb[f], 1)],
        !.ctomb = [c \in Clients |-> Less(n.ctomb[c], 1)],
        !.permit = [g \in Gens |-> Less(n.permit[g], 1)]]

LEMMA TickSound ==
    ASSUME NEW n \in NatTables, NEW upto \in 0..MaxGen, Sound(n, upto)
    PROVE  LET m == Ticked(n) IN
           /\ m \in NatTables /\ Sound(m, upto) /\ Follows(n, m, upto)
           /\ \A g \in Gens : m.permit[g] > 0 => n.permit[g] > 0
  <1> DEFINE m == Ticked(n)
  <1> DEFINE x(g) == [n.obj[g] EXCEPT !.left = Less(n.obj[g].left, 1)]
             o == [g \in Gens |-> IF n.obj[g] = NoMapping THEN NoMapping ELSE x(g)]
             tb == [f \in Flows |-> Less(n.tomb[f], 1)]
             ct == [c \in Clients |-> Less(n.ctomb[c], 1)]
             pm == [g \in Gens |-> Less(n.permit[g], 1)]
  <1>3. PendingLife + ActiveLife + Grace \in Nat /\ Tomb \in Nat /\ ActiveLife \in Nat
    BY RelayTimes
  <1>4. ASSUME NEW g \in Gens, n.obj[g] \in Mapping
        PROVE  /\ x(g) \in Mapping /\ x(g).flow = n.obj[g].flow /\ x(g).active = n.obj[g].active
               /\ x(g).consumed = n.obj[g].consumed /\ x(g).left = Less(n.obj[g].left, 1)
    <2>1. Less(n.obj[g].left, 1) \in 0..(PendingLife + ActiveLife + Grace)
      BY <1>3, <1>4, MappingFields, LessIn
    <2>2. QED
      BY <1>4, <2>1 DEF Mapping
  <1>5. m = [n EXCEPT !.obj = o, !.tomb = tb, !.ctomb = ct, !.permit = pm]
    BY DEF Ticked
  <1> HIDE DEF x, m
  <1>6. \A g \in Gens : n.obj[g] = NoMapping \/ n.obj[g] \in Mapping
    BY Fields
  <1>7. /\ o \in [Gens -> Mapping \cup {NoMapping}] /\ tb \in [Flows -> 0..Tomb]
        /\ ct \in [Clients -> 0..Tomb] /\ pm \in [Gens -> 0..ActiveLife]
    <2>1. o \in [Gens -> Mapping \cup {NoMapping}]
      BY <1>4, <1>6
    <2>2. /\ tb \in [Flows -> 0..Tomb] /\ ct \in [Clients -> 0..Tomb]
          /\ pm \in [Gens -> 0..ActiveLife]
      BY <1>3, Fields, LessIn
    <2>3. QED
      BY <2>1, <2>2
  <1>8. /\ \A g \in Gens : o[g] = IF n.obj[g] = NoMapping THEN NoMapping ELSE x(g)
        /\ \A f \in Flows : tb[f] = Less(n.tomb[f], 1)
        /\ \A c \in Clients : ct[c] = Less(n.ctomb[c], 1)
        /\ \A g \in Gens : pm[g] = Less(n.permit[g], 1)
    OBVIOUS
  <1> HIDE DEF o, tb, ct, pm
  <1>9. /\ m \in NatTables /\ m.obj = o /\ m.tomb = tb /\ m.ctomb = ct /\ m.permit = pm
        /\ m.fwd = n.fwd /\ m.rev = n.rev /\ m.cli = n.cli /\ m.gen = n.gen
        /\ m.pend = n.pend /\ m.act = n.act
    BY <1>5, <1>7 DEF NatTables
  <1>10. Kin(n, m)
    BY <1>4, <1>8, <1>9, NotMapping DEF Kin
  <1>11. Given(n, upto)
    BY DEF Sound
  <1>12. /\ Given(m, upto)
         /\ \A g \in 1..upto : /\ m.obj[g].flow = n.obj[g].flow
                               /\ Client(m, g) = Client(n, g) /\ Source(m, g) = Source(n, g)
    BY <1>9, <1>10, <1>11, KinGiven
  <1>13. \A g \in 1..upto : /\ g \in Gens /\ m.obj[g].active = n.obj[g].active
                            /\ m.obj[g].consumed = n.obj[g].consumed
                            /\ m.obj[g].left = Less(n.obj[g].left, 1) /\ n.obj[g].left \in Nat
    <2>1. \A g \in 1..upto : g \in Gens /\ n.obj[g] \in Mapping /\ n.obj[g].left \in Nat
      BY <1>11, GivenMappings
    <2>2. QED
      BY <1>4, <1>8, <1>9, <2>1, NotMapping
  <1>14. Found(m, upto)
    BY <1>9, <1>12, <1>13 DEF Sound, Found
  <1>15. Keyed(m, upto)
    <2>1. \A f \in Flows : m.fwd[f] # NoGen => m.fwd[f] \in 1..upto /\ m.obj[m.fwd[f]].flow = f
      BY <1>9, <1>12 DEF Sound, Keyed
    <2>2. \A c \in Clients : m.rev[c] # NoGen => m.rev[c] \in 1..upto /\ Client(m, m.rev[c]) = c
      BY <1>9, <1>12 DEF Sound, Keyed
    <2>3. \A c \in Clients : m.cli[c] # NoGen => m.cli[c] \in m.gen /\ Client(m, m.cli[c]) = c
      BY <1>9, <1>12 DEF Sound, Keyed, Found
    <2>4. QED
      BY <2>1, <2>2, <2>3 DEF Keyed
  <1>16. LeftOver(m)
    <2>1. ASSUME NEW g \in 1..upto, Buried(n, g)
          PROVE  Buried(m, g)
      <3>1. /\ n.obj[g].flow \in Flows /\ Client(n, g) \in Clients
            /\ m.obj[g].flow = n.obj[g].flow /\ Client(m, g) = Client(n, g)
        BY <1>11, <1>12, GivenMappings
      <3>2. n.tomb[n.obj[g].flow] \in Nat /\ n.ctomb[Client(n, g)] \in Nat
        BY <1>3, <3>1, Fields
      <3>3. m.obj[g].left > 0 => n.obj[g].left > 0
        BY <1>13, LessOne
      <3>4. QED
        BY <1>8, <1>9, <1>13, <2>1, <3>1, <3>2, <3>3, LessOne DEF Buried
    <2>2. QED
      BY <1>9, <2>1 DEF Sound, Keyed, LeftOver
  <1>17. Counted(m)
    <2>1. \A g \in n.gen : Source(m, g) = Source(n, g) /\ m.obj[g].active = n.obj[g].active
      BY <1>12, <1>13 DEF Sound, Found
    <2>2. Counted(n)
      BY DEF Sound
    <2>3. QED
      BY <1>9, <2>1, <2>2, SameCounts
  <1>18. \A g \in Gens : m.permit[g] > 0 => n.permit[g] > 0
    <2>1. \A g \in Gens : n.permit[g] \in Nat
      BY <1>3, Fields
    <2>2. QED
      BY <1>8, <1>9, <2>1, LessOne
  <1>19. Follows(n, m, upto)
    <2>1. \A g \in m.gen : g \in 1..upto
      BY <1>9 DEF Sound, Found
    <2>2. ASSUME Vacant(n) PROVE Vacant(m)
      <3>1. \A g \in Gens : m.permit[g] = 0
        <4>1. \A g \in Gens : n.permit[g] = 0 /\ m.permit[g] = Less(n.permit[g], 1)
          BY <1>8, <1>9, <2>2 DEF Vacant
        <4>2. QED
          BY <4>1 DEF Less
      <3>2. QED
        BY <1>9, <2>2, <3>1 DEF Vacant
    <2>3. QED
      BY <1>9, <1>12, <1>13, <2>1, <2>2 DEF Follows
  <1>20. Sound(m, upto)
    BY <1>9, <1>12, <1>14, <1>15, <1>16, <1>17 DEF Sound
  <1>21. QED
    BY <1>9, <1>18, <1>19, <1>20 DEF m

\* suspend() and close()
Emptied(n) ==
    Forget([EmptyTables(n) EXCEPT !.tomb = [f \in Flows |-> 0], !.ctomb = [c \in Clients |-> 0]])

LEMMA SuspendSound ==
    ASSUME NEW n \in NatTables, NEW upto \in 0..MaxGen, Sound(n, upto)
    PROVE  LET m == Emptied(n) IN
           m \in NatTables /\ Sound(m, upto) /\ Vacant(m) /\ Follows(n, m, upto)
  <1> DEFINE m == Emptied(n)
             q == [EmptyTables(n) EXCEPT !.tomb = [f \in Flows |-> 0],
                                         !.ctomb = [c \in Clients |-> 0]]
  <1>1. /\ [f \in Flows |-> 0] \in [Flows -> 0..Tomb]
        /\ [c \in Clients |-> 0] \in [Clients -> 0..Tomb]
        /\ [g \in Gens |-> 0] \in [Gens -> 0..ActiveLife]
    BY RelayTimes
  <1>2. /\ [f \in Flows |-> NoGen] \in [Flows -> Gens \cup {NoGen}]
        /\ [c \in Clients |-> NoGen] \in [Clients -> Gens \cup {NoGen}]
        /\ Zero \in [Sources -> Nat] /\ {} \in SUBSET Gens
    BY DEF Zero
  <1>3. /\ q \in NatTables /\ q.obj = n.obj /\ q.gen = {}
        /\ q.fwd = [f \in Flows |-> NoGen] /\ q.rev = [c \in Clients |-> NoGen]
        /\ q.cli = [c \in Clients |-> NoGen] /\ q.pend = Zero /\ q.act = Zero
        /\ q.permit = [g \in Gens |-> 0]
    BY <1>1, <1>2 DEF EmptyTables, NatTables
  <1>4. m = Forget(q)
    BY DEF Emptied
  <1> HIDE DEF q, m
  <1>5. /\ m \in NatTables /\ Kin(q, m)
        /\ m.fwd = q.fwd /\ m.rev = q.rev /\ m.cli = q.cli /\ m.gen = q.gen
        /\ m.pend = q.pend /\ m.act = q.act /\ m.permit = q.permit
        /\ \A g \in Gens : q.obj[g] \in Mapping /\ ~InTables(q, g) => m.obj[g].active = FALSE
    <2>1. q \in NatTables
      BY <1>3
    <2>2. QED
      BY <1>4, <2>1, ForgetIs
  <1>6. Vacant(m)
    BY <1>3, <1>5 DEF Vacant, Zero
  <1>7. Kin(n, m) /\ Given(n, upto)
    BY <1>3, <1>5 DEF Kin, Sound
  <1>8. Given(m, upto) /\ \A g \in 1..upto : m.obj[g].flow = n.obj[g].flow
    BY <1>5, <1>7, KinGiven
  <1>9. Found(m, upto)
    <2>1. ASSUME NEW g \in 1..upto
          PROVE  m.obj[g].active = FALSE
      <3>1. g \in Gens /\ g # NoGen /\ q.obj[g] \in Mapping
        BY <1>3, <1>7, GivenMappings
      <3>2. ~InTables(q, g)
        BY <1>3, <3>1 DEF InTables
      <3>3. QED
        BY <1>5, <3>1, <3>2
    <2>2. QED
      BY <1>6, <2>1 DEF Found, Vacant
  <1>10. Keyed(m, upto) /\ LeftOver(m)
    BY <1>6 DEF Keyed, LeftOver, Vacant
  <1>11. Counted(m)
    <2>1. \A s \in Sources : Of(m, s, FALSE) = {} /\ Of(m, s, TRUE) = {}
      BY <1>6 DEF Of, Vacant
    <2>2. QED
      BY <1>6, <2>1, FS_EmptySet DEF Counted, Vacant
  <1>12. Sound(m, upto)
    BY <1>5, <1>8, <1>9, <1>10, <1>11 DEF Sound
  <1>13. QED
    BY <1>5, <1>6, <1>8, <1>12 DEF Follows, Vacant, m

-----------------------------------------------------------------------------
(* The relay's own state *)

LEMMA InitialInv == EInit => RelayIInv
  <1> SUFFICES ASSUME EInit PROVE RelayIInv
    OBVIOUS
  <1>1. /\ [f \in Flows |-> 0] \in [Flows -> 0..Tomb] /\ [c \in Clients |-> 0] \in [Clients -> 0..Tomb]
        /\ [g \in Gens |-> 0] \in [Gens -> 0..ActiveLife]
        /\ [f \in Flows |-> NoGen] \in [Flows -> Gens \cup {NoGen}]
        /\ [c \in Clients |-> NoGen] \in [Clients -> Gens \cup {NoGen}]
        /\ [g \in Gens |-> NoMapping] \in [Gens -> Mapping \cup {NoMapping}]
        /\ Zero \in [Sources -> Nat] /\ {} \in SUBSET Gens
    BY RelayTimes DEF Zero
  <1>2. /\ nat.fwd = [f \in Flows |-> NoGen] /\ nat.rev = [c \in Clients |-> NoGen]
        /\ nat.cli = [c \in Clients |-> NoGen] /\ nat.gen = {} /\ nat.pend = Zero /\ nat.act = Zero
        /\ nat.permit = [g \in Gens |-> 0] /\ nat.obj = [g \in Gens |-> NoMapping]
        /\ nat \in NatTables
    BY <1>1 DEF EInit, EmptyTables, NatTables
  <1>3. Vacant(nat)
    BY <1>2 DEF Vacant, Zero
  <1>4. generation = 0 /\ 1..0 = {} /\ \A g \in Gens : w[g] = "none" /\ hold[g] = "none"
    BY DEF EInit
  <1>5. Given(nat, generation) /\ Found(nat, generation) /\ Keyed(nat, generation) /\ LeftOver(nat)
    BY <1>2, <1>3, <1>4 DEF Given, Found, Keyed, LeftOver, Vacant
  <1>6. Counted(nat)
    <2>1. \A s \in Sources : Of(nat, s, FALSE) = {} /\ Of(nat, s, TRUE) = {}
      BY <1>3 DEF Of, Vacant
    <2>2. QED
      BY <1>3, <2>1, FS_EmptySet DEF Counted, Vacant
  <1>7. SlotsCounted(nat)
    <2>1. \A s \in Sources : /\ Holding(nat, hold, "pending", s) = {}
                             /\ Holding(nat, hold, "active", s) = {}
      BY <1>4 DEF Holding
    <2>2. \A s \in Sources : slots.pend[s] = 0 /\ slots.act[s] = 0
      BY DEF EInit, Zero
    <2>3. QED
      BY <2>1, <2>2, FS_EmptySet DEF SlotsCounted
  <1>8. RelayTypes
    <2>1. suspended \in BOOLEAN /\ quiesced \in BOOLEAN
      BY Zenon DEF EInit
    <2>2. generation \in 0..MaxGen
      BY <1>4, RelayConstants
    <2>3. acc \in [at : {"accept", "admit", "retire"}, gen : Gens \cup {NoGen}]
      BY DEF EInit, Accepting
    <2>4. QED
      BY <1>1, <2>1, <2>2, <2>3 DEF EInit, RelayTypes, AtWorker
  <1>9. Handed(nat) /\ (\A g \in Gens : SlotOf(w[g], hold[g])) /\ PermitsHeld(nat)
    <2>1. acc.at = "accept" /\ acc.gen = NoGen
      BY DEF EInit, Accepting
    <2>2. QED
      BY <1>2, <1>4, <2>1 DEF Handed, SlotOf, PermitsHeld
  <1>10. QED
    BY <1>2, <1>3, <1>5, <1>6, <1>7, <1>8, <1>9 DEF RelayIInv, Sound

\* A worker that changes its slot changes one of the sets the slots count.
LEMMA HoldMoves ==
    ASSUME NEW n, NEW h \in [Gens -> {"none", "pending", "active"}], NEW g \in Gens,
           NEW j, \A x \in Gens : x # g => j[x] = h[x], j[g] # h[g],
           NEW kind, NEW s
    PROVE  LET c == Cardinality(Holding(n, h, kind, s))
               d == Cardinality(Holding(n, j, kind, s))
           IN  /\ Source(n, g) # s => d = c
               /\ Source(n, g) = s /\ kind = j[g] => d = c + 1
               /\ Source(n, g) = s /\ kind = h[g] => d = Less(c, 1)
               /\ kind # j[g] /\ kind # h[g] => d = c
  <1> DEFINE A == Holding(n, h, kind, s)
             B == Holding(n, j, kind, s)
  <1>1. \A x \in Gens : x # g => (x \in B <=> x \in A)
    BY DEF Holding
  <1>2. /\ g \in A <=> (h[g] = kind /\ Source(n, g) = s)
        /\ g \in B <=> (j[g] = kind /\ Source(n, g) = s)
        /\ A \subseteq Gens /\ B \subseteq Gens
    BY DEF Holding
  <1> HIDE DEF A, B
  <1>3. IsFiniteSet(A) /\ Cardinality(A) \in Nat
    BY <1>2, FiniteGens
  <1>4. Source(n, g) # s \/ (kind # j[g] /\ kind # h[g]) => B = A
    BY <1>1, <1>2
  <1>5. ASSUME Source(n, g) = s, kind = j[g] PROVE Cardinality(B) = Cardinality(A) + 1
    <2>1. g \notin A /\ B = A \cup {g}
      BY <1>1, <1>2, <1>5
    <2>2. QED
      BY <1>3, <2>1, FS_AddElement
  <1>6. ASSUME Source(n, g) = s, kind = h[g] PROVE Cardinality(B) = Less(Cardinality(A), 1)
    <2>1. g \in A /\ B = A \ {g} /\ {g} \in SUBSET A
      BY <1>1, <1>2, <1>6
    <2>2. Cardinality({g}) = 1
      BY FS_Singleton
    <2>3. QED
      BY <1>2, <2>1, <2>2, Countdown
  <1>7. QED
    BY <1>4, <1>5, <1>6 DEF A, B

\* The slots are not touched, and the addresses of their workers neither.
LEMMA SlotsKept ==
    ASSUME RelayIInv, hold' = hold, slots' = slots,
           \A x \in 1..generation : nat'.obj[x].flow = nat.obj[x].flow
    PROVE  SlotsCounted(nat)'
  <1>1. \A x \in Gens : hold[x] # "none" => Source(nat', x) = Source(nat, x)
    <2>1. \A x \in Gens : hold[x] # "none" => w[x] # "none"
      BY DEF RelayIInv, SlotOf
    <2>2. \A x \in Gens : hold[x] # "none" => x \in 1..generation
      BY <2>1 DEF RelayIInv, Handed
    <2>3. QED
      BY <2>2 DEF Source, Client
  <1>2. \A s : \A k \in {"pending", "active"} : Holding(nat', hold, k, s) = Holding(nat, hold, k, s)
    BY <1>1 DEF Holding
  <1>3. QED
    BY <1>2 DEF RelayIInv, SlotsCounted

\* A step of the policy alone.
LEMMA PolicyStep ==
    ASSUME RelayIInv, RelayTypes', generation' = generation, Sound(nat', generation),
           Follows(nat, nat', generation), suspended' = suspended \/ Vacant(nat'),
           \A g \in Gens : nat'.permit[g] > 0 => nat.permit[g] > 0,
           w' = w, acc' = acc, hold' = hold, slots' = slots
    PROVE  RelayIInv'
  <1>1. Sound(nat, generation)' /\ (suspended => Vacant(nat))'
    BY DEF RelayIInv, Follows
  <1>2. Handed(nat)'
    BY DEF RelayIInv, Handed, Follows
  <1>3. SlotsCounted(nat)'
    BY SlotsKept DEF Follows
  <1>4. PermitsHeld(nat)'
    BY DEF RelayIInv, PermitsHeld
  <1>5. (\A g \in Gens : SlotOf(w[g], hold[g]))'
    BY DEF RelayIInv
  <1>6. QED
    BY <1>1, <1>2, <1>3, <1>4, <1>5 DEF RelayIInv

\* A step of one worker.
Late == {"relay", "finally", "closing", "unmap", "gone"}

LEMMA WorkerMoves ==
    ASSUME RelayIInv, RelayTypes', generation' = generation, suspended' = suspended, acc' = acc,
           Sound(nat', generation), Follows(nat, nat', generation), SlotsCounted(nat)',
           NEW g \in Gens, NEW to, w[g] # "none", w' = [w EXCEPT ![g] = to], to # "none",
           w[g] \in Late => to \in Late,
           \A x \in Gens : x # g => hold'[x] = hold[x], SlotOf(to, hold'[g]),
           \A x \in Gens : x # g => (nat'.permit[x] > 0 => nat.permit[x] > 0),
           nat'.permit[g] > 0 => to \in {"connect", "relay", "finally"}
    PROVE  RelayIInv'
  <1>1. Sound(nat, generation)' /\ (suspended => Vacant(nat))'
    BY DEF RelayIInv, Follows
  <1>2. w'[g] = to /\ \A x \in Gens : x # g => w'[x] = w[x]
    BY DEF RelayIInv, RelayTypes
  <1>3. Handed(nat)'
    <2>1. nat'.gen \subseteq nat.gen /\ nat.gen \subseteq Gens
      BY Fields DEF RelayIInv, Sound, Follows
    <2>2. (acc.gen # NoGen => acc.gen \in 1..generation /\ w[acc.gen] = "none")'
      <3>1. acc.gen # NoGen => acc.gen \in Gens /\ acc.gen # g
        BY DEF RelayIInv, RelayTypes, Handed
      <3>2. QED
        BY <1>2, <3>1 DEF RelayIInv, Handed
    <2>3. \A x \in Gens : w'[x] # "none" <=> w[x] # "none"
      BY <1>2
    <2>4. \A x \in nat'.gen : nat'.obj[x].active => w'[x] \in Late
      BY <1>2, <2>1 DEF RelayIInv, Handed, Follows, Late
    <2>5. (\A x \in nat.gen : w[x] # "none" \/ acc.gen = x => nat.obj[x].consumed)'
      BY <2>1, <2>3 DEF RelayIInv, Handed, Follows
    <2>6. (acc.at = "accept" <=> acc.gen = NoGen)' /\ (\A x \in Gens : w[x] # "none" => x \in 1..generation)'
      BY <2>3 DEF RelayIInv, Handed
    <2>7. QED
      BY <2>2, <2>4, <2>5, <2>6 DEF Handed, Late
  <1>4. PermitsHeld(nat)'
    BY <1>2 DEF RelayIInv, PermitsHeld
  <1>5. (\A x \in Gens : SlotOf(w[x], hold[x]))'
    BY <1>2 DEF RelayIInv
  <1>6. QED
    BY <1>1, <1>3, <1>4, <1>5 DEF RelayIInv

-----------------------------------------------------------------------------
(* The steps of the policy *)

LEMMA Facts ==
    ASSUME RelayIInv
    PROVE  /\ nat \in NatTables /\ generation \in 0..MaxGen /\ Sound(nat, generation)
           /\ Given(nat, generation) /\ RelayTypes
           /\ Follows(nat, nat, generation)
  <1>1. nat \in NatTables /\ generation \in 0..MaxGen /\ Sound(nat, generation) /\ RelayTypes
    BY DEF RelayIInv, RelayTypes, Sound
  <1>2. Given(nat, generation)
    BY <1>1 DEF Sound
  <1>3. Follows(nat, nat, generation)
    BY DEF Follows
  <1>4. QED
    BY <1>1, <1>2, <1>3

LEMMA FollowsOn ==
    ASSUME NEW n, NEW m, NEW q, NEW upto, Follows(n, m, upto), Follows(m, q, upto)
    PROVE  Follows(n, q, upto)
  BY DEF Follows

\* Most steps clean up first.
LEMMA CleanFacts ==
    ASSUME RelayIInv
    PROVE  LET n == Cleaned(nat) IN
           /\ n \in NatTables /\ Sound(n, generation) /\ Follows(nat, n, generation)
           /\ n.permit = nat.permit /\ InTime(n)
  BY Facts, CleanSound

LEMMA ArrivesTypes ==
    ASSUME NEW n \in NatTables, NEW upto \in 0..MaxGen, Given(n, upto), NEW g \in 1..upto,
           backlog \subseteq Clients, Arrives(n, g)
    PROVE  backlog' \subseteq Clients
  <1>1. Client(n, g) \in Clients
    BY GivenMappings
  <1>2. QED
    BY <1>1 DEF Arrives

LEMMA MatchNatKeeps == ASSUME RelayIInv, MatchNat PROVE RelayIInv'
  <1>1. PICK g \in 1..generation, syn \in BOOLEAN, sent \in BOOLEAN : Match(g, syn, sent)
    BY DEF MatchNat
  <1> DEFINE n == Cleaned(nat)
  <1>2. /\ n \in NatTables /\ Sound(n, generation) /\ Follows(nat, n, generation)
        /\ n.permit = nat.permit
    BY CleanFacts
  <1>3. /\ nat' = IF sent THEN Refreshed(n, g) ELSE Closed(n, g)
        /\ IF sent /\ syn THEN Arrives(n, g) ELSE UNCHANGED backlog
        /\ UNCHANGED <<suspended, generation, stop, quiesced, acc, w, hold, conns, open, slots>>
    BY <1>1 DEF Match
  <1> HIDE DEF n
  <1>4. generation \in 0..MaxGen /\ RelayTypes
    BY Facts
  <1>5. /\ nat' \in NatTables /\ Sound(nat', generation) /\ Follows(n, nat', generation)
        /\ nat'.permit = nat.permit
    BY <1>2, <1>3, <1>4, RefreshSound, CloseSound
  <1>6. backlog' \subseteq Clients
    <2>1. Given(n, generation) /\ backlog \subseteq Clients
      BY <1>2, <1>4 DEF Sound, RelayTypes
    <2>2. QED
      BY <1>2, <1>3, <1>4, <2>1, ArrivesTypes
  <1>7. RelayTypes'
    BY <1>3, <1>4, <1>6 DEF RelayTypes
  <1>8. Follows(nat, nat', generation)
    BY <1>2, <1>5, FollowsOn
  <1>9. QED
    BY <1>3, <1>5, <1>7, <1>8, PolicyStep

LEMMA OnlyCleanupKeeps == ASSUME RelayIInv, OnlyCleanup PROVE RelayIInv'
  <1> DEFINE n == Cleaned(nat)
  <1>1. /\ n \in NatTables /\ Sound(n, generation) /\ Follows(nat, n, generation)
        /\ n.permit = nat.permit
    BY CleanFacts
  <1>2. nat' = n /\ UNCHANGED <<suspended, generation, stop, quiesced, backlog, acc, w, hold, conns, open, slots>>
    BY DEF OnlyCleanup, relay
  <1> HIDE DEF n
  <1>3. RelayTypes'
    BY <1>2, Facts DEF RelayTypes
  <1>4. QED
    BY <1>1, <1>2, <1>3, PolicyStep

LEMMA UpstreamPacketKeeps == ASSUME RelayIInv, UpstreamPacket PROVE RelayIInv'
  <1> DEFINE n == Cleaned(nat)
  <1>1. /\ n \in NatTables /\ Sound(n, generation) /\ Follows(nat, n, generation)
        /\ n.permit = nat.permit
    BY CleanFacts
  <1>2. PICK g \in Gens : nat.permit[g] > 0 /\ nat' = [n EXCEPT !.permit[g] = ActiveLife]
    BY DEF UpstreamPacket
  <1>3. ~suspended /\ UNCHANGED <<suspended, generation, stop, quiesced, backlog, acc, w, hold, conns, open, slots>>
    BY DEF UpstreamPacket, relay
  <1> HIDE DEF n
  <1> DEFINE p == [n.permit EXCEPT ![g] = ActiveLife]
  <1>4. p \in [Gens -> 0..ActiveLife] /\ \A x \in Gens : x # g => p[x] = n.permit[x]
    BY <1>1, Fields, LifeTimes
  <1>5. nat' = [n EXCEPT !.permit = p]
    BY <1>1, <1>2 DEF NatTables
  <1> HIDE DEF p
  <1>6. generation \in 0..MaxGen /\ RelayTypes
    BY Facts
  <1>7. /\ nat' \in NatTables /\ Sound(nat', generation) /\ nat'.permit = p
        /\ nat'.gen = n.gen /\ nat'.obj = n.obj
    BY <1>1, <1>4, <1>5, <1>6, PermitSound
  <1>8. Follows(nat, nat', generation)
    <2>1. ~Vacant(nat)
      BY <1>2 DEF Vacant
    <2>2. QED
      BY <1>1, <1>7, <2>1 DEF Follows
  <1>9. \A x \in Gens : nat'.permit[x] > 0 => nat.permit[x] > 0
    BY <1>1, <1>2, <1>4, <1>7
  <1>10. RelayTypes'
    BY <1>3, <1>6 DEF RelayTypes
  <1>11. QED
    BY <1>3, <1>7, <1>8, <1>9, <1>10, PolicyStep

LEMMA UpdateLocalIPv4Keeps == ASSUME RelayIInv, UpdateLocalIPv4 PROVE RelayIInv'
  <1>1. PICK s \in Sources, lost \in SUBSET Gens :
          nat' = LET n == Removed(nat, {g \in nat.gen : Source(nat, g) = s})
                 IN  [n EXCEPT !.permit = [g \in Gens |-> IF g \in lost THEN 0 ELSE @[g]]]
    BY DEF UpdateLocalIPv4
  <1>2. UNCHANGED <<suspended, generation, stop, quiesced, backlog, acc, w, hold, conns, open, slots>>
    BY DEF UpdateLocalIPv4, relay
  <1> DEFINE n == Removed(nat, {g \in nat.gen : Source(nat, g) = s})
             p == [g \in Gens |-> IF g \in lost THEN 0 ELSE n.permit[g]]
  <1>3. nat' = [n EXCEPT !.permit = p]
    BY <1>1
  <1>4. {g \in nat.gen : Source(nat, g) = s} \in SUBSET nat.gen
    OBVIOUS
  <1>5. generation \in 0..MaxGen /\ RelayTypes /\ nat \in NatTables /\ Sound(nat, generation)
    BY Facts
  <1>6. /\ n \in NatTables /\ Sound(n, generation) /\ Follows(nat, n, generation)
        /\ n.permit = nat.permit
    BY <1>4, <1>5, RemoveSound
  <1> HIDE DEF n
  <1>7. /\ p \in [Gens -> 0..ActiveLife]
        /\ \A g \in Gens : p[g] = n.permit[g] \/ p[g] = 0
    BY <1>6, Fields, LifeTimes
  <1> HIDE DEF p
  <1>8. /\ nat' \in NatTables /\ Sound(nat', generation) /\ nat'.permit = p
        /\ nat'.gen = n.gen /\ nat'.obj = n.obj /\ (Vacant(n) => Vacant(nat'))
    BY <1>3, <1>5, <1>6, <1>7, PermitSound
  <1>9. Follows(nat, nat', generation)
    BY <1>6, <1>8 DEF Follows
  <1>10. \A g \in Gens : nat'.permit[g] > 0 => nat.permit[g] > 0
    BY <1>6, <1>7, <1>8
  <1>11. RelayTypes'
    BY <1>2, <1>5 DEF RelayTypes
  <1>12. QED
    BY <1>2, <1>8, <1>9, <1>10, <1>11, PolicyStep

LEMMA SuspendKeeps == ASSUME RelayIInv, Suspend PROVE RelayIInv'
  <1>1. /\ suspended' = TRUE /\ nat' = Emptied(nat)
        /\ UNCHANGED <<generation, stop, quiesced, backlog, acc, w, hold, conns, open, slots>>
    BY DEF Suspend, relay, Emptied
  <1>2. generation \in 0..MaxGen /\ RelayTypes /\ nat \in NatTables /\ Sound(nat, generation)
    BY Facts
  <1>3. Sound(nat', generation) /\ Vacant(nat') /\ Follows(nat, nat', generation)
    BY <1>1, <1>2, SuspendSound
  <1>4. \A g \in Gens : nat'.permit[g] > 0 => nat.permit[g] > 0
    BY <1>3 DEF Vacant
  <1>5. suspended' \in BOOLEAN
    BY <1>1, Zenon
  <1>6. RelayTypes'
    BY <1>1, <1>2, <1>5 DEF RelayTypes
  <1>7. QED
    BY <1>1, <1>3, <1>4, <1>6, PolicyStep

LEMMA TickKeeps == ASSUME RelayIInv, Tick PROVE RelayIInv'
  <1>1. /\ nat' = Ticked(nat)
        /\ UNCHANGED <<suspended, generation, stop, quiesced, backlog, acc, w, hold, conns, open, slots>>
    BY DEF Tick, relay, Ticked
  <1>2. generation \in 0..MaxGen /\ RelayTypes /\ nat \in NatTables /\ Sound(nat, generation)
    BY Facts
  <1>3. /\ Sound(nat', generation) /\ Follows(nat, nat', generation)
        /\ \A g \in Gens : nat'.permit[g] > 0 => nat.permit[g] > 0
    BY <1>1, <1>2, TickSound
  <1>4. RelayTypes'
    BY <1>1, <1>2 DEF RelayTypes
  <1>5. QED
    BY <1>1, <1>3, <1>4, PolicyStep

LEMMA CreateRelayMappingKeeps == ASSUME RelayIInv, CreateRelayMapping PROVE RelayIInv'
  <1> DEFINE n == Cleaned(nat)
             g == generation + 1
  <1>1. PICK f \in Flows, sent \in BOOLEAN :
          LET m == Inserted(n, f, g)
          IN  /\ n.fwd[f] = NoGen /\ ~Refused(n, f)
              /\ generation' = g
              /\ IF n.rev[ClientOf[f]] # NoGen
                 THEN nat' = n /\ UNCHANGED backlog
                 ELSE /\ nat' = IF sent THEN m ELSE Closed(m, g)
                      /\ IF sent THEN Arrives(m, g) ELSE UNCHANGED backlog
    BY DEF CreateRelayMapping
  <1>2. /\ ~suspended /\ generation < MaxGen
        /\ UNCHANGED <<suspended, stop, quiesced, acc, w, hold, conns, open, slots>>
    BY DEF CreateRelayMapping
  <1> DEFINE m == Inserted(n, f, g)
  <1>3. /\ n \in NatTables /\ Sound(n, generation) /\ Follows(nat, n, generation)
        /\ n.permit = nat.permit /\ InTime(n)
    BY CleanFacts
  <1> HIDE DEF n
  <1>4. generation \in 0..MaxGen /\ generation \in Nat /\ MaxGen \in Nat /\ RelayTypes
    BY Facts, RelayConstants
  <1>5. n.fwd[f] = NoGen /\ n.rev[ClientOf[f]] = NoGen /\ n.cli[ClientOf[f]] = NoGen
    BY <1>1, <1>3, <1>4, FreeTuple
  <1>6. /\ g \in Gens /\ g \in 0..MaxGen /\ g \in 1..g /\ g \notin 1..generation /\ g # NoGen
        /\ g = generation + 1
    BY <1>2, <1>4 DEF Gens, NoGen
  <1>7. /\ nat' = (IF sent THEN m ELSE Closed(m, g)) /\ generation' = g
        /\ IF sent THEN Arrives(m, g) ELSE UNCHANGED backlog
    BY <1>1, <1>5
  <1> HIDE DEF g
  <1>8. /\ m \in NatTables /\ Sound(m, g) /\ m.permit = n.permit /\ m.gen = n.gen \cup {g}
        /\ \A h \in 1..generation : m.obj[h] = n.obj[h]
        /\ m.obj[g] \in Mapping /\ m.obj[g].active = FALSE
    <2>1. n \in NatTables /\ Sound(n, generation) /\ generation \in 0..MaxGen
      BY <1>3, <1>4
    <2>2. Fresh(g, generation) /\ Free(n, f)
      BY <1>5, <1>6 DEF Fresh, Free
    <2>3. Grown(n, m, generation, g)
      BY <2>1, <2>2, InsertSound
    <2>4. QED
      BY <2>3 DEF Grown
  <1>9. \A h \in 1..generation : h \in 1..g
    BY <1>4, <1>6
  <1> HIDE DEF m
  <1>10. /\ nat' \in NatTables /\ Sound(nat', g) /\ Follows(m, nat', g) /\ nat'.permit = m.permit
    <2>1. CASE sent
      BY <1>7, <1>8, <2>1 DEF Follows
    <2>2. CASE ~sent
      BY <1>6, <1>7, <1>8, <2>2, CloseSound
    <2>3. QED
      BY <2>1, <2>2
  <1>11. \A h \in 1..generation : nat'.obj[h].flow = nat.obj[h].flow
    BY <1>3, <1>8, <1>9, <1>10 DEF Follows
  <1>12. \A h \in nat'.gen : h # g => /\ h \in nat.gen
                                      /\ nat.obj[h].consumed => nat'.obj[h].consumed
                                      /\ nat'.obj[h].active => nat.obj[h].active
    <2>1. \A h \in nat'.gen : h # g => h \in n.gen /\ h \in 1..generation
      BY <1>3, <1>8, <1>10 DEF Follows, Sound, Found
    <2>2. QED
      BY <1>3, <1>8, <1>10, <2>1 DEF Follows
  <1>13. g \in nat'.gen => ~nat'.obj[g].active
    BY <1>8, <1>10 DEF Follows
  <1>14. w[g] = "none" /\ acc.gen # g
    BY <1>6 DEF RelayIInv, Handed
  <1>15. Handed(nat)'
    <2>1. (acc.at = "accept" <=> acc.gen = NoGen)'
      BY <1>2 DEF RelayIInv, Handed
    <2>2. (acc.gen # NoGen => acc.gen \in 1..generation /\ w[acc.gen] = "none")'
      BY <1>2, <1>7, <1>9 DEF RelayIInv, Handed
    <2>3. (\A h \in Gens : w[h] # "none" => h \in 1..generation)'
      BY <1>2, <1>7, <1>9 DEF RelayIInv, Handed
    <2>4. (\A h \in nat.gen : w[h] # "none" \/ acc.gen = h => nat.obj[h].consumed)'
      BY <1>2, <1>12, <1>14 DEF RelayIInv, Handed
    <2>5. (\A h \in nat.gen : nat.obj[h].active =>
             w[h] \in {"relay", "finally", "closing", "unmap", "gone"})'
      BY <1>2, <1>12, <1>13 DEF RelayIInv, Handed
    <2>6. QED
      BY <2>1, <2>2, <2>3, <2>4, <2>5 DEF Handed
  <1>16. SlotsCounted(nat)'
    BY <1>2, <1>11, SlotsKept
  <1>17. PermitsHeld(nat)' /\ (\A h \in Gens : SlotOf(w[h], hold[h]))'
    BY <1>2, <1>3, <1>8, <1>10 DEF RelayIInv, PermitsHeld
  <1>18. RelayTypes'
    <2>1. backlog' \subseteq Clients
      <3>1. Given(m, g) /\ backlog \subseteq Clients
        BY <1>4, <1>8 DEF Sound, RelayTypes
      <3>2. QED
        BY <1>6, <1>7, <1>8, <3>1, ArrivesTypes
    <2>2. QED
      BY <1>2, <1>4, <1>6, <1>7, <2>1 DEF RelayTypes
  <1>19. QED
    BY <1>2, <1>7, <1>10, <1>15, <1>16, <1>17, <1>18 DEF RelayIInv

-----------------------------------------------------------------------------
(* The steps of the accept loop, of stop() and of quiesce() *)

LEMMA AcceptKeeps == ASSUME RelayIInv, Accept PROVE RelayIInv'
  <1>1. PICK c \in backlog, withinRate \in BOOLEAN :
          LET n == IF withinRate THEN Cleaned(nat) ELSE nat
              g == n.cli[c]
          IN  /\ backlog' = backlog \ {c}
              /\ IF withinRate /\ Consumable(n, c)
                 THEN /\ nat' = [n EXCEPT !.obj[g].consumed = TRUE, !.obj[g].left = PendingLife]
                      /\ acc' = [at |-> IF quiesced THEN "retire" ELSE "admit", gen |-> g]
                 ELSE nat' = n /\ UNCHANGED acc
    BY DEF Accept
  <1>2. /\ acc = Accepting
        /\ UNCHANGED <<suspended, generation, stop, quiesced, w, hold, conns, open, slots>>
    BY DEF Accept
  <1> DEFINE n == IF withinRate THEN Cleaned(nat) ELSE nat
             g == n.cli[c]
  <1>3. generation \in 0..MaxGen /\ RelayTypes /\ c \in Clients /\ backlog' \subseteq Clients
    BY <1>1, Facts DEF RelayTypes
  <1>4. /\ n \in NatTables /\ Sound(n, generation) /\ Follows(nat, n, generation)
        /\ n.permit = nat.permit
    BY CleanFacts, Facts
  <1>5. CASE ~(withinRate /\ Consumable(n, c))
    <2>1. nat' = n /\ acc' = acc
      BY <1>1, <1>5
    <2>2. RelayTypes'
      BY <1>2, <1>3, <2>1 DEF RelayTypes
    <2> HIDE DEF n
    <2>3. QED
      BY <1>2, <1>4, <2>1, <2>2, PolicyStep
  <1>6. CASE withinRate /\ Consumable(n, c)
    <2>1. /\ nat' = [n EXCEPT !.obj[g].consumed = TRUE, !.obj[g].left = PendingLife]
          /\ acc' = [at |-> IF quiesced THEN "retire" ELSE "admit", gen |-> g]
      BY <1>1, <1>6
    <2>2. g # NoGen /\ ~n.obj[g].consumed
      BY <1>6 DEF Consumable
    <2> HIDE DEF n
    <2>3. g \in n.gen
      BY <1>3, <1>4, <2>2 DEF Sound, Keyed
    <2>4. g \in 1..generation /\ g \in Gens /\ g \in nat.gen
      BY <1>3, <1>4, <2>3, GivenMappings DEF Sound, Found, Follows
    <2> HIDE DEF g
    <2>5. w[g] = "none"
      BY <1>4, <2>2, <2>3, <2>4 DEF RelayIInv, Handed, Follows
    <2>6. /\ nat' \in NatTables /\ Sound(nat', generation) /\ Follows(n, nat', generation)
          /\ nat'.permit = nat.permit /\ nat'.obj[g].consumed
      BY <1>3, <1>4, <2>1, <2>3, ConsumeSound
    <2>7. Follows(nat, nat', generation)
      BY <1>4, <2>6, FollowsOn
    <2>8. acc'.gen = g /\ acc'.at \in {"admit", "retire"} /\ acc' \in [at : {"accept", "admit", "retire"}, gen : Gens \cup {NoGen}]
      BY <2>1, <2>4
    <2>9. RelayTypes'
      BY <1>2, <1>3, <2>8 DEF RelayTypes
    <2>10. Handed(nat)'
      <3>1. (\A h \in nat.gen : w[h] # "none" \/ acc.gen = h => nat.obj[h].consumed)'
        BY <1>2, <2>6, <2>7, <2>8 DEF RelayIInv, Handed, Follows
      <3>2. (\A h \in nat.gen : nat.obj[h].active =>
               w[h] \in {"relay", "finally", "closing", "unmap", "gone"})'
        BY <1>2, <2>7 DEF RelayIInv, Handed, Follows
      <3>3. (\A h \in Gens : w[h] # "none" => h \in 1..generation)'
        BY <1>2 DEF RelayIInv, Handed
      <3>4. acc'.at # "accept" /\ acc'.gen # NoGen /\ acc'.gen \in 1..generation /\ w[acc'.gen] = "none"
        BY <2>2, <2>4, <2>5, <2>8
      <3>5. QED
        BY <1>2, <3>1, <3>2, <3>3, <3>4 DEF Handed
    <2>11. SlotsCounted(nat)'
      BY <1>2, <2>7, SlotsKept DEF Follows
    <2>12. PermitsHeld(nat)' /\ (\A h \in Gens : SlotOf(w[h], hold[h]))'
      BY <1>2, <2>6 DEF RelayIInv, PermitsHeld
    <2>13. (suspended => Vacant(nat))'
      BY <1>2, <2>7 DEF RelayIInv, Follows
    <2>14. QED
      BY <1>2, <2>6, <2>9, <2>10, <2>11, <2>12, <2>13 DEF RelayIInv
  <1>7. QED
    BY <1>5, <1>6

LEMMA RejectMappingKeeps == ASSUME RelayIInv, RejectMapping PROVE RelayIInv'
  <1>1. /\ acc.at # "accept" /\ nat' = Closed(nat, acc.gen) /\ acc' = Accepting
        /\ UNCHANGED <<suspended, generation, stop, quiesced, backlog, w, hold, conns, open, slots>>
    BY DEF RejectMapping
  <1>2. /\ generation \in 0..MaxGen /\ RelayTypes /\ nat \in NatTables /\ Sound(nat, generation)
    BY Facts
  <1>3. acc.gen \in 1..generation
    BY <1>1 DEF RelayIInv, Handed
  <1>4. /\ nat' \in NatTables /\ Sound(nat', generation) /\ Follows(nat, nat', generation)
        /\ nat'.permit = nat.permit
    BY <1>1, <1>2, <1>3, CloseSound
  <1>5. acc'.at = "accept" /\ acc'.gen = NoGen /\ acc' \in [at : {"accept", "admit", "retire"}, gen : Gens \cup {NoGen}]
    BY <1>1 DEF Accepting
  <1>6. RelayTypes'
    BY <1>1, <1>2, <1>5 DEF RelayTypes
  <1>7. Handed(nat)'
    <2>1. \A h \in nat'.gen : h # NoGen
      BY <1>4, Fields DEF Gens, NoGen
    <2>2. QED
      BY <1>1, <1>4, <1>5, <2>1 DEF RelayIInv, Handed, Follows
  <1>8. SlotsCounted(nat)'
    BY <1>1, <1>4, SlotsKept DEF Follows
  <1>9. PermitsHeld(nat)' /\ (\A h \in Gens : SlotOf(w[h], hold[h]))'
    BY <1>1, <1>4 DEF RelayIInv, PermitsHeld
  <1>10. QED
    BY <1>1, <1>4, <1>6, <1>7, <1>8, <1>9 DEF RelayIInv, Follows

LEMMA StopKeeps == ASSUME RelayIInv, StopSets \/ StopCloses \/ Quiesce PROVE RelayIInv'
  <1>1. UNCHANGED <<suspended, nat, generation, acc, w, hold, slots>>
    BY DEF StopSets, StopCloses, Quiesce, policy
  <1>2. RelayTypes /\ Follows(nat, nat, generation) /\ Sound(nat, generation)
    BY Facts
  <1>3. /\ backlog' \subseteq Clients /\ conns' \subseteq Sockets /\ open' \subseteq Sockets
        /\ stop' \in {"running", "set", "closed"}
    BY <1>2 DEF StopSets, StopCloses, Quiesce, RelayTypes
  <1>4. quiesced' \in BOOLEAN
    <2>1. quiesced \in BOOLEAN /\ (quiesced' = quiesced \/ quiesced' = TRUE)
      BY <1>2 DEF StopSets, StopCloses, Quiesce, RelayTypes
    <2>2. QED
      BY <2>1, Zenon
  <1>5. RelayTypes'
    BY <1>1, <1>2, <1>3, <1>4 DEF RelayTypes
  <1>6. QED
    BY <1>1, <1>2, <1>5, PolicyStep

LEMMA StartWorkerKeeps == ASSUME RelayIInv, StartWorker PROVE RelayIInv'
  <1> DEFINE g == acc.gen
             s == Source(nat, g)
  <1>1. /\ acc.at = "admit" /\ slots' = [slots EXCEPT !.pend[s] = @ + 1]
        /\ w' = [w EXCEPT ![g] = "new"] /\ hold' = [hold EXCEPT ![g] = "pending"]
        /\ open' = open \cup {<<g, "client">>} /\ acc' = Accepting
        /\ UNCHANGED <<suspended, nat, generation, stop, quiesced, backlog, conns>>
    BY DEF StartWorker, policy
  <1>2. /\ generation \in 0..MaxGen /\ RelayTypes /\ nat \in NatTables /\ Sound(nat, generation)
        /\ Given(nat, generation)
    BY Facts
  <1>3. g # NoGen /\ g \in 1..generation /\ w[g] = "none"
    BY <1>1 DEF RelayIInv, Handed
  <1>4. g \in Gens /\ s \in Sources
    BY <1>2, <1>3, GivenMappings
  <1>5. hold[g] = "none"
    BY <1>3, <1>4 DEF RelayIInv, SlotOf
  <1>6. \A x \in nat.gen : x \in Gens /\ x # NoGen
    BY <1>2, Fields DEF Gens, NoGen
  <1> HIDE DEF g, s
  <1>7. /\ w'[g] = "new" /\ hold'[g] = "pending"
        /\ \A x \in Gens : x # g => w'[x] = w[x] /\ hold'[x] = hold[x]
        /\ w' \in [Gens -> AtWorker] /\ hold' \in [Gens -> {"none", "pending", "active"}]
    BY <1>1, <1>2, <1>4 DEF RelayTypes, AtWorker
  <1>8. /\ acc'.at = "accept" /\ acc'.gen = NoGen
        /\ acc' \in [at : {"accept", "admit", "retire"}, gen : Gens \cup {NoGen}]
    BY <1>1 DEF Accepting
  <1>9. /\ slots' \in [pend : [Sources -> Nat], act : [Sources -> Nat]]
        /\ slots'.pend[s] = slots.pend[s] + 1 /\ slots'.act = slots.act
        /\ \A x \in Sources : x # s => slots'.pend[x] = slots.pend[x]
    BY <1>1, <1>2, <1>4 DEF RelayTypes
  <1>10. RelayTypes'
    BY <1>1, <1>2, <1>4, <1>7, <1>8, <1>9 DEF RelayTypes, Sockets
  <1>11. Handed(nat)'
    <2>1. \A x \in Gens : w'[x] # "none" => x \in 1..generation
      BY <1>3, <1>7 DEF RelayIInv, Handed
    <2>2. \A x \in nat.gen : w'[x] # "none" => nat.obj[x].consumed
      BY <1>6, <1>7 DEF RelayIInv, Handed, g
    <2>3. \A x \in nat.gen : nat.obj[x].active =>
            w'[x] \in {"relay", "finally", "closing", "unmap", "gone"}
      <3>1. g \in nat.gen => ~nat.obj[g].active
        BY <1>3 DEF RelayIInv, Handed
      <3>2. QED
        BY <1>6, <1>7, <3>1 DEF RelayIInv, Handed
    <2>4. QED
      BY <1>1, <1>6, <1>8, <2>1, <2>2, <2>3 DEF Handed
  <1>12. SlotsCounted(nat)'
    <2>1. hold \in [Gens -> {"none", "pending", "active"}]
      BY <1>2 DEF RelayTypes
    <2>2. /\ \A x \in Sources : Cardinality(Holding(nat, hold', "active", x))
                                  = Cardinality(Holding(nat, hold, "active", x))
          /\ \A x \in Sources : x # s => Cardinality(Holding(nat, hold', "pending", x))
                                           = Cardinality(Holding(nat, hold, "pending", x))
          /\ Cardinality(Holding(nat, hold', "pending", s))
               = Cardinality(Holding(nat, hold, "pending", s)) + 1
      <3>1. ASSUME NEW x \in Sources, NEW kind \in {"pending", "active"}
            PROVE  LET c == Cardinality(Holding(nat, hold, kind, x))
                       d == Cardinality(Holding(nat, hold', kind, x))
                   IN  /\ s # x => d = c
                       /\ s = x /\ kind = "pending" => d = c + 1
                       /\ kind # "pending" => d = c
        <4>1. /\ kind # "none" /\ hold'[g] = "pending" /\ hold'[g] # hold[g] /\ kind # hold[g]
              /\ \A y \in Gens : y # g => hold'[y] = hold[y]
          BY <1>5, <1>7
        <4>2. QED
          BY <1>4, <2>1, <4>1, HoldMoves DEF s
      <3>2. QED
        BY <1>4, <3>1
    <2>3. QED
      BY <1>1, <1>4, <1>9, <2>2 DEF RelayIInv, SlotsCounted
  <1>13. PermitsHeld(nat)' /\ (\A x \in Gens : SlotOf(w[x], hold[x]))'
    BY <1>1, <1>3, <1>7 DEF RelayIInv, PermitsHeld, SlotOf
  <1>14. QED
    BY <1>1, <1>2, <1>10, <1>11, <1>12, <1>13 DEF RelayIInv

-----------------------------------------------------------------------------
(* The steps of a worker *)

\* The point a step leaves from and goes to.
LEMMA GoIs ==
    ASSUME RelayIInv, NEW g \in Gens, NEW from, from # "none", NEW to \in AtWorker, Go(g, from, to)
    PROVE  /\ w[g] = from /\ w[g] # "none" /\ w' = [w EXCEPT ![g] = to] /\ w' \in [Gens -> AtWorker]
           /\ g \in 1..generation /\ Source(nat, g) \in Sources
           /\ SlotOf(from, hold[g]) /\ hold[g] \in {"none", "pending", "active"}
  <1>1. w[g] = from /\ w' = [w EXCEPT ![g] = to]
    BY DEF Go
  <1>2. w \in [Gens -> AtWorker] /\ hold \in [Gens -> {"none", "pending", "active"}]
    BY DEF RelayIInv, RelayTypes
  <1>3. g \in 1..generation
    BY <1>1 DEF RelayIInv, Handed
  <1>4. Source(nat, g) \in Sources
    BY <1>3, Facts, GivenMappings
  <1>5. QED
    BY <1>1, <1>2, <1>3, <1>4 DEF RelayIInv

\* A step that touches neither the policy nor the slots.
LEMMA PlainMove ==
    ASSUME RelayIInv, NEW g \in Gens, NEW from, from # "none", NEW to \in AtWorker, Go(g, from, to),
           Others, UNCHANGED <<nat, hold, slots>>, conns' \subseteq Sockets, open' \subseteq Sockets,
           from \in Late => to \in Late, SlotOf(to, hold[g]), to # "none",
           nat.permit[g] > 0 => to \in {"connect", "relay", "finally"}
    PROVE  RelayIInv'
  <1>1. w[g] = from /\ w[g] # "none" /\ w' = [w EXCEPT ![g] = to] /\ w' \in [Gens -> AtWorker]
    BY GoIs
  <1>2. UNCHANGED <<suspended, generation, stop, quiesced, backlog, acc>>
    BY DEF Others
  <1>3. RelayTypes /\ Sound(nat, generation) /\ Follows(nat, nat, generation)
    BY Facts
  <1>4. RelayTypes'
    BY <1>1, <1>2, <1>3 DEF RelayTypes
  <1>5. SlotsCounted(nat)'
    BY SlotsKept
  <1>6. QED
    BY <1>1, <1>2, <1>3, <1>4, <1>5, WorkerMoves

LEMMA QuietMoves ==
    ASSUME RelayIInv, NEW g \in Gens,
           \/ AddClient(g) \/ TestStop(g) \/ HelloFails(g) \/ UpstreamFails(g) \/ RelayEnds(g)
           \/ CloseSockets(g)
    PROVE  RelayIInv'
  <1>1. /\ conns \subseteq Sockets /\ open \subseteq Sockets
        /\ <<g, "client">> \in Sockets /\ <<g, "upstream">> \in Sockets
    BY DEF RelayIInv, RelayTypes, Sockets
  <1>2. /\ AtWorker \ {"none"} = {"new", "added", "hello", "socket", "register",
             "connect", "relay", "finally", "closing", "unmap", "gone"}
        /\ \A x \in Gens : SlotOf(w[x], hold[x])
        /\ nat.permit[g] > 0 => w[g] \in {"connect", "relay", "finally"}
    BY DEF AtWorker, RelayIInv, PermitsHeld
  <1>3. CASE AddClient(g)
    <2>1. /\ Go(g, "new", "added") /\ Others /\ UNCHANGED <<nat, hold, slots>>
          /\ conns' \subseteq Sockets /\ open' \subseteq Sockets
      BY <1>1, <1>3 DEF AddClient
    <2>2. w[g] = "new" /\ SlotOf("added", hold[g])
      BY <1>2, <2>1 DEF Go, SlotOf
    <2>3. QED
      BY <1>2, <2>1, <2>2, PlainMove DEF Late
  <1>4. CASE TestStop(g)
    <2>1. PICK to \in {"hello", "finally"} : Go(g, "added", to)
      BY <1>4 DEF TestStop, Else
    <2>2. /\ Others /\ UNCHANGED <<nat, hold, slots>>
          /\ conns' \subseteq Sockets /\ open' \subseteq Sockets
      BY <1>1, <1>4 DEF TestStop
    <2>3. w[g] = "added" /\ SlotOf(to, hold[g])
      BY <1>2, <2>1 DEF Go, SlotOf
    <2>4. QED
      BY <1>2, <2>1, <2>2, <2>3, PlainMove DEF Late
  <1>5. CASE HelloFails(g)
    <2>1. /\ Go(g, "hello", "finally") /\ Others /\ UNCHANGED <<nat, hold, slots>>
          /\ conns' \subseteq Sockets /\ open' \subseteq Sockets
      BY <1>1, <1>5 DEF HelloFails
    <2>2. QED
      BY <1>2, <2>1, PlainMove DEF Late, SlotOf
  <1>6. CASE UpstreamFails(g)
    <2>1. PICK from \in {"socket", "connect"} : Go(g, from, "finally")
      BY <1>6 DEF UpstreamFails
    <2>2. /\ Others /\ UNCHANGED <<nat, hold, slots>>
          /\ conns' \subseteq Sockets /\ open' \subseteq Sockets
      BY <1>1, <1>6 DEF UpstreamFails
    <2>3. QED
      BY <1>2, <2>1, <2>2, PlainMove DEF Late, SlotOf
  <1>7. CASE RelayEnds(g)
    <2>1. /\ Go(g, "relay", "finally") /\ Others /\ UNCHANGED <<nat, hold, slots>>
          /\ conns' \subseteq Sockets /\ open' \subseteq Sockets
      BY <1>1, <1>7 DEF RelayEnds
    <2>2. QED
      BY <1>2, <2>1, PlainMove DEF Late, SlotOf
  <1>8. CASE CloseSockets(g)
    <2>1. /\ Go(g, "closing", "unmap") /\ Others /\ UNCHANGED <<nat, hold, slots>>
          /\ conns' \subseteq Sockets /\ open' \subseteq Sockets
      BY <1>1, <1>8 DEF CloseSockets
    <2>2. w[g] = "closing" /\ SlotOf("unmap", hold[g])
      BY <1>2, <2>1 DEF Go, SlotOf
    <2>3. QED
      BY <1>2, <2>1, <2>2, PlainMove DEF Late
  <1>9. QED
    BY <1>3, <1>4, <1>5, <1>6, <1>7, <1>8

\* A slot is given up, or exchanged for another: the counters follow.
LEMMA SlotsMoved ==
    ASSUME RelayIInv, NEW g \in 1..generation, nat'.obj = nat.obj,
           hold[g] # "none", hold'[g] # hold[g],
           \A x \in Gens : x # g => hold'[x] = hold[x],
           \A x \in Sources : x # Source(nat, g) =>
               slots'.pend[x] = slots.pend[x] /\ slots'.act[x] = slots.act[x],
           LET s == Source(nat, g) IN
           /\ slots'.pend[s] = IF hold[g] = "pending" THEN Less(slots.pend[s], 1)
                               ELSE IF hold'[g] = "pending" THEN slots.pend[s] + 1 ELSE slots.pend[s]
           /\ slots'.act[s] = IF hold[g] = "active" THEN Less(slots.act[s], 1)
                              ELSE IF hold'[g] = "active" THEN slots.act[s] + 1 ELSE slots.act[s]
    PROVE  SlotsCounted(nat)'
  <1> DEFINE s == Source(nat, g)
             k == hold'[g]
  <1>1. g \in Gens /\ s \in Sources
    BY Facts, GivenMappings
  <1>2. hold \in [Gens -> {"none", "pending", "active"}]
    BY DEF RelayIInv, RelayTypes
  <1>3. ASSUME NEW x \in Sources, NEW kind \in {"pending", "active"}
        PROVE  LET c == Cardinality(Holding(nat, hold, kind, x))
                   d == Cardinality(Holding(nat', hold', kind, x))
               IN  /\ s # x => d = c
                   /\ s = x /\ kind = k => d = c + 1
                   /\ s = x /\ kind = hold[g] => d = Less(c, 1)
                   /\ kind # k /\ kind # hold[g] => d = c
    <2>1. hold'[g] # hold[g] /\ \A y \in Gens : y # g => hold'[y] = hold[y]
      OBVIOUS
    <2> DEFINE c == Cardinality(Holding(nat, hold, kind, x))
               d == Cardinality(Holding(nat, hold', kind, x))
    <2>2. /\ Source(nat, g) # x => d = c
          /\ Source(nat, g) = x /\ kind = hold'[g] => d = c + 1
          /\ Source(nat, g) = x /\ kind = hold[g] => d = Less(c, 1)
          /\ kind # hold'[g] /\ kind # hold[g] => d = c
      BY <1>1, <1>2, <2>1, HoldMoves
    <2>3. Holding(nat', hold', kind, x) = Holding(nat, hold', kind, x)
      BY DEF Holding, Source, Client
    <2> HIDE DEF c, d
    <2>4. QED
      BY <2>2, <2>3 DEF c, d
  <1>4. \A x \in Sources : /\ slots.pend[x] = Cardinality(Holding(nat, hold, "pending", x))
                           /\ slots.act[x] = Cardinality(Holding(nat, hold, "active", x))
    BY DEF RelayIInv, SlotsCounted
  <1>5. \A x \in Sources : slots'.pend[x] = Cardinality(Holding(nat', hold', "pending", x))
    <2>1. ASSUME NEW x \in Sources, x # s
          PROVE  slots'.pend[x] = Cardinality(Holding(nat', hold', "pending", x))
      BY <1>3, <1>4, <2>1
    <2>2. slots'.pend[s] = Cardinality(Holding(nat', hold', "pending", s))
      BY <1>1, <1>3, <1>4
    <2>3. QED
      BY <2>1, <2>2
  <1>6. \A x \in Sources : slots'.act[x] = Cardinality(Holding(nat', hold', "active", x))
    <2>1. ASSUME NEW x \in Sources, x # s
          PROVE  slots'.act[x] = Cardinality(Holding(nat', hold', "active", x))
      BY <1>3, <1>4, <2>1
    <2>2. slots'.act[s] = Cardinality(Holding(nat', hold', "active", s))
      BY <1>1, <1>3, <1>4
    <2>3. QED
      BY <2>1, <2>2
  <1>7. QED
    BY <1>5, <1>6 DEF SlotsCounted

LEMMA HelloReadKeeps == ASSUME RelayIInv, NEW g \in Gens, HelloRead(g) PROVE RelayIInv'
  <1> DEFINE s == Source(nat, g)
             ok == ~Full(slots.act, s, MaxActive, MaxActivePerSource)
             to == IF ok THEN "socket" ELSE "finally"
             k == IF ok THEN "active" ELSE "none"
  <1>1. /\ Go(g, "hello", to) /\ hold' = [hold EXCEPT ![g] = k] /\ Others
        /\ UNCHANGED <<nat, conns, open>>
        /\ slots' = [slots EXCEPT !.pend[s] = Less(@, 1), !.act[s] = IF ok THEN @ + 1 ELSE @]
    BY DEF HelloRead, Else
  <1>2. to \in {"socket", "finally"} /\ k \in {"active", "none"} /\ (ok <=> k = "active")
        /\ SlotOf(to, k)
    BY DEF SlotOf
  <1> HIDE DEF to, s
  <1>3. to \in AtWorker
    BY <1>2 DEF AtWorker
  <1>4. /\ w[g] = "hello" /\ w[g] # "none" /\ w' = [w EXCEPT ![g] = to] /\ w' \in [Gens -> AtWorker]
        /\ g \in 1..generation /\ Source(nat, g) \in Sources
        /\ SlotOf("hello", hold[g])
    BY <1>1, <1>3, GoIs
  <1>5. hold[g] = "pending"
    BY <1>4 DEF SlotOf
  <1> HIDE DEF ok
  <1>6. /\ slots.pend \in [Sources -> Nat] /\ slots.act \in [Sources -> Nat] /\ s \in Sources
        /\ slots \in [pend : [Sources -> Nat], act : [Sources -> Nat]]
        /\ hold \in [Gens -> {"none", "pending", "active"}]
    BY <1>4 DEF RelayIInv, RelayTypes, s
  <1> DEFINE v == IF ok THEN slots.act[s] + 1 ELSE slots.act[s]
  <1>7. /\ Less(slots.pend[s], 1) \in Nat /\ v \in Nat
        /\ slots' = [slots EXCEPT !.pend = [slots.pend EXCEPT ![s] = Less(slots.pend[s], 1)],
                                  !.act = [slots.act EXCEPT ![s] = v]]
    <2>1. slots.pend[s] \in Nat /\ slots.act[s] \in Nat
      BY <1>6
    <2>2. Less(slots.pend[s], 1) \in Nat /\ v \in Nat
      BY <2>1, LessOne
    <2>3. QED
      BY <1>1, <1>6, <2>2
  <1>8. /\ slots' \in [pend : [Sources -> Nat], act : [Sources -> Nat]]
        /\ \A x \in Sources : x # s => slots'.pend[x] = slots.pend[x] /\ slots'.act[x] = slots.act[x]
        /\ slots'.pend[s] = Less(slots.pend[s], 1)
        /\ slots'.act[s] = v
    <2> HIDE DEF v
    <2>1. QED
      BY <1>6, <1>7
  <1> HIDE DEF k
  <1>9. /\ SlotsCounted(nat)' /\ slots' \in [pend : [Sources -> Nat], act : [Sources -> Nat]]
        /\ hold' \in [Gens -> {"none", "pending", "active"}]
        /\ hold'[g] = k /\ \A x \in Gens : x # g => hold'[x] = hold[x]
    <2>1. hold[g] # "none" /\ k \in {"none", "pending", "active"} /\ k # hold[g] /\ nat'.obj = nat.obj
      BY <1>1, <1>2, <1>5
    <2>2. s = Source(nat, g)
      BY DEF s
    <2>3. /\ hold' \in [Gens -> {"none", "pending", "active"}]
          /\ hold'[g] = k /\ \A x \in Gens : x # g => hold'[x] = hold[x]
      BY <1>1, <1>6, <2>1
    <2>4. /\ slots'.pend[s] = IF hold[g] = "pending" THEN Less(slots.pend[s], 1)
                              ELSE IF k = "pending" THEN slots.pend[s] + 1 ELSE slots.pend[s]
          /\ slots'.act[s] = IF hold[g] = "active" THEN Less(slots.act[s], 1)
                             ELSE IF k = "active" THEN slots.act[s] + 1 ELSE slots.act[s]
      BY <1>2, <1>5, <1>8
    <2> HIDE DEF v
    <2>5. SlotsCounted(nat)'
      BY <1>4, <1>8, <2>1, <2>2, <2>3, <2>4, SlotsMoved
    <2>6. QED
      BY <1>8, <2>3, <2>5
  <1>10. RelayTypes /\ Sound(nat, generation) /\ Follows(nat, nat, generation)
    BY Facts
  <1>11. RelayTypes'
    BY <1>1, <1>4, <1>9, <1>10 DEF RelayTypes, Others
  <1>12. ~(nat.permit[g] > 0)
    BY <1>4 DEF RelayIInv, PermitsHeld
  <1>13. /\ generation' = generation /\ suspended' = suspended /\ acc' = acc /\ nat' = nat
         /\ to # "none" /\ w[g] \notin Late /\ SlotOf(to, hold'[g])
    BY <1>1, <1>2, <1>4, <1>9 DEF Others, Late
  <1>14. QED
    BY <1>4, <1>9, <1>10, <1>11, <1>12, <1>13, WorkerMoves

LEMMA AddUpstreamKeeps == ASSUME RelayIInv, NEW g \in Gens, AddUpstream(g) PROVE RelayIInv'
  <1> DEFINE n == IF suspended \/ stopping THEN nat ELSE Cleaned(nat)
  <1>1. PICK to \in {"register", "finally"} : Go(g, "socket", to)
    BY DEF AddUpstream, Else
  <1>2. /\ nat' = n /\ Others /\ UNCHANGED <<hold, slots>>
        /\ conns' = conns \cup {<<g, "upstream">>} /\ open' = open \cup {<<g, "upstream">>}
    BY DEF AddUpstream
  <1>3. Sound(n, generation) /\ Follows(nat, n, generation) /\ n.permit = nat.permit
    BY CleanFacts, Facts
  <1> HIDE DEF n
  <1>4. to \in AtWorker /\ to # "none"
    BY <1>1 DEF AtWorker
  <1>5. /\ w[g] = "socket" /\ w[g] # "none" /\ w' = [w EXCEPT ![g] = to] /\ w' \in [Gens -> AtWorker]
        /\ SlotOf("socket", hold[g])
    BY <1>1, <1>4, GoIs
  <1>6. SlotOf(to, hold[g]) /\ w[g] \notin Late
    BY <1>1, <1>5 DEF SlotOf, Late
  <1>7. ~(nat.permit[g] > 0)
    BY <1>5 DEF RelayIInv, PermitsHeld
  <1>8. RelayTypes /\ UNCHANGED <<suspended, generation, stop, quiesced, backlog, acc>>
    BY <1>2, Facts DEF Others
  <1>9. RelayTypes'
    BY <1>2, <1>5, <1>8 DEF RelayTypes, Sockets
  <1>10. SlotsCounted(nat)'
    BY <1>2, <1>3, SlotsKept DEF Follows
  <1>11. QED
    BY <1>2, <1>3, <1>4, <1>5, <1>6, <1>7, <1>8, <1>9, <1>10, WorkerMoves

LEMMA RegisterCommitsKeeps == ASSUME RelayIInv, NEW g \in Gens, RegisterCommits(g) PROVE RelayIInv'
  <1> DEFINE ok == Mapped(nat, g) /\ Cardinality(Permits) < MaxPending + MaxActive
  <1>1. /\ Go(g, "register", IF ok THEN "connect" ELSE "finally")
        /\ nat' = (IF ok THEN [nat EXCEPT !.permit[g] = ActiveLife] ELSE nat)
        /\ Others /\ UNCHANGED <<hold, conns, open, slots>>
    BY DEF RegisterCommits, Else
  <1>2. ok => ~suspended
    BY DEF Mapped
  <1> HIDE DEF ok
  <1>3. PICK to \in {"connect", "finally"} : Go(g, "register", to)
    BY <1>1
  <1>4. to \in AtWorker /\ to # "none"
    BY <1>3 DEF AtWorker
  <1>5. /\ w[g] = "register" /\ w[g] # "none" /\ w' = [w EXCEPT ![g] = to] /\ w' \in [Gens -> AtWorker]
        /\ SlotOf("register", hold[g])
    BY <1>3, <1>4, GoIs
  <1>6. SlotOf(to, hold[g]) /\ w[g] \notin Late
    BY <1>3, <1>5 DEF SlotOf, Late
  <1>7. /\ RelayTypes /\ nat \in NatTables /\ generation \in 0..MaxGen
        /\ Sound(nat, generation) /\ Follows(nat, nat, generation)
        /\ UNCHANGED <<suspended, generation, stop, quiesced, backlog, acc>>
    BY <1>1, Facts DEF Others
  <1>8. RelayTypes'
    BY <1>1, <1>5, <1>7 DEF RelayTypes
  <1>9. CASE ~ok
    <2>1. nat' = nat
      BY <1>1, <1>9
    <2>2. SlotsCounted(nat)'
      BY <1>1, <2>1, SlotsKept
    <2>3. QED
      BY <1>1, <1>3, <1>4, <1>5, <1>6, <1>7, <1>8, <2>1, <2>2, WorkerMoves
  <1>10. CASE ok
    <2> DEFINE p == [nat.permit EXCEPT ![g] = ActiveLife]
    <2>1. p \in [Gens -> 0..ActiveLife] /\ \A x \in Gens : x # g => p[x] = nat.permit[x]
      BY <1>7, Fields, LifeTimes
    <2>2. nat' = [nat EXCEPT !.permit = p]
      BY <1>1, <1>7, <1>10 DEF NatTables
    <2> HIDE DEF p
    <2>3. /\ Sound(nat', generation) /\ nat'.permit = p /\ nat'.gen = nat.gen /\ nat'.obj = nat.obj
      BY <1>7, <2>1, <2>2, PermitSound
    <2>4. SlotsCounted(nat)'
      BY <1>1, <2>3, SlotsKept
    <2>5. (suspended => Vacant(nat))' /\ Sound(nat, generation)'
      BY <1>2, <1>7, <1>10, <2>3
    <2>6. w'[g] = to /\ \A x \in Gens : x # g => w'[x] = w[x]
      BY <1>5, <1>7 DEF RelayTypes
    <2>7. PermitsHeld(nat)'
      BY <1>3, <2>1, <2>3, <2>6 DEF RelayIInv, PermitsHeld
    <2>8. (\A x \in Gens : SlotOf(w[x], hold[x]))'
      BY <1>1, <1>6, <2>6 DEF RelayIInv
    <2>9. Handed(nat)'
      <3>1. \A x \in Gens : w'[x] # "none" <=> w[x] # "none"
        BY <1>4, <1>5, <2>6
      <3>2. nat.gen \subseteq Gens
        BY <1>7, Fields
      <3>3. \A x \in nat.gen : nat.obj[x].active => w'[x] \in Late
        BY <1>6, <2>6, <3>2 DEF RelayIInv, Handed, Late
      <3>4. (acc.gen # NoGen => acc.gen \in 1..generation /\ w[acc.gen] = "none")'
        <4>1. acc.gen # NoGen => acc.gen \in Gens
          BY <1>7 DEF RelayTypes
        <4>2. QED
          BY <1>7, <3>1, <4>1 DEF RelayIInv, Handed
      <3>5. QED
        BY <1>7, <2>3, <3>1, <3>2, <3>3, <3>4 DEF RelayIInv, Handed, Late
    <2>10. QED
      BY <1>8, <2>4, <2>5, <2>7, <2>8, <2>9 DEF RelayIInv
  <1>11. QED
    BY <1>9, <1>10

LEMMA ActivateKeeps == ASSUME RelayIInv, NEW g \in Gens, Activate(g) PROVE RelayIInv'
  <1> DEFINE s == Source(nat, g)
             ok == /\ g \in nat.gen /\ nat.obj[g].consumed
                   /\ ~Full(nat.act, s, MaxActive, MaxActivePerSource)
             m == [nat EXCEPT !.pend[s] = Less(@, 1), !.act[s] = @ + 1,
                              !.obj[g].active = TRUE, !.obj[g].left = ActiveLife]
  <1>1. /\ Go(g, "connect", IF ok THEN "relay" ELSE "finally") /\ nat' = (IF ok THEN m ELSE nat)
        /\ Others /\ UNCHANGED <<hold, conns, open, slots>>
    BY DEF Activate, Else
  <1>2. ok => g \in nat.gen
    OBVIOUS
  <1>3. /\ RelayTypes /\ nat \in NatTables /\ generation \in 0..MaxGen
        /\ Sound(nat, generation) /\ Follows(nat, nat, generation)
        /\ UNCHANGED <<suspended, generation, stop, quiesced, backlog, acc>>
    BY <1>1, Facts DEF Others
  <1>4. CASE ~ok
    <2>1. Go(g, "connect", "finally") /\ nat' = nat
      BY <1>1, <1>4
    <2>2. conns' \subseteq Sockets /\ open' \subseteq Sockets
      BY <1>1, <1>3 DEF RelayTypes
    <2>3. QED
      BY <1>1, <2>1, <2>2, PlainMove DEF Late, SlotOf, AtWorker
  <1>5. CASE ok
    <2>1. Go(g, "connect", "relay") /\ nat' = m
      BY <1>1, <1>5
    <2>2. "relay" \in AtWorker
      BY DEF AtWorker
    <2>3. /\ w[g] = "connect" /\ w[g] # "none" /\ w' = [w EXCEPT ![g] = "relay"]
          /\ w' \in [Gens -> AtWorker] /\ g \in 1..generation /\ SlotOf("connect", hold[g])
      BY <2>1, <2>2, GoIs
    <2>4. g \in nat.gen /\ ~nat.obj[g].active
      BY <1>2, <1>5, <2>3 DEF RelayIInv, Handed
    <2> HIDE DEF ok
    <2>5. /\ Sound(nat', generation) /\ nat'.permit = nat.permit /\ nat'.gen = nat.gen
          /\ \A h \in Gens : /\ nat'.obj[h].flow = nat.obj[h].flow
                             /\ nat'.obj[h].consumed = nat.obj[h].consumed
                             /\ h # g => nat'.obj[h] = nat.obj[h]
      <3>1. nat' = Activated(nat, g)
        BY <2>1 DEF Activated
      <3> HIDE DEF m
      <3>2. QED
        BY <1>3, <2>4, <3>1, ActivateSound
    <2> HIDE DEF m
    <2>6. ~suspended
      BY <2>4 DEF RelayIInv, Vacant
    <2>7. w'[g] = "relay" /\ \A x \in Gens : x # g => w'[x] = w[x]
      BY <1>3, <2>3 DEF RelayTypes
    <2>8. RelayTypes'
      BY <1>1, <1>3, <2>3 DEF RelayTypes
    <2>9. nat.gen \subseteq Gens /\ \A h \in 1..generation : h \in Gens
      <3>1. \A h \in 1..generation : h \in Gens
        BY Facts, GivenMappings
      <3>2. QED
        BY <1>3, <3>1, Fields
    <2>10. SlotsCounted(nat)'
      BY <1>1, <2>5, <2>9, SlotsKept
    <2>11. PermitsHeld(nat)' /\ (\A x \in Gens : SlotOf(w[x], hold[x]))'
      <3>1. SlotOf("relay", hold[g])
        BY <2>3 DEF SlotOf
      <3>2. QED
        BY <1>1, <2>5, <2>7, <3>1 DEF RelayIInv, PermitsHeld
    <2>12. Handed(nat)'
      <3>1. \A x \in Gens : w'[x] # "none" <=> w[x] # "none"
        BY <2>3, <2>7
      <3>2. \A x \in nat.gen : nat'.obj[x].active => w'[x] \in Late
        BY <2>5, <2>7, <2>9 DEF RelayIInv, Handed, Late
      <3>3. (acc.gen # NoGen => acc.gen \in 1..generation /\ w[acc.gen] = "none")'
        <4>1. acc.gen # NoGen => acc.gen \in Gens
          BY <1>3 DEF RelayTypes
        <4>2. QED
          BY <1>3, <3>1, <4>1 DEF RelayIInv, Handed
      <3>4. \A x \in nat.gen : w'[x] # "none" \/ acc.gen = x => nat'.obj[x].consumed
        BY <2>5, <2>9, <3>1 DEF RelayIInv, Handed
      <3>5. QED
        BY <1>3, <2>5, <3>1, <3>2, <3>3, <3>4 DEF RelayIInv, Handed, Late
    <2>13. QED
      BY <1>3, <2>5, <2>6, <2>8, <2>10, <2>11, <2>12 DEF RelayIInv
  <1>6. QED
    BY <1>4, <1>5

LEMMA ReleaseSlotKeeps == ASSUME RelayIInv, NEW g \in Gens, ReleaseSlot(g) PROVE RelayIInv'
  <1> DEFINE s == Source(nat, g)
             u == IF hold[g] = "pending" THEN Less(slots.pend[s], 1) ELSE slots.pend[s]
             v == IF hold[g] = "active" THEN Less(slots.act[s], 1) ELSE slots.act[s]
  <1>1. /\ Go(g, "finally", "closing") /\ hold' = [hold EXCEPT ![g] = "none"]
        /\ nat' = [nat EXCEPT !.permit[g] = 0] /\ Others /\ UNCHANGED <<conns, open>>
    BY DEF ReleaseSlot
  <1>2. /\ RelayTypes /\ nat \in NatTables /\ generation \in 0..MaxGen
        /\ Sound(nat, generation) /\ Follows(nat, nat, generation)
        /\ UNCHANGED <<suspended, generation, stop, quiesced, backlog, acc>>
    BY <1>1, Facts DEF Others
  <1>3. "closing" \in AtWorker
    BY DEF AtWorker
  <1>4. /\ w[g] = "finally" /\ w[g] # "none" /\ w' = [w EXCEPT ![g] = "closing"]
        /\ w' \in [Gens -> AtWorker] /\ g \in 1..generation /\ s \in Sources
        /\ hold[g] \in {"none", "pending", "active"}
    BY <1>1, <1>3, GoIs
  <1>5. /\ slots.pend \in [Sources -> Nat] /\ slots.act \in [Sources -> Nat]
        /\ slots \in [pend : [Sources -> Nat], act : [Sources -> Nat]]
        /\ hold \in [Gens -> {"none", "pending", "active"}]
    BY <1>2 DEF RelayTypes
  <1>6. u \in Nat /\ v \in Nat
    <2>1. slots.pend[s] \in Nat /\ slots.act[s] \in Nat
      BY <1>4, <1>5
    <2>2. QED
      BY <2>1, LessOne
  <1>7. slots' = [slots EXCEPT !.pend = [slots.pend EXCEPT ![s] = u], !.act = [slots.act EXCEPT ![s] = v]]
    BY <1>5 DEF ReleaseSlot
  <1> HIDE DEF u, v, s
  <1>8. /\ slots' \in [pend : [Sources -> Nat], act : [Sources -> Nat]]
        /\ \A x \in Sources : x # s => slots'.pend[x] = slots.pend[x] /\ slots'.act[x] = slots.act[x]
        /\ slots'.pend[s] = u /\ slots'.act[s] = v
    BY <1>4, <1>5, <1>6, <1>7
  <1>9. /\ hold' \in [Gens -> {"none", "pending", "active"}]
        /\ hold'[g] = "none" /\ \A x \in Gens : x # g => hold'[x] = hold[x]
    BY <1>1, <1>5
  <1> DEFINE p == [nat.permit EXCEPT ![g] = 0]
  <1>10. /\ p \in [Gens -> 0..ActiveLife] /\ p[g] = 0
         /\ \A x \in Gens : x # g => p[x] = nat.permit[x]
    BY <1>2, Fields, LifeTimes
  <1>11. nat' = [nat EXCEPT !.permit = p]
    BY <1>1, <1>2 DEF NatTables
  <1> HIDE DEF p
  <1>12. /\ Sound(nat', generation) /\ nat'.permit = p /\ nat'.gen = nat.gen /\ nat'.obj = nat.obj
         /\ Vacant(nat) => Vacant(nat')
    <2>1. \A x \in Gens : nat.permit[x] = 0 => p[x] = 0
      BY <1>10
    <2>2. QED
      BY <1>2, <1>10, <1>11, <2>1, PermitSound
  <1>13. Follows(nat, nat', generation)
    BY <1>12 DEF Follows
  <1>14. SlotsCounted(nat)'
    <2>1. CASE hold[g] = "none"
      <3>1. hold' = hold
        BY <1>1, <1>5, <2>1
      <3>2. slots' = slots
        BY <1>4, <1>5, <1>7, <2>1 DEF u, v
      <3>3. QED
        BY <1>12, <3>1, <3>2, SlotsKept
    <2>2. CASE hold[g] # "none"
      <3>1. s = Source(nat, g) /\ hold'[g] # hold[g]
        BY <1>9, <2>2 DEF s
      <3>2. /\ slots'.pend[s] = IF hold[g] = "pending" THEN Less(slots.pend[s], 1)
                                ELSE IF hold'[g] = "pending" THEN slots.pend[s] + 1 ELSE slots.pend[s]
            /\ slots'.act[s] = IF hold[g] = "active" THEN Less(slots.act[s], 1)
                               ELSE IF hold'[g] = "active" THEN slots.act[s] + 1 ELSE slots.act[s]
        BY <1>8, <1>9 DEF u, v
      <3>3. QED
        BY <1>4, <1>8, <1>9, <1>12, <2>2, <3>1, <3>2, SlotsMoved
    <2>3. QED
      BY <2>1, <2>2
  <1>15. RelayTypes'
    BY <1>1, <1>2, <1>4, <1>8, <1>9 DEF RelayTypes
  <1>16. /\ SlotOf("closing", hold'[g]) /\ "closing" \in Late
         /\ \A x \in Gens : x # g => (nat'.permit[x] > 0 => nat.permit[x] > 0)
         /\ ~(nat'.permit[g] > 0)
    BY <1>9, <1>10, <1>12 DEF SlotOf, Late
  <1>17. QED
    BY <1>2, <1>4, <1>9, <1>12, <1>13, <1>14, <1>15, <1>16, WorkerMoves

LEMMA CloseMappingKeeps == ASSUME RelayIInv, NEW g \in Gens, CloseMapping(g) PROVE RelayIInv'
  <1>1. /\ Go(g, "unmap", "gone") /\ nat' = Closed(nat, g) /\ Others
        /\ UNCHANGED <<hold, conns, open, slots>>
    BY DEF CloseMapping
  <1>2. /\ RelayTypes /\ nat \in NatTables /\ generation \in 0..MaxGen /\ Sound(nat, generation)
        /\ UNCHANGED <<suspended, generation, stop, quiesced, backlog, acc>>
    BY <1>1, Facts DEF Others
  <1>3. "gone" \in AtWorker /\ "gone" \in Late
    BY DEF AtWorker, Late
  <1>4. /\ w[g] = "unmap" /\ w[g] # "none" /\ w' = [w EXCEPT ![g] = "gone"]
        /\ w' \in [Gens -> AtWorker] /\ g \in 1..generation /\ SlotOf("unmap", hold[g])
    BY <1>1, <1>3, GoIs
  <1>5. /\ Sound(nat', generation) /\ Follows(nat, nat', generation) /\ nat'.permit = nat.permit
    BY <1>1, <1>2, <1>4, CloseSound
  <1>6. SlotsCounted(nat)'
    BY <1>1, <1>5, SlotsKept DEF Follows
  <1>7. RelayTypes'
    BY <1>1, <1>2, <1>4 DEF RelayTypes
  <1>8. ~(nat.permit[g] > 0) /\ SlotOf("gone", hold[g])
    BY <1>4 DEF RelayIInv, PermitsHeld, SlotOf
  <1>9. QED
    BY <1>1, <1>2, <1>3, <1>4, <1>5, <1>6, <1>7, <1>8, WorkerMoves

-----------------------------------------------------------------------------
(* The theorems *)

(* RelayIInv is kept by every step of the packet thread, of the users of   *)
(* the policy, of the accept loop, of stop and quiesce, and of each worker *)
(* (egresspolicy.py and DomainEgressRelay.py), in any order.               *)
THEOREM RelayInductive == ESpec => []RelayIInv
  <1>1. EInit => RelayIInv
    BY InitialInv
  <1>2. RelayIInv /\ [ENext]_vars => RelayIInv'
    <2> SUFFICES ASSUME RelayIInv, [ENext]_vars PROVE RelayIInv'
      OBVIOUS
    <2>1. CASE MatchNat
      BY <2>1, MatchNatKeeps
    <2>2. CASE CreateRelayMapping
      BY <2>2, CreateRelayMappingKeeps
    <2>3. CASE OnlyCleanup
      BY <2>3, OnlyCleanupKeeps
    <2>4. CASE UpstreamPacket
      BY <2>4, UpstreamPacketKeeps
    <2>5. CASE UpdateLocalIPv4
      BY <2>5, UpdateLocalIPv4Keeps
    <2>6. CASE Suspend
      BY <2>6, SuspendKeeps
    <2>7. CASE Tick
      BY <2>7, TickKeeps
    <2>8. CASE Accept
      BY <2>8, AcceptKeeps
    <2>9. CASE StartWorker
      BY <2>9, StartWorkerKeeps
    <2>10. CASE RejectMapping
      BY <2>10, RejectMappingKeeps
    <2>11. CASE StopSets \/ StopCloses \/ Quiesce
      BY <2>11, StopKeeps
    <2>12. ASSUME NEW g \in Gens, WorkerStep(g) PROVE RelayIInv'
      <3>1. CASE \/ AddClient(g) \/ TestStop(g) \/ HelloFails(g) \/ UpstreamFails(g)
                 \/ RelayEnds(g) \/ CloseSockets(g)
        BY <3>1, QuietMoves
      <3>2. CASE HelloRead(g)
        BY <3>2, HelloReadKeeps
      <3>3. CASE AddUpstream(g)
        BY <3>3, AddUpstreamKeeps
      <3>4. CASE RegisterCommits(g)
        BY <3>4, RegisterCommitsKeeps
      <3>5. CASE Activate(g)
        BY <3>5, ActivateKeeps
      <3>6. CASE ReleaseSlot(g)
        BY <3>6, ReleaseSlotKeeps
      <3>7. CASE CloseMapping(g)
        BY <3>7, CloseMappingKeeps
      <3>8. QED
        BY <2>12, <3>1, <3>2, <3>3, <3>4, <3>5, <3>6, <3>7 DEF WorkerStep
    <2>13. CASE UNCHANGED vars
      <3>1. UNCHANGED <<suspended, nat, generation, stop, quiesced, backlog, acc, w, hold, conns, open, slots>>
        BY <2>13 DEF vars
      <3>2. RelayTypes /\ Sound(nat, generation) /\ Follows(nat, nat, generation)
        BY Facts
      <3>3. RelayTypes'
        BY <3>1, <3>2 DEF RelayTypes
      <3>4. QED
        BY <3>1, <3>2, <3>3, PolicyStep
    <2>14. QED
      BY <2>1, <2>2, <2>3, <2>4, <2>5, <2>6, <2>7, <2>8, <2>9, <2>10, <2>11, <2>12, <2>13 DEF ENext
  <1>3. QED
    BY <1>1, <1>2, PTL DEF ESpec

(* The tables of EgressPolicy agree with each other, no rewrite outlives   *)
(* the refusal of its tuple, a suspended policy holds nothing, and a       *)
(* permit is held by a running worker: RelayInv, for any limits and times. *)
THEOREM RelayCorrect == ESpec => []RelayInv
  <1>1. RelayIInv => RelayInv
    <2> SUFFICES ASSUME RelayIInv PROVE RelayInv
      OBVIOUS
    <2>1. RelayTypes /\ nat \in NatTables /\ Sound(nat, generation) /\ generation \in 0..MaxGen
      BY Facts
    <2>2. ETypeOK
      <3>1. {suspended, quiesced} \subseteq BOOLEAN
        <4>1. suspended \in BOOLEAN /\ quiesced \in BOOLEAN
          BY <2>1 DEF RelayTypes
        <4>2. QED
          BY <4>1, Zenon
      <3>2. nat.gen \subseteq 1..generation
        BY <2>1 DEF Sound, Found
      <3>3. QED
        BY <2>1, <3>1, <3>2, Fields DEF RelayTypes, ETypeOK
    <2>3. RelayTablesAgree
      <3>1. \A g \in nat.gen : /\ nat.cli[Client(nat, g)] = g
                               /\ nat.rev[Client(nat, g)] = g
                               /\ nat.fwd[nat.obj[g].flow] = g
        BY <2>1 DEF Sound, Found
      <3>2. Range(nat.cli) \subseteq nat.gen \cup {NoGen}
        <4>1. nat.cli \in [Clients -> Gens \cup {NoGen}]
          BY <2>1, Fields
        <4>2. QED
          BY <2>1, <4>1 DEF Sound, Keyed, Range
      <3>3. ASSUME NEW f \in Flows, nat.fwd[f] # NoGen, nat.fwd[f] \notin nat.gen,
                   nat.obj[nat.fwd[f]].left > 0
            PROVE  /\ nat.tomb[f] > nat.obj[nat.fwd[f]].left
                   /\ nat.ctomb[ClientOf[f]] > nat.obj[nat.fwd[f]].left
        <4>1. nat.obj[nat.fwd[f]].flow = f /\ Buried(nat, nat.fwd[f])
          BY <2>1, <3>3 DEF Sound, Keyed, LeftOver
        <4>2. QED
          BY <3>3, <4>1 DEF Buried, Client
      <3>4. QED
        BY <3>1, <3>2, <3>3 DEF RelayTablesAgree
    <2>4. UnavailableHoldsNothing
      <3> SUFFICES ASSUME suspended PROVE nat = EmptyTables(nat)
        BY DEF UnavailableHoldsNothing
      <3>1. Vacant(nat)
        BY DEF RelayIInv
      <3>2. /\ nat.fwd = [f \in Flows |-> NoGen] /\ nat.rev = [c \in Clients |-> NoGen]
            /\ nat.cli = [c \in Clients |-> NoGen] /\ nat.gen = {}
            /\ nat.pend = Zero /\ nat.act = Zero /\ nat.permit = [g \in Gens |-> 0]
        <4>1. nat.fwd = [f \in Flows |-> NoGen]
          BY <2>1, <3>1, Fields DEF Vacant
        <4>2. nat.rev = [c \in Clients |-> NoGen] /\ nat.cli = [c \in Clients |-> NoGen]
          BY <2>1, <3>1, Fields DEF Vacant
        <4>3. nat.pend = Zero /\ nat.act = Zero
          BY <2>1, <3>1, Fields DEF Vacant, Zero
        <4>4. nat.permit = [g \in Gens |-> 0] /\ nat.gen = {}
          BY <2>1, <3>1, Fields DEF Vacant
        <4>5. QED
          BY <4>1, <4>2, <4>3, <4>4
      <3>3. QED
        BY <2>1, <3>2 DEF EmptyTables, NatTables
    <2>5. PermitHasWorker
      BY DEF RelayIInv, PermitsHeld, PermitHasWorker, Permits
    <2>6. QED
      BY <2>2, <2>3, <2>4, <2>5 DEF RelayInv
  <1>2. QED
    BY <1>1, RelayInductive, PTL

(* The counters of pending and active mappings in EgressPolicy and the     *)
(* pending and active slots of the relay are exact on every path, for any  *)
(* number of mappings: none is lost and none is given back twice.          *)
THEOREM ExactQuotas == ESpec => []QuotasAreExact
  <1>1. RelayIInv => QuotasAreExact
    <2> SUFFICES ASSUME RelayIInv PROVE QuotasAreExact
      OBVIOUS
    <2>1. \A s \in Sources : /\ nat.pend[s] = Cardinality(Of(nat, s, FALSE))
                             /\ nat.act[s] = Cardinality(Of(nat, s, TRUE))
      BY DEF RelayIInv, Sound, Counted
    <2>2. \A s \in Sources : /\ slots.pend[s] = Cardinality(Holding(nat, hold, "pending", s))
                             /\ slots.act[s] = Cardinality(Holding(nat, hold, "active", s))
      BY DEF RelayIInv, SlotsCounted
    <2>3. QED
      BY <2>1, <2>2 DEF QuotasAreExact, Of, Holding
  <1>2. QED
    BY <1>1, RelayInductive, PTL

-----------------------------------------------------------------------------
(* The packet path: maybe_redir_*, maybe_fixup_* and the port sessions. *)

(* No program of the host sends to another server of the same host: its answer, when the
   conversation is ignored and the client port is reused, would be redirected
   (IgnoredIsNotForwarded), and the entry it leaves behind makes later requests to that
   server look like answers. *)
NoLocalServers == \A d \in Destinations : d[1] = Ext => d[2] \notin Services

ClientKeys == Protos \X {Ext} \X ClientPorts
ServerPorts == Bound \cup Services \cup Targets

SentRecords ==
    [proto : Protos, proc : Procs, known : BOOLEAN, dst : Addresses, dport : ServerPorts,
     ignored : BOOLEAN, left : BOOLEAN]
Requests ==
    [sent : SentRecords, client : ClientPorts, sees : ClientPorts, at : Bound,
     via : {None} \cup ProxyPorts]

SessionRecords == [dst : Addresses, dport : Ports, comm : Programs]

(* Only packets from client endpoints leave entries; answers never do. *)
KeysInv ==
    /\ DOMAIN portFwd \subseteq ClientKeys /\ DOMAIN ipFwd \subseteq ClientKeys
    /\ DOMAIN ignoreTab \subseteq ClientKeys /\ DOMAIN last \subseteq ClientKeys
    /\ DOMAIN latest \subseteq ClientPorts
    /\ DOMAIN proxyMap \subseteq Protos \X ProxyPorts
    /\ blackPorts \in [Protos -> SUBSET ClientPorts]
    /\ \A s \in DOMAIN sessions : sessions[s] \in SessionRecords

(* The port at which a request that is not ignored arrives. *)
ServedAt(dport) == IF dport \in Bound \ Hidden THEN dport ELSE Default

(* A request that waits is seen under the port of its client, and where the tables say. *)
InboxInv ==
    /\ inbox \subseteq Requests
    /\ \A r \in inbox :
         /\ r.sees = r.client
         /\ ~r.sent.ignored => r.at = ServedAt(r.sent.dport)
         /\ <<r.sent.proto, Ext, r.client>> \in DOMAIN last
         /\ r.client \in DOMAIN latest
         /\ r.via # None =>
              /\ <<r.sent.proto, r.via>> \in DOMAIN proxyMap
              /\ proxyMap[<<r.sent.proto, r.via>>] = r.sees

(* The entries of an endpoint say what its packet asked for. *)
Fits(forwards, addresses, k, dst, dport) ==
    /\ k \in DOMAIN forwards <=> dport \notin Bound \ Hidden
    /\ k \in DOMAIN forwards => forwards[k] = dport
    /\ k \in DOMAIN addresses <=> dst \in Foreign
    /\ k \in DOMAIN addresses => addresses[k] = dst

(* They fit the latest packet of the endpoint. *)
EntryIsCurrent(k) ==
    ~last[k].ignored => Fits(portFwd, ipFwd, k, last[k].dst, last[k].dport)
TableInv == \A k \in DOMAIN last : EntryIsCurrent(k)

(* The session of a source port is that of its latest packet that is known and not
   ignored. *)
SessionInv ==
    \A s \in DOMAIN latest : latest[s].known /\ ~latest[s].ignored =>
      /\ s \in DOMAIN sessions
      /\ sessions[s].comm = latest[s].proc /\ sessions[s].dst = latest[s].dst

PathInv == KeysInv /\ InboxInv /\ TableInv /\ SessionInv

----------------------------------------------------------------------------
(* The tables as functions. *)

(* Writing an entry changes that entry and nothing else. *)
LEMMA PutIs ==
    ASSUME NEW f, NEW k, NEW v
    PROVE  /\ \A x : x \in DOMAIN Put(f, k, v) <=> x \in DOMAIN f \/ x = k
           /\ k \in DOMAIN Put(f, k, v)
           /\ Put(f, k, v)[k] = v
           /\ \A x \in DOMAIN f : x # k => Put(f, k, v)[x] = f[x]
  BY DEF Put

(* Deleting one leaves the others. *)
LEMMA DropIs ==
    ASSUME NEW f, NEW k
    PROVE  /\ \A x : x \in DOMAIN Drop(f, k) <=> x \in DOMAIN f /\ x # k
           /\ k \notin DOMAIN Drop(f, k)
           /\ \A x \in DOMAIN f : x # k => Drop(f, k)[x] = f[x]
  BY DEF Drop

(* g is f, except perhaps at k. *)
SameBut(f, g, k) ==
    \A x : x # k => /\ x \in DOMAIN g <=> x \in DOMAIN f
                    /\ x \in DOMAIN f => g[x] = f[x]

LEMMA PutSame ==
    ASSUME NEW f, NEW k, NEW v
    PROVE  SameBut(f, Put(f, k, v), k)
  BY PutIs DEF SameBut

LEMMA DropSame ==
    ASSUME NEW f, NEW k
    PROVE  SameBut(f, Drop(f, k), k)
  BY DropIs DEF SameBut

LEMMA SameSame ==
    ASSUME NEW f, NEW k
    PROVE  SameBut(f, f, k)
  BY DEF SameBut

(* A packet from this host. *)
Packet(proto, sport, dst, dport, comm) ==
    [proto |-> proto, src |-> Ext, sport |-> sport, dst |-> dst, dport |-> dport,
     comm |-> comm]

(* The fields of a packet that is not changed. *)
LEMMA PacketIs ==
    ASSUME NEW proto, NEW sport, NEW dst, NEW dport, NEW comm
    PROVE  LET pkt == Packet(proto, sport, dst, dport, comm) IN
           /\ pkt.proto = proto /\ pkt.src = Ext /\ pkt.sport = sport
           /\ pkt.dst = dst /\ pkt.dport = dport /\ pkt.comm = comm
           /\ SKey(pkt) = <<proto, Ext, sport>> /\ DKey(pkt) = <<proto, dst, dport>>
  BY DEF Packet, SKey, DKey

(* What handle_pkt makes of it. *)
LEMMA MangledIs ==
    ASSUME NEW proto, NEW sport, NEW dst, NEW dport, NEW comm
    PROVE  LET pkt == Packet(proto, sport, dst, dport, comm)
               out == Mangled(pkt)
           IN
           /\ out.dport = IF Redirected(pkt) THEN Default ELSE dport
           /\ out.sport = IF DKey(pkt) \in DOMAIN PortFwdAfter(pkt)
                          THEN PortFwdAfter(pkt)[DKey(pkt)] ELSE sport
           /\ out.dst = IF ~CheckShouldIgnore(pkt) /\ dst \in Foreign THEN Ext ELSE dst
           /\ out.src = IF DKey(pkt) \in DOMAIN IpFwdAfter(pkt)
                        THEN IpFwdAfter(pkt)[DKey(pkt)] ELSE Ext
  BY PacketIs DEF Mangled, Packet

----------------------------------------------------------------------------
(* The packet of a client. *)

(* An endpoint that packets are sent to is not a client's. *)
LEMMA NotAClient ==
    ASSUME NEW proto, NEW dst, NEW dport \in ServerPorts
    PROVE  <<proto, dst, dport>> \notin ClientKeys
  BY PathConstants DEF ClientKeys, ServerPorts

(* It is redirected unless a listener that is not hidden serves its port, or it is to be
   ignored; an answer is never mistaken for it. *)
LEMMA ClientDecision ==
    ASSUME KeysInv, NEW proto \in Protos, NEW sport \in ClientPorts, NEW dst,
           NEW dport \in ServerPorts, NEW comm
    PROVE  LET pkt == Packet(proto, sport, dst, dport, comm) IN
           /\ Redirected(pkt) <=> dport \notin Bound \ Hidden /\ ~CheckShouldIgnore(pkt)
           /\ Passed(pkt) <=> dport \in Bound \ Hidden
  <1> DEFINE pkt == Packet(proto, sport, dst, dport, comm)
  <1>1. /\ pkt.src = Ext /\ pkt.sport = sport /\ pkt.dport = dport
        /\ DKey(pkt) = <<proto, dst, dport>>
    BY PacketIs
  <1>2. DKey(pkt) \notin DOMAIN portFwd /\ DKey(pkt) \notin DOMAIN ignoreTab
    BY <1>1, NotAClient DEF KeysInv
  <1>3. sport \notin Bound
    BY PathConstants
  <1> HIDE DEF pkt
  <1>4. Wants(pkt) <=> dport \notin Bound \ Hidden
    BY <1>1, <1>3, PathConstants DEF Wants, DecideRedirPort
  <1>5. /\ Redirected(pkt) <=> dport \notin Bound \ Hidden /\ ~CheckShouldIgnore(pkt)
        /\ Passed(pkt) <=> dport \in Bound \ Hidden
    BY <1>2, <1>4 DEF Redirected, Considered, Passed
  <1> QED
    BY <1>5 DEF pkt

(* What it leaves in the tables: only the entries of its endpoint change. *)
LEMMA ClientTables ==
    ASSUME NEW proto, NEW sport, NEW dst, NEW dport, NEW comm
    PROVE  LET pkt == Packet(proto, sport, dst, dport, comm)
               k == <<proto, Ext, sport>>
           IN
           /\ SameBut(portFwd, PortFwdAfter(pkt), k)
           /\ SameBut(ipFwd, IpFwdAfter(pkt), k)
           /\ SameBut(ignoreTab, IgnoreAfter(pkt), k)
  <1> DEFINE pkt == Packet(proto, sport, dst, dport, comm)
             k == <<proto, Ext, sport>>
  <1>1. SKey(pkt) = k
    BY PacketIs
  <1> HIDE DEF pkt, k
  <1>2. SameBut(portFwd, PortFwdAfter(pkt), k)
    BY <1>1, PutSame, DropSame, SameSame DEF PortFwdAfter
  <1>3. SameBut(ipFwd, IpFwdAfter(pkt), k)
    BY <1>1, PutSame, DropSame, SameSame DEF IpFwdAfter
  <1>4. SameBut(ignoreTab, IgnoreAfter(pkt), k)
    BY <1>1, PutSame, SameSame DEF IgnoreAfter
  <1> QED
    BY <1>2, <1>3, <1>4 DEF pkt, k

(* The entries of its endpoint fit it unless it is ignored. *)
LEMMA ClientEntries ==
    ASSUME KeysInv, NEW proto \in Protos, NEW sport \in ClientPorts, NEW dst,
           NEW dport \in ServerPorts, NEW comm
    PROVE  LET pkt == Packet(proto, sport, dst, dport, comm) IN
           ~CheckShouldIgnore(pkt) =>
             Fits(PortFwdAfter(pkt), IpFwdAfter(pkt), <<proto, Ext, sport>>, dst, dport)
  <1> DEFINE pkt == Packet(proto, sport, dst, dport, comm)
             k == <<proto, Ext, sport>>
  <1>1. SKey(pkt) = k /\ pkt.dport = dport /\ pkt.dst = dst
    BY PacketIs
  <1>2. /\ Redirected(pkt) <=> dport \notin Bound \ Hidden /\ ~CheckShouldIgnore(pkt)
        /\ Passed(pkt) <=> dport \in Bound \ Hidden
    BY ClientDecision
  <1> HIDE DEF pkt, k
  <1>3. ASSUME ~CheckShouldIgnore(pkt)
        PROVE  /\ k \in DOMAIN PortFwdAfter(pkt) <=> dport \notin Bound \ Hidden
               /\ k \in DOMAIN PortFwdAfter(pkt) => PortFwdAfter(pkt)[k] = dport
    BY <1>1, <1>2, <1>3, PutIs, DropIs DEF PortFwdAfter
  <1>4. ASSUME ~CheckShouldIgnore(pkt)
        PROVE  /\ k \in DOMAIN IpFwdAfter(pkt) <=> dst \in Foreign
               /\ k \in DOMAIN IpFwdAfter(pkt) => IpFwdAfter(pkt)[k] = dst
    BY <1>1, <1>4, PutIs, DropIs DEF IpFwdAfter
  <1> QED
    BY <1>3, <1>4 DEF pkt, k, Fits

(* Sessions are records, whoever sends. *)
LEMMA SessionsTyped ==
    ASSUME KeysInv, NEW proto, NEW sport, NEW dst \in Addresses, NEW dport \in Ports,
           NEW comm \in Programs
    PROVE  LET after == SessionsAfter(Packet(proto, sport, dst, dport, comm)) IN
           \A s \in DOMAIN after : after[s] \in SessionRecords
  <1> DEFINE pkt == Packet(proto, sport, dst, dport, comm)
             new == [dst |-> pkt.dst, dport |-> Mangled(pkt).dport, comm |-> pkt.comm]
  <1>1. Mangled(pkt).dport \in {Default, dport}
    BY MangledIs
  <1>2. Mangled(pkt).dport \in Ports
    BY <1>1, PathConstants DEF Ports
  <1>3. new \in SessionRecords
    BY <1>2, PacketIs DEF SessionRecords
  <1>4. SessionsAfter(pkt) \in {sessions, Put(sessions, pkt.sport, new)}
    BY DEF SessionsAfter
  <1> HIDE DEF pkt, new
  <1>5. \A s \in DOMAIN SessionsAfter(pkt) : SessionsAfter(pkt)[s] \in SessionRecords
    BY <1>3, <1>4, PutIs DEF KeysInv
  <1> QED
    BY <1>5 DEF pkt

(* The session record of its port: its own when it is known and not ignored; every other
   port keeps its record. *)
LEMMA ClientSession ==
    ASSUME KeysInv, NEW proto \in Protos, NEW sport \in ClientPorts, NEW dst,
           NEW dport \in ServerPorts, NEW comm
    PROVE  LET pkt == Packet(proto, sport, dst, dport, comm)
               after == SessionsAfter(pkt)
           IN
           /\ SameBut(sessions, after, sport)
           /\ comm # None /\ ~CheckShouldIgnore(pkt) =>
                /\ sport \in DOMAIN after
                /\ after[sport].comm = comm /\ after[sport].dst = dst
  <1> DEFINE pkt == Packet(proto, sport, dst, dport, comm)
             new == [dst |-> pkt.dst, dport |-> Mangled(pkt).dport, comm |-> pkt.comm]
  <1>1. pkt.sport = sport /\ pkt.dst = dst /\ pkt.comm = comm
    BY PacketIs
  <1>2. ~CheckShouldIgnore(pkt) => Redirected(pkt) \/ Passed(pkt)
    BY ClientDecision
  <1>3. new.comm = comm /\ new.dst = dst
    BY <1>1
  <1>4. SessionsAfter(pkt) =
          IF (Redirected(pkt) \/ Passed(pkt)) /\ FirstPacketNewSession(pkt, Mangled(pkt).dport)
          THEN Put(sessions, sport, new) ELSE sessions
    BY <1>1 DEF SessionsAfter
  <1> HIDE DEF pkt, new
  <1>5. SameBut(sessions, SessionsAfter(pkt), sport)
    BY <1>4, PutSame, SameSame
  <1>6. ASSUME comm # None, ~CheckShouldIgnore(pkt)
        PROVE  /\ sport \in DOMAIN SessionsAfter(pkt)
               /\ SessionsAfter(pkt)[sport].comm = comm
               /\ SessionsAfter(pkt)[sport].dst = dst
    <2>1. CASE FirstPacketNewSession(pkt, Mangled(pkt).dport)
      BY <2>1, <1>2, <1>3, <1>4, <1>6, PutIs
    <2>2. CASE ~FirstPacketNewSession(pkt, Mangled(pkt).dport)
      BY <2>2, <1>1, <1>4, <1>6 DEF FirstPacketNewSession
    <2> QED BY <2>1, <2>2
  <1> QED
    BY <1>5, <1>6 DEF pkt

----------------------------------------------------------------------------
(* The packet of a listener that connects, and an answer. *)

(* A listener's own connection is ignored: it leaves the forwarding tables and the sessions
   alone. *)
LEMMA ListenerTables ==
    ASSUME KeysInv, NEW proto \in Protos, NEW sport \in ClientPorts, NEW dport \in DataPorts
    PROVE  LET pkt == Packet(proto, sport, Ext, dport, Self) IN
           /\ PortFwdAfter(pkt) = portFwd /\ IpFwdAfter(pkt) = ipFwd
           /\ SessionsAfter(pkt) = sessions
           /\ SameBut(ignoreTab, IgnoreAfter(pkt), <<proto, Ext, sport>>)
  <1> DEFINE pkt == Packet(proto, sport, Ext, dport, Self)
  <1>1. /\ pkt.src = Ext /\ pkt.sport = sport /\ pkt.dport = dport /\ pkt.comm = Self
        /\ pkt.dst = Ext /\ SKey(pkt) = <<proto, Ext, sport>>
    BY PacketIs
  <1>2. sport \notin Bound /\ dport \notin Bound
    BY PathConstants
  <1> HIDE DEF pkt
  <1>3. CheckShouldIgnore(pkt)
    BY <1>1, <1>2 DEF CheckShouldIgnore, ListenerInitiated
  <1>4. Wants(pkt)
    BY <1>1, <1>2 DEF Wants, DecideRedirPort
  <1>5. ~Redirected(pkt) /\ ~Passed(pkt)
    BY <1>3, <1>4 DEF Redirected, Passed
  <1>6. SameBut(ignoreTab, IgnoreAfter(pkt), <<proto, Ext, sport>>)
    BY <1>1, PutSame, SameSame DEF IgnoreAfter
  <1>7. /\ PortFwdAfter(pkt) = portFwd /\ IpFwdAfter(pkt) = ipFwd
        /\ SessionsAfter(pkt) = sessions
    BY <1>3, <1>5 DEF PortFwdAfter, IpFwdAfter, SessionsAfter
  <1> QED
    BY <1>6, <1>7 DEF pkt

(* f and g have the same entries. *)
SameEntries(f, g) ==
    /\ \A x : x \in DOMAIN g <=> x \in DOMAIN f
    /\ \A x \in DOMAIN f : g[x] = f[x]

LEMMA SameEntriesSelf ==
    ASSUME NEW f
    PROVE  SameEntries(f, f)
  BY DEF SameEntries

LEMMA DropAbsent ==
    ASSUME NEW f, NEW k, k \notin DOMAIN f
    PROVE  SameEntries(f, Drop(f, k))
  BY DropIs DEF SameEntries

Same(f, g) == g = f

(* What an answer takes from a table. *)
Entry(f, k, otherwise) == IF k \in DOMAIN f THEN f[k] ELSE otherwise

(* An answer of a listener is never redirected, so it leaves every client's entries as they
   are; it goes to the port it was sent to, from where the tables say. *)
LEMMA ReplyTables ==
    ASSUME KeysInv, NEW proto \in Protos, NEW at \in Bound, NEW client \in ClientPorts
    PROVE  LET pkt == Packet(proto, at, Ext, client, Self)
               out == Mangled(pkt)
           IN
           /\ SameEntries(portFwd, PortFwdAfter(pkt)) /\ SameEntries(ipFwd, IpFwdAfter(pkt))
           /\ Same(ignoreTab, IgnoreAfter(pkt)) /\ Same(blackPorts, BlackAfter(pkt))
           /\ SameBut(sessions, SessionsAfter(pkt), at)
           /\ out.dport = client
           /\ out.sport = Entry(portFwd, <<proto, Ext, client>>, at)
           /\ out.src = Entry(ipFwd, <<proto, Ext, client>>, Ext)
  <1> DEFINE pkt == Packet(proto, at, Ext, client, Self)
             out == Mangled(pkt)
             k == <<proto, Ext, client>>
  <1>1. /\ pkt.src = Ext /\ pkt.sport = at /\ pkt.dport = client /\ pkt.dst = Ext
        /\ SKey(pkt) = <<proto, Ext, at>> /\ DKey(pkt) = k
    BY PacketIs
  <1>2. SKey(pkt) \notin DOMAIN portFwd /\ SKey(pkt) \notin DOMAIN ipFwd
    BY <1>1, NotAClient DEF KeysInv, ServerPorts
  <1>3. client \notin Hidden /\ Ext \notin Foreign
    BY PathConstants
  <1>4. /\ out.dport = IF Redirected(pkt) THEN Default ELSE client
        /\ out.sport = IF DKey(pkt) \in DOMAIN PortFwdAfter(pkt)
                       THEN PortFwdAfter(pkt)[DKey(pkt)] ELSE at
        /\ out.src = IF DKey(pkt) \in DOMAIN IpFwdAfter(pkt)
                     THEN IpFwdAfter(pkt)[DKey(pkt)] ELSE Ext
    BY MangledIs
  <1> HIDE DEF pkt, out, k
  <1>5. ~Wants(pkt)
    BY <1>1, <1>3 DEF Wants, DecideRedirPort
  <1>6. ~Considered(pkt) /\ ~Redirected(pkt)
    BY <1>5 DEF Considered, Redirected
  <1>7. SameEntries(portFwd, PortFwdAfter(pkt))
    BY <1>2, <1>6, DropAbsent, SameEntriesSelf DEF PortFwdAfter
  <1>8. SameEntries(ipFwd, IpFwdAfter(pkt))
    BY <1>1, <1>2, <1>3, DropAbsent, SameEntriesSelf DEF IpFwdAfter
  <1>9. Same(ignoreTab, IgnoreAfter(pkt))
    BY <1>6 DEF IgnoreAfter, Same
  <1>10. Same(blackPorts, BlackAfter(pkt))
    BY <1>1 DEF BlackAfter, ListenerInitiated, Same
  <1>11. SameBut(sessions, SessionsAfter(pkt), at)
    BY <1>1, PutSame, SameSame DEF SessionsAfter
  <1>12. /\ out.dport = client
         /\ out.sport = Entry(portFwd, k, at)
         /\ out.src = Entry(ipFwd, k, Ext)
    BY <1>1, <1>4, <1>6, <1>7, <1>8 DEF SameEntries, Entry
  <1> QED
    BY <1>7, <1>8, <1>9, <1>10, <1>11, <1>12 DEF pkt, out, k

----------------------------------------------------------------------------
(* The inductive invariant. *)

LEMMA PathInit == Init => PathInv
  <1> SUFFICES ASSUME Init PROVE PathInv
    OBVIOUS
  <1>1. DOMAIN Empty = {}
    BY DEF Empty
  <1>2. KeysInv
    BY <1>1 DEF Init, KeysInv
  <1>3. InboxInv /\ TableInv /\ SessionInv
    BY <1>1 DEF Init, InboxInv, TableInv, SessionInv
  <1> QED
    BY <1>2, <1>3 DEF PathInv

(* A table that differs only at client keys keeps its keys among them. *)
LEMMA SameButKeys ==
    ASSUME NEW f, NEW g, NEW k \in ClientKeys, SameBut(f, g, k), DOMAIN f \subseteq ClientKeys
    PROVE  DOMAIN g \subseteq ClientKeys
  BY DEF SameBut

(* blacklist_ports only gets ports that listeners connect from. *)
LEMMA BlackKeys ==
    ASSUME KeysInv, NEW proto \in Protos, NEW sport \in ClientPorts, NEW dst, NEW dport, NEW comm
    PROVE  BlackAfter(Packet(proto, sport, dst, dport, comm)) \in [Protos -> SUBSET ClientPorts]
  <1> DEFINE pkt == Packet(proto, sport, dst, dport, comm)
  <1>1. pkt.proto = proto /\ pkt.sport = sport
    BY PacketIs
  <1> HIDE DEF pkt
  <1>2. BlackAfter(pkt) \in [Protos -> SUBSET ClientPorts]
    BY <1>1 DEF BlackAfter, KeysInv
  <1> QED
    BY <1>2 DEF pkt

(* A step that gives a client endpoint a new packet and fits its entries and its session to
   it, and leaves the others, keeps the tables and the sessions current. *)
LEMMA NewPacketKeeps ==
    ASSUME KeysInv, TableInv, SessionInv, NEW proto, NEW sport, NEW sent,
           last' = Put(last, <<proto, Ext, sport>>, sent), latest' = Put(latest, sport, sent),
           SameBut(portFwd, portFwd', <<proto, Ext, sport>>),
           SameBut(ipFwd, ipFwd', <<proto, Ext, sport>>),
           SameBut(sessions, sessions', sport),
           ~sent.ignored => Fits(portFwd', ipFwd', <<proto, Ext, sport>>, sent.dst, sent.dport),
           sent.known /\ ~sent.ignored =>
             /\ sport \in DOMAIN sessions'
             /\ sessions'[sport].comm = sent.proc /\ sessions'[sport].dst = sent.dst
    PROVE  TableInv' /\ SessionInv'
  <1> DEFINE k == <<proto, Ext, sport>>
  <1>1. /\ \A x : x \in DOMAIN last' <=> x \in DOMAIN last \/ x = k
        /\ last'[k] = sent
        /\ \A x \in DOMAIN last : x # k => last'[x] = last[x]
    BY PutIs
  <1>2. /\ \A x : x \in DOMAIN latest' <=> x \in DOMAIN latest \/ x = sport
        /\ latest'[sport] = sent
        /\ \A x \in DOMAIN latest : x # sport => latest'[x] = latest[x]
    BY PutIs
  <1>3. ASSUME NEW x \in DOMAIN last' PROVE EntryIsCurrent(x)'
    <2>1. CASE x = k
      BY <2>1, <1>1 DEF EntryIsCurrent, Fits
    <2>2. CASE x # k
      <3>1. x \in DOMAIN last /\ last'[x] = last[x] /\ EntryIsCurrent(x)
        BY <1>1, <1>3, <2>2 DEF TableInv
      <3>2. /\ x \in DOMAIN portFwd' <=> x \in DOMAIN portFwd
            /\ x \in DOMAIN portFwd => portFwd'[x] = portFwd[x]
            /\ x \in DOMAIN ipFwd' <=> x \in DOMAIN ipFwd
            /\ x \in DOMAIN ipFwd => ipFwd'[x] = ipFwd[x]
        BY <2>2 DEF SameBut
      <3> QED
        BY <3>1, <3>2 DEF EntryIsCurrent, Fits
    <2> QED BY <2>1, <2>2
  <1>4. TableInv'
    BY <1>3 DEF TableInv
  <1>5. SessionInv'
    BY <1>2 DEF SessionInv, SameBut
  <1> QED BY <1>4, <1>5

(* The record of a packet that a program sends. *)
SentBy(proto, proc, comm, sport, dst, dport) ==
    LET pkt == Packet(proto, sport, dst, dport, comm) IN
    [proto |-> proto, proc |-> proc, known |-> comm # None, dst |-> dst, dport |-> dport,
     ignored |-> CheckShouldIgnore(pkt), left |-> Mangled(pkt).dst \in Foreign]

LEMMA SentIs ==
    ASSUME NEW proto \in Protos, NEW proc \in Procs, NEW comm, NEW sport, NEW dst \in Addresses,
           NEW dport \in ServerPorts
    PROVE  LET sent == SentBy(proto, proc, comm, sport, dst, dport) IN
           /\ sent \in SentRecords
           /\ sent.proto = proto /\ sent.proc = proc /\ sent.dst = dst /\ sent.dport = dport
           /\ sent.known <=> comm # None
           /\ sent.ignored <=> CheckShouldIgnore(Packet(proto, sport, dst, dport, comm))
  <1> DEFINE pkt == Packet(proto, sport, dst, dport, comm)
             known == comm # None
             ignored == CheckShouldIgnore(pkt)
             left == Mangled(pkt).dst \in Foreign
  <1>1. known \in BOOLEAN /\ left \in BOOLEAN
    OBVIOUS
  <1>2. ignored \in BOOLEAN
    BY DEF CheckShouldIgnore
  <1>3. SentBy(proto, proc, comm, sport, dst, dport) =
          [proto |-> proto, proc |-> proc, known |-> known, dst |-> dst, dport |-> dport,
           ignored |-> ignored, left |-> left]
    BY DEF SentBy
  <1> HIDE DEF known, ignored, left
  <1>4. LET sent == SentBy(proto, proc, comm, sport, dst, dport) IN
        /\ sent \in SentRecords
        /\ sent.proto = proto /\ sent.proc = proc /\ sent.dst = dst /\ sent.dport = dport
        /\ sent.known = known /\ sent.ignored = ignored
    BY <1>1, <1>2, <1>3 DEF SentRecords
  <1> QED
    BY <1>4 DEF known, ignored

(* The requests that are waiting keep what is said of them when endpoints get a new packet. *)
LEMMA InboxStays ==
    ASSUME InboxInv, NEW proto, NEW sport, NEW sent,
           last' = Put(last, <<proto, Ext, sport>>, sent), latest' = Put(latest, sport, sent),
           UNCHANGED <<proxyMap, inbox>>
    PROVE  InboxInv'
  <1>1. \A x \in DOMAIN last : x \in DOMAIN last'
    BY PutIs
  <1>2. \A x \in DOMAIN latest : x \in DOMAIN latest'
    BY PutIs
  <1> QED
    BY <1>1, <1>2 DEF InboxInv

(* A request that a program's packet becomes is where the tables say. *)
LEMMA NewRequest ==
    ASSUME KeysInv, NoLocalServers, NEW proto \in Protos, NEW sport \in ClientPorts,
           NEW dst \in Addresses, NEW dport \in ServerPorts, NEW comm,
           <<dst, dport>> \in Destinations
    PROVE  LET pkt == Packet(proto, sport, dst, dport, comm)
               out == Mangled(pkt)
           IN
           /\ out.sport = sport
           /\ out.dst = Ext /\ out.dport \in Bound \cup Services =>
                /\ out.dport \in Bound
                /\ ~CheckShouldIgnore(pkt) => out.dport = ServedAt(dport)
  <1> DEFINE pkt == Packet(proto, sport, dst, dport, comm)
             out == Mangled(pkt)
             k == <<proto, Ext, sport>>
  <1>1. DKey(pkt) = <<proto, dst, dport>>
    BY PacketIs
  <1>2. /\ out.dport = IF Redirected(pkt) THEN Default ELSE dport
        /\ out.sport = IF DKey(pkt) \in DOMAIN PortFwdAfter(pkt)
                       THEN PortFwdAfter(pkt)[DKey(pkt)] ELSE sport
        /\ out.dst = IF ~CheckShouldIgnore(pkt) /\ dst \in Foreign THEN Ext ELSE dst
    BY MangledIs
  <1>3. /\ Redirected(pkt) <=> dport \notin Bound \ Hidden /\ ~CheckShouldIgnore(pkt)
        /\ Passed(pkt) <=> dport \in Bound \ Hidden
    BY ClientDecision
  <1>4. SameBut(portFwd, PortFwdAfter(pkt), k)
    BY ClientTables
  <1>5. k \in ClientKeys
    BY DEF ClientKeys
  <1>6. DKey(pkt) \notin ClientKeys
    BY <1>1, NotAClient
  <1>7. dst = Ext => dport \notin Services
    BY DEF NoLocalServers
  <1> HIDE DEF pkt, out, k
  <1>8. out.sport = sport
    BY <1>2, <1>4, <1>5, <1>6 DEF SameBut, KeysInv
  <1>9. ASSUME out.dst = Ext, out.dport \in Bound \cup Services
        PROVE  out.dport \in Bound
    BY <1>2, <1>3, <1>7, <1>9, PathConstants
  <1>10. ~CheckShouldIgnore(pkt) => out.dport = ServedAt(dport)
    BY <1>2, <1>3 DEF ServedAt
  <1> QED
    BY <1>8, <1>9, <1>10 DEF pkt, out

LEMMA ClientSendsKeeps ==
    ASSUME PathInv, NoLocalServers, NEW proto \in Protos, NEW proc \in Procs,
           NEW sport \in ClientPorts, NEW d \in Destinations, NEW comm \in {proc, None},
           ClientSends(proto, proc, comm, sport, d[1], d[2])
    PROVE  PathInv'
  <1> DEFINE dst == d[1]
             dport == d[2]
             pkt == Packet(proto, sport, dst, dport, comm)
             out == Mangled(pkt)
             sent == SentBy(proto, proc, comm, sport, dst, dport)
             k == <<proto, Ext, sport>>
  <1>1. dst \in Addresses /\ dport \in ServerPorts /\ <<dst, dport>> \in Destinations
    BY PathDestinations DEF ServerPorts
  <1>2. /\ HandlePkt(pkt) /\ last' = Put(last, SKey(pkt), sent) /\ latest' = Put(latest, sport, sent)
        /\ UNCHANGED proxyMap
        /\ IF out.dst = Ext /\ out.dport \in Bound \cup Services
           THEN inbox' = inbox \cup {[sent |-> sent, client |-> sport, sees |-> out.sport,
                                      at |-> out.dport, via |-> None]}
           ELSE UNCHANGED inbox
    BY DEF ClientSends, Packet, SentBy
  <1> HIDE DEF dst, dport
  <1>3. KeysInv /\ InboxInv /\ TableInv /\ SessionInv
    BY DEF PathInv
  <1>4. SKey(pkt) = k
    BY PacketIs
  <1>5. k \in ClientKeys
    BY DEF ClientKeys
  <1>6. /\ SameBut(portFwd, PortFwdAfter(pkt), k)
        /\ SameBut(ipFwd, IpFwdAfter(pkt), k)
        /\ SameBut(ignoreTab, IgnoreAfter(pkt), k)
    BY ClientTables
  <1>6a. ~CheckShouldIgnore(pkt) => Fits(PortFwdAfter(pkt), IpFwdAfter(pkt), k, dst, dport)
    BY <1>1, <1>3, ClientEntries
  <1>7. /\ SameBut(sessions, SessionsAfter(pkt), sport)
        /\ comm # None /\ ~CheckShouldIgnore(pkt) =>
             /\ sport \in DOMAIN SessionsAfter(pkt)
             /\ SessionsAfter(pkt)[sport].comm = comm /\ SessionsAfter(pkt)[sport].dst = dst
    BY <1>1, <1>3, ClientSession
  <1>8. BlackAfter(pkt) \in [Protos -> SUBSET ClientPorts]
    BY <1>3, BlackKeys
  <1>8a. \A s \in DOMAIN SessionsAfter(pkt) : SessionsAfter(pkt)[s] \in SessionRecords
    <2>1. dport \in Ports /\ comm \in Programs
      BY <1>1 DEF ServerPorts, Ports, Programs
    <2> QED
      BY <1>1, <1>3, <2>1, SessionsTyped
  <1>9. /\ sent \in SentRecords
        /\ sent.proto = proto /\ sent.proc = proc /\ sent.dst = dst /\ sent.dport = dport
        /\ sent.known <=> comm # None
        /\ sent.ignored <=> CheckShouldIgnore(pkt)
    BY <1>1, SentIs
  <1>10. /\ out.sport = sport
         /\ out.dst = Ext /\ out.dport \in Bound \cup Services =>
              /\ out.dport \in Bound
              /\ ~CheckShouldIgnore(pkt) => out.dport = ServedAt(dport)
    BY <1>1, <1>3, NewRequest
  <1> HIDE DEF pkt, out, sent
  <1>11. /\ portFwd' = PortFwdAfter(pkt) /\ ipFwd' = IpFwdAfter(pkt)
         /\ ignoreTab' = IgnoreAfter(pkt) /\ blackPorts' = BlackAfter(pkt)
         /\ sessions' = SessionsAfter(pkt)
    BY <1>2 DEF HandlePkt
  <1>12. last' = Put(last, k, sent) /\ latest' = Put(latest, sport, sent)
    BY <1>2, <1>4
  <1>13. KeysInv'
    <2>1. DOMAIN portFwd' \subseteq ClientKeys /\ DOMAIN ipFwd' \subseteq ClientKeys
      BY <1>3, <1>5, <1>6, <1>11, SameButKeys DEF KeysInv
    <2>2. DOMAIN ignoreTab' \subseteq ClientKeys
      BY <1>3, <1>5, <1>6, <1>11, SameButKeys DEF KeysInv
    <2>3. DOMAIN last' \subseteq ClientKeys /\ DOMAIN latest' \subseteq ClientPorts
      BY <1>3, <1>5, <1>12, PutIs DEF KeysInv
    <2> QED
      BY <1>2, <1>3, <1>8, <1>8a, <1>11, <2>1, <2>2, <2>3 DEF KeysInv
  <1>14. TableInv' /\ SessionInv'
    <2>1. SameBut(portFwd, portFwd', k) /\ SameBut(ipFwd, ipFwd', k)
      BY <1>6, <1>11
    <2>2. SameBut(sessions, sessions', sport)
      BY <1>7, <1>11
    <2>3. ~sent.ignored => Fits(portFwd', ipFwd', k, sent.dst, sent.dport)
      BY <1>6a, <1>9, <1>11
    <2>4. sent.known /\ ~sent.ignored =>
            /\ sport \in DOMAIN sessions'
            /\ sessions'[sport].comm = sent.proc /\ sessions'[sport].dst = sent.dst
      BY <1>7, <1>9, <1>11
    <2> QED
      BY <1>3, <1>12, <2>1, <2>2, <2>3, <2>4, NewPacketKeeps
  <1>15. InboxInv'
    <2>1. CASE ~(out.dst = Ext /\ out.dport \in Bound \cup Services)
      BY <2>1, <1>2, <1>3, <1>12, InboxStays
    <2>2. CASE out.dst = Ext /\ out.dport \in Bound \cup Services
      <3> DEFINE q == [sent |-> sent, client |-> sport, sees |-> out.sport, at |-> out.dport,
                       via |-> None]
      <3>1. /\ q.sent = sent /\ q.client = sport /\ q.sees = sport /\ q.at = out.dport
            /\ q.via = None /\ q \in Requests
        BY <1>9, <1>10, <2>2 DEF Requests
      <3>2. inbox' = inbox \cup {q}
        BY <1>2, <2>2
      <3> HIDE DEF q
      <3>3. \A x \in DOMAIN last : x \in DOMAIN last'
        BY <1>12, PutIs
      <3>4. \A x \in DOMAIN latest : x \in DOMAIN latest'
        BY <1>12, PutIs
      <3>5. k \in DOMAIN last' /\ sport \in DOMAIN latest'
        BY <1>12, PutIs
      <3>6. inbox' \subseteq Requests
        BY <1>3, <3>1, <3>2 DEF InboxInv
      <3>7. ASSUME NEW r \in inbox'
            PROVE  /\ r.sees = r.client
                   /\ ~r.sent.ignored => r.at = ServedAt(r.sent.dport)
                   /\ <<r.sent.proto, Ext, r.client>> \in DOMAIN last'
                   /\ r.client \in DOMAIN latest'
                   /\ r.via # None =>
                        /\ <<r.sent.proto, r.via>> \in DOMAIN proxyMap'
                        /\ proxyMap'[<<r.sent.proto, r.via>>] = r.sees
        <4>1. CASE r = q
          BY <4>1, <1>9, <1>10, <2>2, <3>1, <3>5
        <4>2. CASE r \in inbox
          BY <4>2, <1>2, <1>3, <3>3, <3>4 DEF InboxInv
        <4> QED BY <4>1, <4>2, <3>2
      <3> QED
        BY <3>6, <3>7 DEF InboxInv
    <2> QED BY <2>1, <2>2
  <1> QED
    BY <1>13, <1>14, <1>15 DEF PathInv

LEMMA ListenerConnectsKeeps ==
    ASSUME PathInv, NEW proto \in Protos, NEW sport \in ClientPorts, NEW dport \in DataPorts,
           ListenerConnects(proto, sport, dport)
    PROVE  PathInv'
  <1> DEFINE pkt == Packet(proto, sport, Ext, dport, Self)
             sent == [proto |-> proto, proc |-> Self, known |-> TRUE, dst |-> Ext,
                      dport |-> dport, ignored |-> TRUE, left |-> FALSE]
             k == <<proto, Ext, sport>>
  <1>1. /\ HandlePkt(pkt) /\ last' = Put(last, SKey(pkt), sent) /\ latest' = Put(latest, sport, sent)
        /\ UNCHANGED <<proxyMap, inbox>>
    BY DEF ListenerConnects, Packet
  <1>2. KeysInv /\ InboxInv /\ TableInv /\ SessionInv
    BY DEF PathInv
  <1>3. SKey(pkt) = k
    BY PacketIs
  <1>4. k \in ClientKeys
    BY DEF ClientKeys
  <1>5. /\ PortFwdAfter(pkt) = portFwd /\ IpFwdAfter(pkt) = ipFwd
        /\ SessionsAfter(pkt) = sessions
        /\ SameBut(ignoreTab, IgnoreAfter(pkt), k)
    BY <1>2, ListenerTables
  <1>6. BlackAfter(pkt) \in [Protos -> SUBSET ClientPorts]
    BY <1>2, BlackKeys
  <1>7. sent.ignored
    OBVIOUS
  <1> HIDE DEF pkt, sent
  <1>8. /\ portFwd' = portFwd /\ ipFwd' = ipFwd /\ sessions' = sessions
        /\ ignoreTab' = IgnoreAfter(pkt) /\ blackPorts' = BlackAfter(pkt)
    BY <1>1, <1>5 DEF HandlePkt
  <1>9. last' = Put(last, k, sent) /\ latest' = Put(latest, sport, sent)
    BY <1>1, <1>3
  <1>10. KeysInv'
    <2>1. DOMAIN ignoreTab' \subseteq ClientKeys
      BY <1>2, <1>4, <1>5, <1>8, SameButKeys DEF KeysInv
    <2>2. DOMAIN last' \subseteq ClientKeys /\ DOMAIN latest' \subseteq ClientPorts
      BY <1>2, <1>4, <1>9, PutIs DEF KeysInv
    <2> QED
      BY <1>1, <1>2, <1>6, <1>8, <2>1, <2>2 DEF KeysInv
  <1>11. TableInv' /\ SessionInv'
    <2>1. SameBut(portFwd, portFwd', k) /\ SameBut(ipFwd, ipFwd', k)
      BY <1>8, SameSame
    <2>2. SameBut(sessions, sessions', sport)
      BY <1>8, SameSame
    <2> QED
      BY <1>2, <1>7, <1>9, <2>1, <2>2, NewPacketKeeps
  <1>12. InboxInv'
    BY <1>1, <1>2, <1>9, InboxStays
  <1> QED
    BY <1>10, <1>11, <1>12 DEF PathInv

(* What a waiting request is. *)
LEMMA RequestIs ==
    ASSUME InboxInv, NEW r \in inbox
    PROVE  /\ r.sent.proto \in Protos /\ r.client \in ClientPorts /\ r.sees = r.client
           /\ r.at \in Bound
  BY DEF InboxInv, Requests, SentRecords

(* The packet of an answer, and what becomes of the tables. *)
LEMMA AnswerHandled ==
    ASSUME KeysInv, InboxInv, NEW r \in inbox, ServerReplies(r)
    PROVE  LET k == <<r.sent.proto, Ext, r.client>> IN
           /\ \A s \in DOMAIN sessions' : sessions'[s] \in SessionRecords
           /\ SameEntries(portFwd, portFwd') /\ SameEntries(ipFwd, ipFwd')
           /\ ignoreTab' = ignoreTab /\ blackPorts' = blackPorts
           /\ SameBut(sessions, sessions', r.at)
           /\ reply' = [to |-> r.client,
                        from |-> <<Entry(ipFwd, k, Ext), Entry(portFwd, k, r.at)>>,
                        request |-> r, current |-> last[k] = r.sent]
  <1> DEFINE pkt == Packet(r.sent.proto, r.at, Ext, r.client, Self)
             out == Mangled(pkt)
             k == <<r.sent.proto, Ext, r.client>>
  <1>1. /\ r.sent.proto \in Protos /\ r.client \in ClientPorts /\ r.sees = r.client
        /\ r.at \in Bound
    BY RequestIs
  <1>2. /\ HandlePkt(pkt)
        /\ reply' = [to |-> out.dport, from |-> <<out.src, out.sport>>, request |-> r,
                     current |-> last[k] = r.sent]
    BY <1>1 DEF ServerReplies, Packet
  <1>3. SameEntries(portFwd, PortFwdAfter(pkt)) /\ SameEntries(ipFwd, IpFwdAfter(pkt))
    BY <1>1, ReplyTables
  <1>3a. Same(ignoreTab, IgnoreAfter(pkt)) /\ Same(blackPorts, BlackAfter(pkt))
    BY <1>1, ReplyTables
  <1>3b. SameBut(sessions, SessionsAfter(pkt), r.at)
    BY <1>1, ReplyTables
  <1>4. /\ out.dport = r.client
        /\ out.sport = Entry(portFwd, k, r.at)
        /\ out.src = Entry(ipFwd, k, Ext)
    BY <1>1, ReplyTables
  <1> HIDE DEF pkt, out
  <1>5. /\ portFwd' = PortFwdAfter(pkt) /\ ipFwd' = IpFwdAfter(pkt)
        /\ ignoreTab' = IgnoreAfter(pkt) /\ blackPorts' = BlackAfter(pkt)
        /\ sessions' = SessionsAfter(pkt)
    BY <1>2 DEF HandlePkt
  <1>6. reply' = [to |-> r.client,
                  from |-> <<Entry(ipFwd, k, Ext), Entry(portFwd, k, r.at)>>,
                  request |-> r, current |-> last[k] = r.sent]
    BY <1>2, <1>4
  <1>7. \A s \in DOMAIN sessions' : sessions'[s] \in SessionRecords
    <2>1. Ext \in Addresses /\ r.client \in Ports /\ Self \in Programs
      BY <1>1 DEF Addresses, Ports, Programs
    <2> QED
      BY <1>5, <2>1, SessionsTyped DEF pkt
  <1> QED
    BY <1>3, <1>3a, <1>3b, <1>5, <1>6, <1>7 DEF Same

LEMMA ServerRepliesKeeps ==
    ASSUME PathInv, NEW r \in inbox, ServerReplies(r)
    PROVE  PathInv' /\ ReplyIsFromAsked'
  <1> DEFINE k == <<r.sent.proto, Ext, r.client>>
  <1>1. KeysInv /\ InboxInv /\ TableInv /\ SessionInv
    BY DEF PathInv
  <1>2. /\ r.at \in Bound /\ k \in DOMAIN last
        /\ ~r.sent.ignored => r.at = ServedAt(r.sent.dport)
    BY <1>1, RequestIs DEF InboxInv
  <1>3. /\ SameEntries(portFwd, portFwd') /\ SameEntries(ipFwd, ipFwd')
        /\ ignoreTab' = ignoreTab /\ blackPorts' = blackPorts
        /\ SameBut(sessions, sessions', r.at)
        /\ \A s \in DOMAIN sessions' : sessions'[s] \in SessionRecords
    BY <1>1, AnswerHandled
  <1>4. reply' = [to |-> r.client,
                  from |-> <<Entry(ipFwd, k, Ext), Entry(portFwd, k, r.at)>>,
                  request |-> r, current |-> last[k] = r.sent]
    BY <1>1, AnswerHandled
  <1>5. UNCHANGED <<proxyMap, last, latest>> /\ inbox' \subseteq inbox
    BY DEF ServerReplies
  <1>6. KeysInv'
    BY <1>1, <1>3, <1>5 DEF KeysInv, SameEntries
  <1>7. InboxInv'
    BY <1>1, <1>5 DEF InboxInv
  <1>8. TableInv'
    BY <1>1, <1>3, <1>5 DEF TableInv, EntryIsCurrent, Fits, SameEntries
  <1>9. SessionInv'
    <2>1. \A s \in DOMAIN latest : s # r.at
      BY <1>1, <1>2, PathConstants DEF KeysInv
    <2> QED
      BY <1>1, <1>3, <1>5, <2>1 DEF SessionInv, SameBut
  <1>10. ReplyIsFromAsked'
    <2>1. /\ reply'.to = r.client /\ reply'.request = r
          /\ reply'.from = <<Entry(ipFwd, k, Ext), Entry(portFwd, k, r.at)>>
          /\ reply'.current <=> last[k] = r.sent
      BY <1>4
    <2> SUFFICES ASSUME last[k] = r.sent, ~r.sent.ignored
                 PROVE  /\ reply'.to = r.client
                        /\ reply'.from = <<r.sent.dst, r.sent.dport>>
      BY <2>1 DEF ReplyIsFromAsked
    <2>2. EntryIsCurrent(k)
      BY <1>1, <1>2 DEF TableInv
    <2>3. /\ k \in DOMAIN portFwd <=> r.sent.dport \notin Bound \ Hidden
          /\ k \in DOMAIN portFwd => portFwd[k] = r.sent.dport
          /\ k \in DOMAIN ipFwd <=> r.sent.dst \in Foreign
          /\ k \in DOMAIN ipFwd => ipFwd[k] = r.sent.dst
      BY <2>2 DEF EntryIsCurrent, Fits
    <2>4. Entry(portFwd, k, r.at) = r.sent.dport
      BY <1>2, <2>3 DEF ServedAt, Entry
    <2>5. r.sent.dst \in Addresses
      BY <1>1 DEF InboxInv, Requests, SentRecords
    <2>6. Entry(ipFwd, k, Ext) = r.sent.dst
      BY <2>3, <2>5 DEF Addresses, Entry
    <2> QED
      BY <2>1, <2>4, <2>6
  <1> QED
    BY <1>6, <1>7, <1>8, <1>9, <1>10 DEF PathInv

(* The proxy's connection takes a port that no waiting request came through. *)
LEMMA MapProxySportKeeps ==
    ASSUME PathInv, NEW r \in inbox, NEW sport \in ProxyPorts, MapProxySport(r, sport)
    PROVE  PathInv'
  <1> DEFINE key == <<r.sent.proto, sport>>
             q == [r EXCEPT !.via = sport]
  <1>1. KeysInv /\ InboxInv /\ TableInv /\ SessionInv
    BY DEF PathInv
  <1>2. /\ \A x \in inbox : x.via # sport
        /\ proxyMap' = Put(proxyMap, key, r.sees) /\ inbox' = (inbox \ {r}) \cup {q}
        /\ UNCHANGED <<portFwd, ipFwd, ignoreTab, blackPorts, sessions, last, latest>>
    BY DEF MapProxySport, tables
  <1>3. r \in Requests
    BY <1>1 DEF InboxInv
  <1>4. /\ q \in Requests /\ q.via = sport /\ q.sent = r.sent /\ q.client = r.client
        /\ q.sees = r.sees /\ q.at = r.at
    BY <1>3 DEF Requests
  <1>5. r.sent.proto \in Protos
    BY <1>1, RequestIs
  <1>6. /\ \A x : x \in DOMAIN proxyMap' <=> x \in DOMAIN proxyMap \/ x = key
        /\ key \in DOMAIN proxyMap'
        /\ proxyMap'[key] = r.sees
        /\ \A x \in DOMAIN proxyMap : x # key => proxyMap'[x] = proxyMap[x]
    BY <1>2, PutIs
  <1> HIDE DEF q
  <1>7. KeysInv'
    <2>1. DOMAIN proxyMap' \subseteq Protos \X ProxyPorts
      BY <1>1, <1>5, <1>6 DEF KeysInv
    <2> QED
      BY <1>1, <1>2, <2>1 DEF KeysInv
  <1>8. TableInv' /\ SessionInv'
    BY <1>1, <1>2 DEF TableInv, EntryIsCurrent, Fits, SessionInv
  <1>9. InboxInv'
    <2>1. inbox' \subseteq Requests
      BY <1>1, <1>2, <1>4 DEF InboxInv
    <2>2. ASSUME NEW x \in inbox'
          PROVE  /\ x.sees = x.client
                 /\ ~x.sent.ignored => x.at = ServedAt(x.sent.dport)
                 /\ <<x.sent.proto, Ext, x.client>> \in DOMAIN last'
                 /\ x.client \in DOMAIN latest'
                 /\ x.via # None =>
                      /\ <<x.sent.proto, x.via>> \in DOMAIN proxyMap'
                      /\ proxyMap'[<<x.sent.proto, x.via>>] = x.sees
      <3>1. CASE x = q
        BY <3>1, <1>1, <1>2, <1>4, <1>6 DEF InboxInv
      <3>2. CASE x \in inbox
        <4>1. x.via # sport
          BY <3>2, <1>2
        <4>2. <<x.sent.proto, x.via>> # key
          BY <4>1
        <4> QED
          BY <3>2, <4>2, <1>1, <1>2, <1>6 DEF InboxInv
      <3> QED
        BY <3>1, <3>2, <1>2
    <2> QED
      BY <2>1, <2>2 DEF InboxInv
  <1> QED
    BY <1>7, <1>8, <1>9 DEF PathInv

(* The port under which the session of a waiting request is looked up is its client's,
   unless the client has it from the proxy. *)
LEMMA OrigSportIs ==
    ASSUME PathInv, NEW r \in inbox, ~HadByProxy(r)
    PROVE  OrigSport(r) = r.client
  <1>1. KeysInv /\ InboxInv
    BY DEF PathInv
  <1>2. r.client \in ClientPorts /\ r.sees = r.client
    BY <1>1, RequestIs
  <1>3. CASE r.via = None
    <2>1. <<r.sent.proto, r.sees>> \notin DOMAIN proxyMap
      BY <1>3 DEF HadByProxy
    <2> QED
      BY <1>2, <1>3, <2>1 DEF OrigSport
  <1>4. CASE r.via # None
    <2>1. /\ <<r.sent.proto, r.via>> \in DOMAIN proxyMap
          /\ proxyMap[<<r.sent.proto, r.via>>] = r.sees
      BY <1>1, <1>4 DEF InboxInv
    <2> QED
      BY <1>2, <1>4, <2>1 DEF OrigSport
  <1> QED BY <1>3, <1>4

LEMMA LogNbiKeeps ==
    ASSUME PathInv, NEW r \in inbox, LogNbi(r)
    PROVE  PathInv' /\ NbiIsAttributed'
  <1>1. PathInv'
    BY DEF PathInv, KeysInv, InboxInv, TableInv, EntryIsCurrent, Fits, SessionInv, LogNbi, tables
  <1>2. nbi' = [session |-> IF OrigSport(r) \in DOMAIN sessions THEN sessions[OrigSport(r)]
                            ELSE None,
                request |-> r.sent, current |-> latest[r.client] = r.sent,
                reused |-> HadByProxy(r)]
    BY DEF LogNbi
  <1>3. CASE HadByProxy(r)
    <2>1. nbi'.reused
      BY <1>2, <1>3
    <2> QED
      BY <1>1, <2>1, Zenon DEF NbiIsAttributed, Attributed
  <1>4. CASE ~HadByProxy(r)
    <2>1. OrigSport(r) = r.client
      BY <1>4, OrigSportIs
    <2>3. /\ nbi'.session = IF r.client \in DOMAIN sessions THEN sessions[r.client] ELSE None
          /\ nbi'.request = r.sent
          /\ nbi'.current <=> latest[r.client] = r.sent
      BY <1>2, <2>1
    <2>4. r.client \in DOMAIN latest
      BY DEF PathInv, InboxInv
    <2>6. r.client \in DOMAIN sessions => sessions[r.client] # None
      BY PathNone DEF PathInv, KeysInv, SessionRecords
    <2>5. r.sent.known /\ ~r.sent.ignored /\ latest[r.client] = r.sent =>
            /\ r.client \in DOMAIN sessions
            /\ sessions[r.client].comm = r.sent.proc /\ sessions[r.client].dst = r.sent.dst
      BY <2>4 DEF PathInv, SessionInv
    <2>7. r.sent.known /\ ~r.sent.ignored /\ nbi'.current =>
            nbi'.session # None /\ nbi'.session.comm = r.sent.proc
            /\ nbi'.session.dst = r.sent.dst
      BY <2>3, <2>5, <2>6
    <2> QED
      BY <1>1, <2>3, <2>7, Zenon DEF NbiIsAttributed, Attributed
  <1> QED BY <1>1, <1>3, <1>4

----------------------------------------------------------------------------
(* The step and the theorems. *)

(* Every step keeps the inductive invariant, and leaves an answer or an indicator that is
   right, or none. *)
LEMMA PathStep ==
    ASSUME NoLocalServers, PathInv, [Next]_pathVars
    PROVE  /\ PathInv'
           /\ ReplyIsFromAsked => ReplyIsFromAsked'
           /\ NbiIsAttributed => NbiIsAttributed'
  <1>1. CASE UNCHANGED pathVars
    BY <1>1 DEF pathVars, tables, PathInv, KeysInv, InboxInv, TableInv, EntryIsCurrent, Fits,
       SessionInv,
                ReplyIsFromAsked, NbiIsAttributed, Attributed
  <1>2. ASSUME NEW proto \in Protos, NEW proc \in Procs, NEW sport \in ClientPorts,
               NEW d \in Destinations,
               NEW comm \in {proc} \cup (IF proc \in Unseen THEN {None} ELSE {}),
               ClientSends(proto, proc, comm, sport, d[1], d[2])
        PROVE  PathInv' /\ ReplyIsFromAsked' /\ NbiIsAttributed'
    <2>1. comm \in {proc, None}
      OBVIOUS
    <2>2. PathInv'
      BY <1>2, <2>1, ClientSendsKeeps
    <2>3. reply' = None /\ nbi' = None
      BY <1>2 DEF ClientSends
    <2> QED
      BY <2>2, <2>3 DEF ReplyIsFromAsked, NbiIsAttributed
  <1>3. ASSUME NEW proto \in Protos, NEW sport \in ClientPorts, NEW dport \in DataPorts,
               ListenerConnects(proto, sport, dport)
        PROVE  PathInv' /\ ReplyIsFromAsked' /\ NbiIsAttributed'
    <2>1. PathInv'
      BY <1>3, ListenerConnectsKeeps
    <2>2. reply' = None /\ nbi' = None
      BY <1>3 DEF ListenerConnects
    <2> QED
      BY <2>1, <2>2 DEF ReplyIsFromAsked, NbiIsAttributed
  <1>4. ASSUME NEW r \in inbox, ServerReplies(r)
        PROVE  PathInv' /\ ReplyIsFromAsked' /\ NbiIsAttributed'
    <2>1. PathInv' /\ ReplyIsFromAsked'
      BY <1>4, ServerRepliesKeeps
    <2>2. nbi' = None
      BY <1>4 DEF ServerReplies
    <2> QED
      BY <2>1, <2>2 DEF NbiIsAttributed
  <1>5. ASSUME NEW r \in inbox, LogNbi(r)
        PROVE  PathInv' /\ ReplyIsFromAsked' /\ NbiIsAttributed'
    <2>1. PathInv' /\ NbiIsAttributed'
      BY <1>5, LogNbiKeeps
    <2>2. reply' = None
      BY <1>5 DEF LogNbi
    <2> QED
      BY <2>1, <2>2 DEF ReplyIsFromAsked
  <1>6. ASSUME NEW r \in inbox, NEW sport \in ProxyPorts, MapProxySport(r, sport)
        PROVE  PathInv' /\ ReplyIsFromAsked' /\ NbiIsAttributed'
    <2>1. PathInv'
      BY <1>6, MapProxySportKeeps
    <2>2. reply' = None /\ nbi' = None
      BY <1>6 DEF MapProxySport
    <2> QED
      BY <2>1, <2>2 DEF ReplyIsFromAsked, NbiIsAttributed
  <1> QED
    BY <1>1, <1>2, <1>3, <1>4, <1>5, <1>6 DEF Next

(* The tables say what the latest packet asked for. *)
LEMMA PathInvGives == PathInv => TablesAreCurrent
  <1> SUFFICES ASSUME PathInv PROVE TablesAreCurrent
    OBVIOUS
  <1>1. ClientKeys \subseteq Endpoints /\ ClientPorts \subseteq Ports
    BY DEF ClientKeys, Endpoints, Addresses, Ports
  <1> QED
    BY <1>1 DEF PathInv, KeysInv, TableInv, EntryIsCurrent, Fits, TablesAreCurrent

(* The tables, the requests that wait for a listener and the sessions agree in every
   reachable state: the inductive invariant of the three theorems below. *)
THEOREM PathInductive == NoLocalServers => (Spec => []PathInv)
  <1> SUFFICES ASSUME NoLocalServers PROVE Spec => []PathInv
    OBVIOUS
  <1>1. Init => PathInv
    BY PathInit
  <1>2. PathInv /\ [Next]_pathVars => PathInv'
    BY PathStep
  <1> QED
    BY <1>1, <1>2, PTL DEF Spec

(* The port and address tables always describe the latest packet of a client endpoint that
   is not ignored (maybe_redir_port, maybe_redir_ip and the deletion of stale entries),
   whatever the endpoint was used for before: for every set of programs, addresses, ports,
   exemption lists and any number of packets. *)
THEOREM TablesCurrent == NoLocalServers => (Spec => []TablesAreCurrent)
  <1> SUFFICES ASSUME NoLocalServers PROVE Spec => []TablesAreCurrent
    OBVIOUS
  <1>1. Spec => []PathInv
    BY PathInductive
  <1> QED
    BY <1>1, PathInvGives, PTL

(* An answer to the latest request of an endpoint reaches its client from the address and
   the port the client asked for (maybe_fixup_sport, maybe_fixup_srcip). *)
THEOREM RepliesFromAsked == NoLocalServers => (Spec => []ReplyIsFromAsked)
  <1> SUFFICES ASSUME NoLocalServers PROVE Spec => []ReplyIsFromAsked
    OBVIOUS
  <1>1. Init => PathInv /\ ReplyIsFromAsked
    BY PathInit DEF Init, ReplyIsFromAsked
  <1>2. PathInv /\ ReplyIsFromAsked /\ [Next]_pathVars => PathInv' /\ ReplyIsFromAsked'
    BY PathStep
  <1> QED
    BY <1>1, <1>2, PTL DEF Spec

(* An indicator logged for the latest request of a source port names its program and the
   host it asked for, whichever ports the proxy shares with clients, unless the client asks
   directly from a port the proxy has had (logNbi, mapProxySportToOrigSport). *)
THEOREM NbiAttributed == NoLocalServers => (Spec => []NbiIsAttributed)
  <1> SUFFICES ASSUME NoLocalServers PROVE Spec => []NbiIsAttributed
    OBVIOUS
  <1>1. Init => PathInv /\ NbiIsAttributed
    BY PathInit DEF Init, NbiIsAttributed
  <1>2. PathInv /\ NbiIsAttributed /\ [Next]_pathVars => PathInv' /\ NbiIsAttributed'
    BY PathStep
  <1> QED
    BY <1>1, <1>2, PTL DEF Spec
=============================================================================
