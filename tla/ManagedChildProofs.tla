------------------------- MODULE ManagedChildProofs -------------------------
(***************************************************************************)
(* Proofs about ManagedChild for any number of calling threads, requests,  *)
(* faults and any capacity of the queue: the inductive invariant           *)
(* ChannelIInv, from it ChildInv, and that request() with its pipes,       *)
(* threads, queue and deadlines implements ManagedCall step by step.       *)
(***************************************************************************)
EXTENDS ManagedChild, FiniteSetTheorems, TLAPS

----------------------------------------------------------------------------
(* The inductive invariant. *)

Message == [seq : Nat, kind : Kinds]
Response == [seq : Nat, kind : Kinds \cup {"eof", "nothing"}, ok : BOOLEAN]
Outcome == [kind : Kinds \cup {"failed"}, ok : BOOLEAN]

CallerTypes ==
    /\ sequence \in 0..MaxSeq /\ lockedBy \in Callers \cup {"free"}
    /\ at \in [Callers -> {"idle", "lock", "sent"}]
    /\ \A c \in Callers : at[c] = "sent" <=> lockedBy = c
    /\ kind \in [Callers -> Kinds] /\ seq \in [Callers -> Nat]
    /\ answer \in [Callers -> Outcome]
OwnerTypes ==
    /\ stage \in {"new", "job", "spawned", "up", "closed"}
    /\ owner \in {"init", "serve", "confirm", "close", "ended"}
    /\ reader \in {"off", "on", "ended"}
FlagTypes ==
    /\ protocolFailure \in BOOLEAN /\ readFailure \in BOOLEAN /\ writeFailed \in BOOLEAN
PipeTypes ==
    /\ writing \subseteq Message /\ stdin \in Seq(Message)
    /\ stdout \in Seq(Response) /\ responses \in Seq(Response) /\ Len(responses) <= QueueLimit
ChildTypes ==
    /\ root \in {"none", "alive", "exited"} /\ others \in BOOLEAN
    /\ loop \in [last : Nat, reply : Response] /\ resets \in {"none", "armed", "ran"}
    /\ done \in Seq([kind : Kinds, ok : BOOLEAN])
ChannelTypes == CallerTypes /\ OwnerTypes /\ FlagTypes /\ PipeTypes /\ ChildTypes

(* A caller that has sent waits for the last number that was given; one that has not waits
   for none. *)
Calling ==
    \A c \in Callers :
      /\ at[c] # "idle" => answer[c] = Failed /\ stage \in {"up", "closed"}
      /\ at[c] = "sent" => seq[c] = sequence /\ seq[c] > 0
      /\ at[c] # "sent" => seq[c] = 0

(* There are numbers left for those who wait for the lock. *)
Waiting == {c \in Callers : at[c] = "lock"}
Room == sequence + Cardinality(Waiting) <= MaxSeq

(* No message has a number that was not given. *)
Numbered ==
    /\ \A m \in writing : m.seq \in 1..sequence
    /\ \A i \in 1..Len(stdin) : stdin[i].seq <= sequence

(* The child's counter is what it performed; its answer is the outcome of the last. *)
Performed ==
    /\ loop.last = Len(done) /\ loop.last <= sequence
    /\ loop.reply # Nothing =>
         /\ loop.reply.seq = loop.last /\ loop.last > 0
         /\ done[loop.last] = [kind |-> loop.reply.kind, ok |-> loop.reply.ok]

(* A response, altered or not, that has the last number given is the outcome of that request. *)
Honest(r, last, outcomes) ==
    /\ r.seq <= Len(outcomes)
    /\ r.seq = last /\ r.seq > 0 => outcomes[r.seq] = [kind |-> r.kind, ok |-> r.ok]
HonestResponses ==
    /\ \A i \in 1..Len(stdout) : Honest(stdout[i], sequence, done)
    /\ \A i \in 1..Len(responses) : Honest(responses[i], sequence, done)

(* One message is being written, for the holder of the lock unless that was given up. *)
OneWriter ==
    /\ \A m, n \in writing : m = n
    /\ \A m \in writing : writeFailed \/ (lockedBy # "free" /\ seq[lockedBy] = m.seq)

(* Unless a query raised, the messages under way are numbered on from the child's counter; and
   while the channel is usable every number that was given is with the child or under way. *)
Intact ==
    /\ stage # "closed" /\ root # "exited"
    /\ ~protocolFailure /\ ~readFailure /\ ~writeFailed
InOrder ==
    ~skipped =>
      /\ \A i \in 1..Len(stdin) : stdin[i].seq = loop.last + i
      /\ \A m \in writing : m.seq = loop.last + Len(stdin) + 1
      /\ Intact => sequence = loop.last + Len(stdin) + IF writing = {} THEN 0 ELSE 1

(* The life of the process and of its owner. *)
Life ==
    /\ stage \in {"new", "job"} => root = "none"
    /\ stage \in {"spawned", "up"} => root # "none"
    /\ root = "none" => ~others
    /\ stage = "closed" => owner = "ended"
    /\ owner \in {"confirm", "close"} => stage \notin {"new", "closed"}

ChannelIInv ==
    /\ ChannelTypes /\ Calling /\ Room /\ Numbered /\ Performed /\ HonestResponses
    /\ OneWriter /\ InOrder /\ Life /\ SequenceIsAgreed /\ ClosedIsEmpty

----------------------------------------------------------------------------
(* What the callers do. *)

LEMMA ChannelInit == Init => ChannelIInv
  <1> SUFFICES ASSUME Init PROVE ChannelIInv
    OBVIOUS
  <1>1. ChannelTypes
    <2>1. CallerTypes
      BY ManagedConstants DEF Init, CallerTypes, Kinds, Outcome, Failed
    <2>2. FlagTypes /\ OwnerTypes
      BY DEF Init, FlagTypes, OwnerTypes
    <2>3. PipeTypes
      BY ManagedConstants DEF Init, PipeTypes
    <2>4. ChildTypes
      <3>1. others \in BOOLEAN
        BY DEF Init
      <3>2. QED
        BY <3>1 DEF Init, ChildTypes, Response, Nothing
    <2>5. QED
      BY <2>1, <2>2, <2>3, <2>4 DEF ChannelTypes
  <1>2. Room
    <2>1. Waiting = {}
      BY DEF Init, Waiting
    <2>2. QED
      BY <2>1, FS_EmptySet, ManagedConstants DEF Init, Room
  <1>3. Calling /\ Numbered /\ Performed /\ HonestResponses /\ OneWriter
    BY DEF Init, Calling, Numbered, Performed, HonestResponses, OneWriter
  <1>4. InOrder /\ Life /\ SequenceIsAgreed /\ ClosedIsEmpty
    BY DEF Init, InOrder, Life, SequenceIsAgreed, ClosedIsEmpty
  <1>5. QED
    BY <1>1, <1>2, <1>3, <1>4 DEF ChannelIInv

(* Those who wait for the lock are finitely many. *)
LEMMA WaitingIsFinite ==
    /\ IsFiniteSet(Waiting) /\ Cardinality(Waiting) \in Nat
    /\ \A c \in Waiting : /\ Cardinality(Waiting \ {c}) \in Nat
                          /\ Cardinality(Waiting \ {c}) + 1 = Cardinality(Waiting)
    /\ \A c : c \notin Waiting => Cardinality(Waiting \cup {c}) = Cardinality(Waiting) + 1
  <1>1. IsFiniteSet(Waiting) /\ Cardinality(Waiting) \in Nat
    BY FS_Subset, FS_CardinalityType, ManagedConstants DEF Waiting
  <1>2. ASSUME NEW c \in Waiting
        PROVE  /\ Cardinality(Waiting \ {c}) \in Nat
               /\ Cardinality(Waiting \ {c}) + 1 = Cardinality(Waiting)
    BY <1>1, FS_RemoveElement, FS_CardinalityType
  <1>3. ASSUME NEW c, c \notin Waiting
        PROVE  Cardinality(Waiting \cup {c}) = Cardinality(Waiting) + 1
    BY <1>1, <1>3, FS_AddElement
  <1>4. QED
    BY <1>1, <1>2, <1>3

(* The elements of the pipes and of the queue. *)
LEMMA Elements ==
    ASSUME ChannelTypes
    PROVE  /\ \A i \in 1..Len(stdin) : stdin[i] \in Message /\ stdin[i].seq \in Nat
           /\ \A i \in 1..Len(stdout) : stdout[i] \in Response /\ stdout[i].seq \in Nat
           /\ \A i \in 1..Len(responses) : responses[i] \in Response /\ responses[i].seq \in Nat
           /\ Len(stdin) \in Nat /\ Len(done) \in Nat /\ loop.last \in Nat /\ sequence \in Nat
  <1>1. /\ \A i \in 1..Len(stdin) : stdin[i] \in Message
        /\ \A i \in 1..Len(stdout) : stdout[i] \in Response
        /\ \A i \in 1..Len(responses) : responses[i] \in Response
        /\ Len(stdin) \in Nat /\ Len(done) \in Nat
    BY DEF ChannelTypes, PipeTypes, ChildTypes
  <1>2. (\A m \in Message : m.seq \in Nat) /\ (\A r \in Response : r.seq \in Nat)
    BY DEF Message, Response
  <1>3. loop.last \in Nat /\ sequence \in Nat
    BY DEF ChannelTypes, ChildTypes, CallerTypes
  <1>4. QED
    BY <1>1, <1>2, <1>3

(* A request ends: its caller had the lock. *)
LEMMA LeaveInv ==
    ASSUME ChannelIInv, NEW c \in Callers, at[c] = "sent", NEW o \in Outcome, Leave(c, o),
           UNCHANGED stage
    PROVE  /\ CallerTypes' /\ Calling' /\ Room' /\ sequence' = sequence
           /\ lockedBy = c /\ lockedBy' = "free"
  <1>1. /\ lockedBy = c /\ lockedBy' = "free" /\ sequence' = sequence
        /\ \A d \in Callers \ {c} : at[d] # "sent"
    BY DEF ChannelIInv, ChannelTypes, CallerTypes, Leave
  <1>2. /\ at' = [at EXCEPT ![c] = "idle"] /\ seq' = [seq EXCEPT ![c] = 0]
        /\ answer' = [answer EXCEPT ![c] = o] /\ kind' = [kind EXCEPT ![c] = "stacks"]
    BY DEF Leave
  <1>3. at \in [Callers -> {"idle", "lock", "sent"}] /\ seq \in [Callers -> Nat]
        /\ answer \in [Callers -> Outcome] /\ kind \in [Callers -> Kinds]
    BY DEF ChannelIInv, ChannelTypes, CallerTypes
  <1>4. CallerTypes'
    <2>1. at' \in [Callers -> {"idle", "lock", "sent"}] /\ seq' \in [Callers -> Nat]
          /\ answer' \in [Callers -> Outcome] /\ kind' \in [Callers -> Kinds]
      BY <1>2, <1>3 DEF Kinds
    <2>2. \A d \in Callers : at'[d] # "sent" /\ lockedBy' # d
      BY <1>1, <1>2, <1>3, ManagedConstants
    <2>3. sequence' \in 0..MaxSeq /\ lockedBy' \in Callers \cup {"free"}
      BY <1>1 DEF ChannelIInv, ChannelTypes, CallerTypes
    <2>4. QED
      BY <2>1, <2>2, <2>3 DEF CallerTypes
  <1>5. Calling'
    BY <1>1, <1>2, <1>3 DEF ChannelIInv, Calling
  <1>6. Waiting' = Waiting
    BY <1>2, <1>3 DEF Waiting
  <1>7. Room'
    BY <1>1, <1>6 DEF ChannelIInv, Room
  <1>8. QED
    BY <1>1, <1>4, <1>5, <1>7

LEMMA RequestInv ==
    ASSUME ChannelIInv, NEW c \in Callers, Request(c)
    PROVE  ChannelIInv'
  <1>1. /\ at[c] = "idle" /\ stage \in {"up", "closed"}
        /\ sequence + Cardinality(Waiting) < MaxSeq
        /\ at' = [at EXCEPT ![c] = "lock"] /\ answer' = [answer EXCEPT ![c] = Failed]
        /\ \E k \in Uses[c] : kind' = [kind EXCEPT ![c] = k]
        /\ UNCHANGED <<ownerVars, sequence, lockedBy, seq, flagVars, pipeVars, childVars, history>>
    BY DEF Request, Waiting
  <1>2. CallerTypes'
    <2>1. PICK k \in Kinds : kind' = [kind EXCEPT ![c] = k]
      BY <1>1, ManagedConstants
    <2>2. kind' \in [Callers -> Kinds] /\ Failed \in Outcome
      BY <2>1 DEF ChannelIInv, ChannelTypes, CallerTypes, Failed, Outcome
    <2>3. QED
      BY <1>1, <2>2 DEF ChannelIInv, ChannelTypes, CallerTypes
  <1>3. Calling'
    BY <1>1 DEF ChannelIInv, ChannelTypes, CallerTypes, Calling, ownerVars
  <1>4. Room'
    <2>1. Waiting' = Waiting \cup {c} /\ c \notin Waiting
      BY <1>1 DEF ChannelIInv, ChannelTypes, CallerTypes, Waiting
    <2>2. QED
      BY <1>1, <2>1, WaitingIsFinite, ManagedConstants DEF ChannelIInv, ChannelTypes, CallerTypes, Room
  <1>5. ChannelTypes'
    BY <1>1, <1>2 DEF ChannelIInv, ChannelTypes, OwnerTypes, FlagTypes, PipeTypes, ChildTypes,
         ownerVars, flagVars, pipeVars, childVars
  <1>6. Numbered' /\ Performed' /\ HonestResponses'
    BY <1>1 DEF ChannelIInv, Numbered, Performed, HonestResponses, pipeVars, childVars
  <1>7. OneWriter' /\ InOrder'
    BY <1>1 DEF ChannelIInv, OneWriter, InOrder, Intact, ownerVars, flagVars, pipeVars, childVars,
         history
  <1>8. Life' /\ SequenceIsAgreed' /\ ClosedIsEmpty'
    BY <1>1 DEF ChannelIInv, Life, SequenceIsAgreed, ClosedIsEmpty, ownerVars, childVars, history
  <1>9. QED
    BY <1>3, <1>4, <1>5, <1>6, <1>7, <1>8 DEF ChannelIInv

(* A caller gives up or is refused while it waits for the lock; it may have spent a number. *)
LEMMA GiveUpInv ==
    ASSUME ChannelIInv, NEW c \in Callers, Busy(c) \/ Refuse(c) \/ QueryRaises(c)
    PROVE  ChannelIInv'
  <1>1. /\ at[c] = "lock" /\ at' = [at EXCEPT ![c] = "idle"]
        /\ kind' = [kind EXCEPT ![c] = "stacks"]
        /\ UNCHANGED <<ownerVars, lockedBy, seq, flagVars, pipeVars, childVars>>
    BY DEF Busy, Refuse, QueryRaises, Spend
  <1>2. /\ answer[c] = Failed /\ answer' = answer
        /\ stage \in {"up", "closed"} /\ seq[c] = 0
    <2>1. answer[c] = Failed /\ stage \in {"up", "closed"} /\ seq[c] = 0
      BY <1>1 DEF ChannelIInv, Calling
    <2>2. answer' = answer
      BY <2>1 DEF Busy, Refuse, QueryRaises, Spend, ChannelIInv, ChannelTypes, CallerTypes
    <2>3. QED
      BY <2>1, <2>2
  <1>3. \/ sequence' = sequence /\ UNCHANGED history
        \/ /\ sequence' = sequence + 1 /\ lockedBy = "free"
           /\ ~Intact /\ UNCHANGED history
        \/ sequence' = sequence + 1 /\ lockedBy = "free" /\ skipped'
    <2>1. CASE Busy(c)
      BY <2>1 DEF Busy
    <2>2. CASE Refuse(c)
      <3>1. ~Usable /\ (stage = "up" => root # "none")
        BY <2>2 DEF Refuse, ChannelIInv, Life
      <3>2. QED
        BY <1>2, <2>2, <3>1 DEF Refuse, Spend, Usable, Alive, Intact, history, ChannelIInv,
             ChannelTypes, ChildTypes
    <2>3. CASE QueryRaises(c)
      BY <2>3 DEF QueryRaises, Spend
    <2>4. QED
      BY <2>1, <2>2, <2>3
  <1>4. /\ c \in Waiting /\ Waiting' = Waiting \ {c}
        /\ Cardinality(Waiting') \in Nat /\ Cardinality(Waiting') + 1 = Cardinality(Waiting)
    <2>1. c \in Waiting /\ Waiting' = Waiting \ {c}
      BY <1>1 DEF ChannelIInv, ChannelTypes, CallerTypes, Waiting
    <2>2. QED
      BY <2>1, WaitingIsFinite
  <1>5. Room' /\ sequence' \in 0..MaxSeq /\ sequence' >= sequence
    BY <1>3, <1>4, ManagedConstants DEF ChannelIInv, ChannelTypes, CallerTypes, Room
  <1>6. CallerTypes'
    BY <1>1, <1>2, <1>5 DEF ChannelIInv, ChannelTypes, CallerTypes, Kinds
  <1>7. Calling'
    <2>1. lockedBy = "free" => \A d \in Callers : at[d] # "sent"
      BY ManagedConstants DEF ChannelIInv, ChannelTypes, CallerTypes
    <2>2. QED
      BY <1>1, <1>2, <1>3, <2>1 DEF ChannelIInv, ChannelTypes, CallerTypes, Calling, ownerVars
  <1>8. ChannelTypes'
    BY <1>1, <1>6 DEF ChannelIInv, ChannelTypes, OwnerTypes, FlagTypes, PipeTypes, ChildTypes,
         ownerVars, flagVars, pipeVars, childVars
  <1>9. Numbered' /\ Performed' /\ HonestResponses'
    <2>1. Numbered'
      <3>1. \A m \in writing : m.seq \in 1..sequence'
        BY <1>5 DEF ChannelIInv, ChannelTypes, CallerTypes, Numbered
      <3>2. \A i \in 1..Len(stdin) : stdin[i].seq \in Nat
        BY Elements DEF ChannelIInv
      <3>3. \A i \in 1..Len(stdin) : stdin[i].seq <= sequence'
        BY <1>5, <3>2 DEF ChannelIInv, ChannelTypes, CallerTypes, Numbered
      <3>4. QED
        BY <1>1, <3>1, <3>3 DEF Numbered, pipeVars
    <2>2. Performed'
      BY <1>1, <1>5 DEF ChannelIInv, ChannelTypes, CallerTypes, ChildTypes, Performed, childVars
    <2>3. HonestResponses'
      <3>1. UNCHANGED <<stdout, responses, done>>
        BY <1>1 DEF pipeVars, childVars
      <3>2. Len(done) \in Nat /\ Len(done) <= sequence /\ sequence \in Nat
        BY DEF ChannelIInv, ChannelTypes, CallerTypes, ChildTypes, Performed
      <3>3. sequence' = sequence \/ sequence' = sequence + 1
        BY <1>3
      <3>4. /\ \A i \in 1..Len(stdout) : stdout[i].seq \in Nat
            /\ \A i \in 1..Len(responses) : responses[i].seq \in Nat
        BY Elements DEF ChannelIInv, Response
      <3>5. ASSUME NEW r, r.seq \in Nat, Honest(r, sequence, done)
            PROVE  Honest(r, sequence', done)
        BY <3>2, <3>3, <3>5 DEF Honest
      <3>6. QED
        BY <3>1, <3>4, <3>5 DEF ChannelIInv, HonestResponses
    <2>4. QED
      BY <2>1, <2>2, <2>3
  <1>10. OneWriter' /\ InOrder'
    BY <1>1, <1>3 DEF ChannelIInv, OneWriter, InOrder, Intact, ownerVars, flagVars, pipeVars,
         childVars, history
  <1>11. Life' /\ SequenceIsAgreed' /\ ClosedIsEmpty'
    BY <1>1, <1>3 DEF ChannelIInv, Life, SequenceIsAgreed, ClosedIsEmpty, ownerVars, childVars, history
  <1>12. QED
    BY <1>5, <1>7, <1>8, <1>9, <1>10, <1>11 DEF ChannelIInv

(* The lock is free and the channel usable: nothing is being written, and the number given is
   the child's next after what is under way. *)
LEMMA SendInv ==
    ASSUME ChannelIInv, NEW c \in Callers, Send(c)
    PROVE  ChannelIInv'
  <1> DEFINE n == sequence + 1
             m == [seq |-> n, kind |-> kind[c]]
  <1>1. /\ at[c] = "lock" /\ lockedBy = "free" /\ Usable
        /\ lockedBy' = c /\ at' = [at EXCEPT ![c] = "sent"]
        /\ sequence' = n /\ seq' = [seq EXCEPT ![c] = n]
        /\ writing' = writing \cup {m}
        /\ UNCHANGED <<ownerVars, kind, answer, flagVars, stdin, stdout, responses, childVars,
                       history>>
    BY DEF Send
  <1>2. writing = {} /\ Intact
    BY <1>1 DEF ChannelIInv, ChannelTypes, ChildTypes, OneWriter, Usable, Alive, Intact
  <1>3. /\ c \in Waiting /\ Waiting' = Waiting \ {c}
        /\ Cardinality(Waiting') \in Nat /\ Cardinality(Waiting') + 1 = Cardinality(Waiting)
    <2>1. c \in Waiting /\ Waiting' = Waiting \ {c}
      BY <1>1 DEF ChannelIInv, ChannelTypes, CallerTypes, Waiting
    <2>2. QED
      BY <2>1, WaitingIsFinite
  <1>4. Room' /\ n \in 0..MaxSeq /\ sequence \in Nat /\ n > 0
    BY <1>1, <1>3, ManagedConstants DEF ChannelIInv, ChannelTypes, CallerTypes, Room
  <1>5. CallerTypes' /\ Calling'
    <2>1. \A d \in Callers : at[d] # "sent"
      BY <1>1, ManagedConstants DEF ChannelIInv, ChannelTypes, CallerTypes
    <2>2. CallerTypes'
      BY <1>1, <1>4, <2>1 DEF ChannelIInv, ChannelTypes, CallerTypes
    <2>3. Calling'
      BY <1>1, <1>4, <2>1 DEF ChannelIInv, ChannelTypes, CallerTypes, Calling, ownerVars
    <2>4. QED
      BY <2>2, <2>3
  <1>6. m \in Message /\ m.seq = n
    BY <1>4 DEF ChannelIInv, ChannelTypes, CallerTypes, Message
  <1> HIDE DEF m
  <1>7. ChannelTypes'
    BY <1>1, <1>5, <1>6 DEF ChannelIInv, ChannelTypes, OwnerTypes, FlagTypes, PipeTypes, ChildTypes,
         ownerVars, flagVars, childVars
  <1>8. Numbered'
    <2>1. \A i \in 1..Len(stdin) : stdin[i].seq \in Nat
      BY Elements DEF ChannelIInv
    <2>2. \A i \in 1..Len(stdin) : stdin[i].seq <= n
      BY <1>4, <2>1 DEF ChannelIInv, Numbered
    <2>3. QED
      BY <1>1, <1>2, <1>4, <1>6, <2>2 DEF Numbered
  <1>9. Performed' /\ HonestResponses'
    <2>1. Performed'
      BY <1>1, <1>4 DEF ChannelIInv, ChannelTypes, ChildTypes, Performed, childVars
    <2>2. HonestResponses'
      BY <1>1, <1>4 DEF ChannelIInv, ChannelTypes, ChildTypes, Performed, HonestResponses, Honest,
           childVars
    <2>3. QED
      BY <2>1, <2>2
  <1>10. OneWriter'
    BY <1>1, <1>2, <1>5, <1>6, ManagedConstants DEF OneWriter, ChannelIInv, ChannelTypes, CallerTypes
  <1>11. InOrder'
    BY <1>1, <1>2, <1>4, <1>6 DEF ChannelIInv, InOrder, ChannelTypes, ChildTypes, PipeTypes, childVars,
         history
  <1>12. Life' /\ SequenceIsAgreed' /\ ClosedIsEmpty'
    BY <1>1 DEF ChannelIInv, Life, SequenceIsAgreed, ClosedIsEmpty, ownerVars, childVars, history
  <1>13. QED
    BY <1>4, <1>5, <1>7, <1>8, <1>9, <1>10, <1>11, <1>12 DEF ChannelIInv

(* What is left of a sequence without its first element. *)
LEMMA TailElements ==
    ASSUME NEW S, NEW s \in Seq(S), s # <<>>
    PROVE  /\ Tail(s) \in Seq(S) /\ Len(Tail(s)) = Len(s) - 1 /\ Len(s) \in Nat \ {0}
           /\ Head(s) = s[1] /\ Head(s) \in S
           /\ \A i \in 1..Len(Tail(s)) : Tail(s)[i] = s[i + 1] /\ i + 1 \in 1..Len(s)
  OBVIOUS

(* The response that a caller takes for its own is the outcome of its request. *)
LEMMA AnswerIsOwn ==
    ASSUME ChannelIInv, NEW c \in Callers, at[c] = "sent", responses # <<>>,
           IsOwn(c, Head(responses))
    PROVE  /\ seq[c] \in 1..Len(done)
           /\ done[seq[c]] = [kind |-> Head(responses).kind, ok |-> Head(responses).ok]
           /\ done[seq[c]] \in [kind : Kinds, ok : BOOLEAN]
  <1>1. 1 \in 1..Len(responses) /\ Head(responses) = responses[1]
    BY TailElements DEF ChannelIInv, ChannelTypes, PipeTypes
  <1>2. /\ Honest(responses[1], sequence, done) /\ responses[1].seq \in Nat
        /\ responses[1].seq = sequence /\ seq[c] = sequence /\ sequence > 0
    BY <1>1, Elements DEF ChannelIInv, HonestResponses, Calling, IsOwn
  <1>3. seq[c] \in 1..Len(done)
    BY <1>2, Elements DEF ChannelIInv, Honest
  <1>4. done[seq[c]] \in [kind : Kinds, ok : BOOLEAN]
    <2> DEFINE S == [kind : Kinds, ok : BOOLEAN]
    <2>1. done \in Seq(S)
      BY DEF ChannelIInv, ChannelTypes, ChildTypes
    <2> HIDE DEF S
    <2>2. done[seq[c]] \in S
      BY <1>3, <2>1
    <2>3. QED
      BY <2>2 DEF S
  <1>5. QED
    BY <1>1, <1>2, <1>3, <1>4 DEF Honest

(* The holder of the lock gives up, or gets an answer or a failure from the queue. *)
LEMMA OutcomeInv ==
    ASSUME ChannelIInv, NEW c \in Callers,
           \/ WriteTimesOut(c) \/ AnswerTimesOut(c)
           \/ Answered(c) \/ Mismatch(c) \/ ReaderReported(c)
    PROVE  ChannelIInv'
  <1>1. /\ at[c] = "sent" /\ readFailure' = readFailure
        /\ \A m \in writing : writeFailed' \/ m.seq # seq[c]
        /\ UNCHANGED <<ownerVars, writing, stdin, stdout, childVars, history>>
        /\ responses' = responses \/ (responses # <<>> /\ responses' = Tail(responses))
    BY DEF WriteTimesOut, AnswerTimesOut, Answered, Mismatch, ReaderReported, Waits, Blocked,
         flagVars, pipeVars, history
  <1>2. \E o \in Outcome : Leave(c, o)
    <2>1. Failed \in Outcome
      BY DEF Failed, Outcome
    <2>2. CASE Answered(c)
      BY <1>1, <2>2, AnswerIsOwn DEF Answered, Outcome
    <2>3. CASE ~Answered(c)
      BY <2>1, <2>3 DEF WriteTimesOut, AnswerTimesOut, Mismatch, ReaderReported
    <2>4. QED
      BY <2>2, <2>3
  <1>3. /\ CallerTypes' /\ Calling' /\ Room' /\ sequence' = sequence
        /\ lockedBy = c /\ lockedBy' = "free"
    BY <1>1, <1>2, LeaveInv DEF ownerVars
  <1>4. /\ protocolFailure' \in BOOLEAN /\ writeFailed' \in BOOLEAN
        /\ protocolFailure => protocolFailure'
        /\ writeFailed => writeFailed'
    BY DEF WriteTimesOut, AnswerTimesOut, Answered, Mismatch, ReaderReported, flagVars,
         ChannelIInv, ChannelTypes, FlagTypes
  <1>5. /\ responses' \in Seq(Response) /\ Len(responses') <= QueueLimit
        /\ \A i \in 1..Len(responses') : Honest(responses'[i], sequence, done)
    <2>1. CASE responses' = responses
      BY <2>1 DEF ChannelIInv, ChannelTypes, PipeTypes, HonestResponses
    <2>2. CASE responses # <<>> /\ responses' = Tail(responses)
      <3>1. /\ Tail(responses) \in Seq(Response) /\ Len(Tail(responses)) = Len(responses) - 1
            /\ Len(responses) \in Nat
            /\ \A i \in 1..Len(Tail(responses)) : /\ Tail(responses)[i] = responses[i + 1]
                                                  /\ i + 1 \in 1..Len(responses)
        BY <2>2, TailElements DEF ChannelIInv, ChannelTypes, PipeTypes
      <3>2. Len(responses) <= QueueLimit /\ QueueLimit \in Nat
        BY ManagedConstants DEF ChannelIInv, ChannelTypes, PipeTypes
      <3>3. QED
        BY <2>2, <3>1, <3>2 DEF ChannelIInv, HonestResponses
    <2>3. QED
      BY <1>1, <2>1, <2>2
  <1>6. ChannelTypes'
    BY <1>1, <1>3, <1>4, <1>5 DEF ChannelIInv, ChannelTypes, OwnerTypes, FlagTypes, PipeTypes,
         ChildTypes, ownerVars, childVars
  <1>7. Numbered' /\ Performed' /\ HonestResponses'
    BY <1>1, <1>3, <1>5 DEF ChannelIInv, Numbered, Performed, HonestResponses, childVars
  <1>8. OneWriter'
    BY <1>1, <1>3, <1>4 DEF ChannelIInv, OneWriter
  <1>9. InOrder'
    BY <1>1, <1>3, <1>4 DEF ChannelIInv, InOrder, Intact, ownerVars, childVars, history
  <1>10. Life' /\ SequenceIsAgreed' /\ ClosedIsEmpty'
    BY <1>1 DEF ChannelIInv, Life, SequenceIsAgreed, ClosedIsEmpty, ownerVars, childVars, history
  <1>11. QED
    BY <1>3, <1>6, <1>7, <1>8, <1>9, <1>10 DEF ChannelIInv

(* The writer thread ends. *)
LEMMA WriterInv ==
    ASSUME ChannelIInv, NEW m \in writing, WriterEnds(m) \/ WriterFails(m)
    PROVE  ChannelIInv'
  <1>1. /\ writing' = {} /\ m \in Message
        /\ UNCHANGED <<ownerVars, flagVars, stdout, responses, childVars, history>>
    BY DEF WriterEnds, WriterFails, ChannelIInv, ChannelTypes, PipeTypes, OneWriter
  <1>2. CASE WriterEnds(m)
    <2>1. stdin' = Append(stdin, m) /\ UNCHANGED callerVars
      BY <1>2 DEF WriterEnds
    <2>2. /\ stdin' \in Seq(Message) /\ Len(stdin') = Len(stdin) + 1 /\ Len(stdin) \in Nat
          /\ \A i \in 1..Len(stdin) : stdin'[i] = stdin[i]
          /\ stdin'[Len(stdin) + 1] = m
      BY <1>1, <2>1 DEF ChannelIInv, ChannelTypes, PipeTypes
    <2>3. ChannelTypes'
      BY <1>1, <2>1, <2>2 DEF ChannelIInv, ChannelTypes, CallerTypes, OwnerTypes, FlagTypes,
           PipeTypes, ChildTypes, callerVars, ownerVars, flagVars, childVars
    <2>4. Calling' /\ Room'
      BY <1>1, <2>1 DEF ChannelIInv, Calling, Room, Waiting, callerVars, ownerVars
    <2>5. Performed' /\ HonestResponses' /\ OneWriter'
      BY <1>1, <2>1 DEF ChannelIInv, Performed, HonestResponses, OneWriter, callerVars, childVars
    <2>6. Numbered'
      <3>1. \A i \in 1..Len(stdin') : i \in 1..Len(stdin) \/ i = Len(stdin) + 1
        BY <2>2
      <3>2. m.seq <= sequence /\ sequence' = sequence
        BY <2>1, Elements DEF ChannelIInv, Numbered, callerVars
      <3>3. QED
        BY <1>1, <2>2, <3>1, <3>2 DEF ChannelIInv, Numbered
    <2>7. InOrder'
      <3> SUFFICES ASSUME ~skipped
                   PROVE  /\ \A i \in 1..Len(stdin') : stdin'[i].seq = loop.last + i
                          /\ Intact => sequence = loop.last + Len(stdin')
        <4>1. /\ writing' = {} /\ loop' = loop /\ skipped' = skipped /\ sequence' = sequence
              /\ Intact' <=> Intact
          BY <1>1, <2>1 DEF Intact, callerVars, ownerVars, flagVars, childVars, history
        <4>2. loop.last + Len(stdin') + 0 = loop.last + Len(stdin')
          BY <2>2, Elements DEF ChannelIInv
        <4>3. QED
          BY <4>1, <4>2 DEF InOrder
      <3>1. /\ \A i \in 1..Len(stdin) : stdin[i].seq = loop.last + i
            /\ m.seq = loop.last + Len(stdin) + 1
            /\ Intact => sequence = loop.last + Len(stdin) + 1
        BY DEF ChannelIInv, InOrder
      <3>2. \A i \in 1..Len(stdin') : i \in 1..Len(stdin) \/ i = Len(stdin) + 1
        BY <2>2
      <3>3. \A i \in 1..Len(stdin') : stdin'[i].seq = loop.last + i
        <4>1. loop.last \in Nat /\ Len(stdin) \in Nat
          BY Elements DEF ChannelIInv
        <4>2. loop.last + Len(stdin) + 1 = loop.last + (Len(stdin) + 1)
          BY <4>1
        <4>3. QED
          BY <2>2, <3>1, <3>2, <4>2
      <3>4. QED
        BY <2>2, <3>1, <3>3, Elements DEF ChannelIInv
    <2>8. Life' /\ SequenceIsAgreed' /\ ClosedIsEmpty'
      BY <1>1 DEF ChannelIInv, Life, SequenceIsAgreed, ClosedIsEmpty, ownerVars, childVars, history
    <2>9. QED
      BY <2>3, <2>4, <2>5, <2>6, <2>7, <2>8 DEF ChannelIInv
  <1>3. CASE WriterFails(m)
    <2>1. /\ stdin' = stdin /\ ~Intact
          /\ \/ lockedBy # "free" /\ Leave(lockedBy, Failed)
             \/ UNCHANGED callerVars
      BY <1>3 DEF WriterFails, Intact
    <2>2. CallerTypes' /\ Calling' /\ Room' /\ sequence' = sequence
      <3>1. CASE lockedBy # "free" /\ Leave(lockedBy, Failed)
        <4>1. lockedBy \in Callers /\ at[lockedBy] = "sent" /\ Failed \in Outcome
          BY <3>1 DEF ChannelIInv, ChannelTypes, CallerTypes, Failed, Outcome
        <4>2. QED
          BY <1>1, <3>1, <4>1, LeaveInv DEF ownerVars
      <3>2. CASE UNCHANGED callerVars
        BY <1>1, <3>2 DEF ChannelIInv, ChannelTypes, CallerTypes, Calling, Room, Waiting, callerVars,
             ownerVars
      <3>3. QED
        BY <2>1, <3>1, <3>2
    <2>3. ChannelTypes'
      BY <1>1, <2>1, <2>2 DEF ChannelIInv, ChannelTypes, OwnerTypes, FlagTypes,
           PipeTypes, ChildTypes, ownerVars, flagVars, childVars
    <2>4. Numbered' /\ Performed' /\ HonestResponses' /\ OneWriter'
      BY <1>1, <2>1, <2>2 DEF ChannelIInv, Numbered, Performed, HonestResponses, OneWriter, childVars
    <2>5. InOrder'
      BY <1>1, <2>1 DEF ChannelIInv, InOrder, Intact, ownerVars, flagVars, childVars, history
    <2>6. Life' /\ SequenceIsAgreed' /\ ClosedIsEmpty'
      BY <1>1 DEF ChannelIInv, Life, SequenceIsAgreed, ClosedIsEmpty, ownerVars, childVars, history
    <2>7. QED
      BY <2>2, <2>3, <2>4, <2>5, <2>6 DEF ChannelIInv
  <1>4. QED
    BY <1>2, <1>3

----------------------------------------------------------------------------
(* What the owner, the reader and the child do: the callers' side stays as it is. *)

(* The process is created, ended and closed by the owner's thread. *)
LEMMA OwnerInv ==
    ASSUME ChannelIInv, Initialize \/ End
    PROVE  ChannelIInv'
  <1>1. /\ UNCHANGED <<callerVars, flagVars, pipeVars, others, loop, resets, done, rejected, history>>
        /\ stage' = "closed" => stage = "closed" \/ Close
        /\ stage \in {"up", "closed"} => stage' \in {"up", "closed"}
        /\ root' = "exited" => root = "exited"
    BY DEF Initialize, CreateJob, Spawn, StartReader, InitializeFails, End, Terminate, Confirm, Close,
         childVars, ChannelIInv, Life
  <1>2. OwnerTypes' /\ root' \in {"none", "alive", "exited"}
    BY DEF Initialize, CreateJob, Spawn, StartReader, InitializeFails, End, Terminate, Confirm, Close,
         childVars, ownerVars, ChannelIInv, ChannelTypes, OwnerTypes, ChildTypes
  <1>3. ChannelTypes'
    BY <1>1, <1>2 DEF ChannelIInv, ChannelTypes, CallerTypes, FlagTypes, PipeTypes, ChildTypes,
         callerVars, flagVars, pipeVars
  <1>4. Calling' /\ Room'
    BY <1>1 DEF ChannelIInv, Calling, Room, Waiting, callerVars
  <1>5. Numbered' /\ Performed' /\ HonestResponses' /\ OneWriter'
    BY <1>1 DEF ChannelIInv, Numbered, Performed, HonestResponses, OneWriter, callerVars, flagVars,
         pipeVars
  <1>6. ASSUME Initialize
        PROVE  Life' /\ ClosedIsEmpty' /\ stage # "closed" /\ (root = "exited" => root' = "exited")
    <2>1. CASE CreateJob
      BY <2>1 DEF CreateJob, childVars, ChannelIInv, Life, ClosedIsEmpty
    <2>2. CASE Spawn
      BY <2>2 DEF Spawn, ChannelIInv, Life, ClosedIsEmpty
    <2>3. CASE StartReader
      BY <2>3 DEF StartReader, childVars, ChannelIInv, Life, ClosedIsEmpty
    <2>4. CASE InitializeFails
      BY <2>4 DEF InitializeFails, childVars, ChannelIInv, Life, ClosedIsEmpty
    <2>5. QED
      BY <1>6, <2>1, <2>2, <2>3, <2>4 DEF Initialize
  <1>7. ASSUME End
        PROVE  Life' /\ ClosedIsEmpty' /\ stage # "closed" /\ (root = "exited" => root' = "exited")
    <2>1. CASE Terminate
      BY <2>1 DEF Terminate, childVars, ChannelIInv, Life, ClosedIsEmpty
    <2>2. CASE Confirm
      BY <2>2 DEF Confirm, childVars, ChannelIInv, Life, ClosedIsEmpty
    <2>3. CASE Close
      BY <2>3 DEF Close, HasProcess, JobEnded, childVars, ChannelIInv, ChannelTypes, OwnerTypes, Life,
           ClosedIsEmpty
    <2>4. QED
      BY <1>7, <2>1, <2>2, <2>3 DEF End
  <1>8. InOrder' /\ SequenceIsAgreed'
    <2>1. Intact' => Intact
      BY <1>1, <1>6, <1>7 DEF Intact, flagVars
    <2>2. QED
      BY <1>1, <2>1 DEF ChannelIInv, InOrder, SequenceIsAgreed, callerVars, pipeVars, history
  <1>9. QED
    BY <1>3, <1>4, <1>5, <1>6, <1>7, <1>8 DEF ChannelIInv

(* The reader moves responses from the pipe to the queue, and ends with the pipe. *)
LEMMA ReadInv ==
    ASSUME ChannelIInv, Read
    PROVE  ChannelIInv'
  <1>1. /\ UNCHANGED <<stage, owner, callerVars, protocolFailure, writeFailed, writing, stdin, childVars,
                       history>>
        /\ reader = "on" /\ reader' \in {"on", "ended"}
    BY DEF Read, ReaderTakes, ReaderOverflows, ReaderEnds, ownerVars, flagVars, history
  <1>2. readFailure' \in BOOLEAN /\ (readFailure => readFailure')
    BY DEF Read, ReaderTakes, ReaderOverflows, ReaderEnds, flagVars, ChannelIInv, ChannelTypes,
         FlagTypes
  <1>3. /\ stdout' \in Seq(Response)
        /\ \A i \in 1..Len(stdout') : Honest(stdout'[i], sequence, done)
    <2>1. CASE stdout' = stdout
      BY <2>1 DEF ChannelIInv, ChannelTypes, PipeTypes, HonestResponses
    <2>2. CASE stdout # <<>> /\ stdout' = Tail(stdout)
      BY <2>2, TailElements DEF ChannelIInv, ChannelTypes, PipeTypes, HonestResponses
    <2>3. QED
      BY <2>1, <2>2 DEF Read, ReaderTakes, ReaderOverflows, ReaderEnds
  <1>4. /\ responses' \in Seq(Response) /\ Len(responses') <= QueueLimit
        /\ \A i \in 1..Len(responses') : Honest(responses'[i], sequence, done)
    <2>1. CASE responses' = responses
      BY <2>1 DEF ChannelIInv, ChannelTypes, PipeTypes, HonestResponses
    <2>2. CASE \E r \in Response : /\ Len(responses) < QueueLimit /\ responses' = Append(responses, r)
                                   /\ Honest(r, sequence, done)
      <3>1. PICK r \in Response : /\ Len(responses) < QueueLimit /\ responses' = Append(responses, r)
                                  /\ Honest(r, sequence, done)
        BY <2>2
      <3>2. /\ responses' \in Seq(Response) /\ Len(responses') = Len(responses) + 1
            /\ Len(responses) \in Nat
            /\ \A i \in 1..Len(responses) : responses'[i] = responses[i]
            /\ responses'[Len(responses) + 1] = r
        BY <3>1 DEF ChannelIInv, ChannelTypes, PipeTypes
      <3>3. \A i \in 1..Len(responses') : i \in 1..Len(responses) \/ i = Len(responses) + 1
        BY <3>2
      <3>4. QED
        BY <3>1, <3>2, <3>3, ManagedConstants DEF ChannelIInv, HonestResponses
    <2>3. EOF \in Response /\ Honest(EOF, sequence, done)
      BY Elements DEF EOF, Response, Honest, ChannelIInv
    <2>4. stdout # <<>> => Head(stdout) \in Response /\ Honest(Head(stdout), sequence, done)
      BY TailElements DEF ChannelIInv, ChannelTypes, PipeTypes, HonestResponses
    <2>5. QED
      BY <2>1, <2>2, <2>3, <2>4 DEF Read, ReaderTakes, ReaderOverflows, ReaderEnds
  <1>5. ChannelTypes'
    BY <1>1, <1>2, <1>3, <1>4 DEF ChannelIInv, ChannelTypes, CallerTypes, OwnerTypes, FlagTypes,
         PipeTypes, ChildTypes, callerVars, childVars
  <1>6. Calling' /\ Room'
    BY <1>1 DEF ChannelIInv, Calling, Room, Waiting, callerVars
  <1>7. Numbered' /\ Performed' /\ HonestResponses' /\ OneWriter'
    BY <1>1, <1>3, <1>4 DEF ChannelIInv, Numbered, Performed, HonestResponses, OneWriter, callerVars,
         childVars
  <1>8. InOrder' /\ SequenceIsAgreed'
    BY <1>1, <1>2 DEF ChannelIInv, InOrder, Intact, SequenceIsAgreed, callerVars, childVars, history
  <1>9. Life' /\ ClosedIsEmpty'
    BY <1>1 DEF ChannelIInv, Life, ClosedIsEmpty, childVars
  <1>10. QED
    BY <1>5, <1>6, <1>7, <1>8, <1>9 DEF ChannelIInv

(* The child refuses a number that is not its next: without a failed query that cannot be. *)
LEMMA RejectsInv ==
    ASSUME ChannelIInv, ChildRejects
    PROVE  ChannelIInv'
  <1>1. /\ stdin # <<>> /\ stdin[1].seq # loop.last + 1 /\ stdin' = Tail(stdin)
        /\ root' = "exited" /\ root = "alive"
        /\ UNCHANGED <<ownerVars, callerVars, flagVars, writing, stdout, responses, others, loop,
                       resets, done, history>>
    BY TailElements DEF ChildRejects, ChannelIInv, ChannelTypes, PipeTypes
  <1>2. /\ Tail(stdin) \in Seq(Message) /\ 1 \in 1..Len(stdin)
        /\ \A i \in 1..Len(Tail(stdin)) : Tail(stdin)[i] = stdin[i + 1] /\ i + 1 \in 1..Len(stdin)
    BY <1>1, TailElements DEF ChannelIInv, ChannelTypes, PipeTypes
  <1>3. skipped
    BY <1>1, <1>2 DEF ChannelIInv, InOrder
  <1>4. ChannelTypes'
    BY <1>1, <1>2 DEF ChannelIInv, ChannelTypes, CallerTypes, OwnerTypes, FlagTypes, PipeTypes,
         ChildTypes, callerVars, ownerVars, flagVars
  <1>5. Calling' /\ Room' /\ Performed' /\ HonestResponses' /\ OneWriter'
    BY <1>1 DEF ChannelIInv, Calling, Room, Waiting, Performed, HonestResponses, OneWriter, callerVars,
         ownerVars, flagVars
  <1>6. Numbered'
    BY <1>1, <1>2 DEF ChannelIInv, Numbered, callerVars
  <1>7. InOrder' /\ SequenceIsAgreed'
    BY <1>1, <1>3 DEF InOrder, SequenceIsAgreed, history
  <1>8. Life' /\ ClosedIsEmpty'
    BY <1>1 DEF ChannelIInv, Life, ClosedIsEmpty, ownerVars
  <1>9. QED
    BY <1>4, <1>5, <1>6, <1>7, <1>8 DEF ChannelIInv

(* The child performs its next request. *)
LEMMA PerformsInv ==
    ASSUME ChannelIInv, ChildPerforms
    PROVE  ChannelIInv'
  <1> DEFINE n == loop.last + 1
             k == stdin[1].kind
  <1>1. /\ stdin # <<>> /\ stdin[1].seq = n /\ stdin' = Tail(stdin)
        /\ root = "alive" /\ root' = root
        /\ UNCHANGED <<ownerVars, callerVars, flagVars, writing, stdout, responses, rejected, history>>
    BY TailElements DEF ChildPerforms, ChannelIInv, ChannelTypes, PipeTypes
  <1>2. /\ Tail(stdin) \in Seq(Message) /\ 1 \in 1..Len(stdin) /\ Len(Tail(stdin)) = Len(stdin) - 1
        /\ \A i \in 1..Len(Tail(stdin)) : Tail(stdin)[i] = stdin[i + 1] /\ i + 1 \in 1..Len(stdin)
        /\ stdin[1] \in Message /\ Len(stdin) \in Nat
    BY <1>1, TailElements DEF ChannelIInv, ChannelTypes, PipeTypes
  <1>3. PICK ok \in BOOLEAN :
          /\ loop' = [last |-> n, reply |-> [seq |-> n, kind |-> k, ok |-> ok]]
          /\ done' = Append(done, [kind |-> k, ok |-> ok])
          /\ resets' = Resets(k, ok)
    <2>1. Head(stdin) = stdin[1]
      BY <1>1, TailElements DEF ChannelIInv, ChannelTypes, PipeTypes
    <2>2. QED
      BY <2>1 DEF ChildPerforms
  <1>4. others' \in BOOLEAN
    BY DEF ChildPerforms, ChannelIInv, ChannelTypes, ChildTypes
  <1>5. k \in Kinds /\ loop.last \in Nat /\ n \in Nat /\ n <= sequence
    BY <1>1, <1>2, Elements DEF Message, ChannelIInv, Numbered
  <1>6. /\ loop' \in [last : Nat, reply : Response] /\ loop'.last = n
        /\ loop'.reply = [seq |-> n, kind |-> k, ok |-> ok]
        /\ resets' \in {"none", "armed", "ran"}
    BY <1>3, <1>5 DEF Response, Resets, ChannelIInv, ChannelTypes, ChildTypes
  <1>7. /\ done' \in Seq([kind : Kinds, ok : BOOLEAN]) /\ Len(done) \in Nat
        /\ Len(done') = Len(done) + 1 /\ done'[Len(done) + 1] = [kind |-> k, ok |-> ok]
        /\ \A i \in 1..Len(done) : done'[i] = done[i]
    BY <1>3, <1>5 DEF ChannelIInv, ChannelTypes, ChildTypes
  <1>8. Len(done) = loop.last
    BY DEF ChannelIInv, Performed
  <1>9. ChannelTypes'
    BY <1>1, <1>2, <1>4, <1>6, <1>7 DEF ChannelIInv, ChannelTypes, CallerTypes, OwnerTypes, FlagTypes,
         PipeTypes, ChildTypes, callerVars, ownerVars, flagVars
  <1>10. Calling' /\ Room' /\ OneWriter'
    BY <1>1 DEF ChannelIInv, Calling, Room, Waiting, OneWriter, callerVars, ownerVars, flagVars
  <1>11. Numbered'
    BY <1>1, <1>2 DEF ChannelIInv, Numbered, callerVars
  <1>12. Performed'
    BY <1>1, <1>5, <1>6, <1>7, <1>8 DEF Performed, callerVars
  <1>13. HonestResponses'
    <2>1. ASSUME NEW r, r.seq \in Nat, Honest(r, sequence, done)
          PROVE  Honest(r, sequence, done')
      BY <1>7, <2>1 DEF Honest
    <2>2. QED
      BY <1>1, <2>1, Elements DEF ChannelIInv, HonestResponses, callerVars
  <1>14. InOrder'
    <2> SUFFICES ASSUME ~skipped
                 PROVE  /\ \A i \in 1..Len(Tail(stdin)) : Tail(stdin)[i].seq = n + i
                        /\ \A m \in writing : m.seq = n + Len(Tail(stdin)) + 1
                        /\ Intact => sequence = n + Len(Tail(stdin)) + IF writing = {} THEN 0 ELSE 1
      BY <1>1, <1>6 DEF InOrder, Intact, callerVars, ownerVars, flagVars, history
    <2>1. /\ \A i \in 1..Len(stdin) : stdin[i].seq = loop.last + i
          /\ \A m \in writing : m.seq = loop.last + Len(stdin) + 1
          /\ Intact => sequence = loop.last + Len(stdin) + IF writing = {} THEN 0 ELSE 1
      BY DEF ChannelIInv, InOrder
    <2>2. n + Len(Tail(stdin)) = loop.last + Len(stdin)
      BY <1>2, <1>5
    <2>3. ASSUME NEW i \in 1..Len(Tail(stdin)) PROVE Tail(stdin)[i].seq = n + i
      <3>1. Tail(stdin)[i].seq = loop.last + (i + 1)
        BY <1>2, <2>1
      <3>2. QED
        BY <1>5, <3>1
    <2>4. QED
      BY <2>1, <2>2, <2>3
  <1>15. Life' /\ SequenceIsAgreed' /\ ClosedIsEmpty'
    BY <1>1 DEF ChannelIInv, Life, SequenceIsAgreed, ClosedIsEmpty, ownerVars, history
  <1>16. QED
    BY <1>9, <1>10, <1>11, <1>12, <1>13, <1>14, <1>15 DEF ChannelIInv

(* The child answers, or an injected fault takes or alters the answer: an altered number is
   never the last that was given. *)
LEMMA AnswersInv ==
    ASSUME ChannelIInv, ChildAnswers \/ ResponseFault
    PROVE  ChannelIInv'
  <1> DEFINE a == loop.reply
  <1>1. /\ a # Nothing /\ root = "alive" /\ root' \in {"alive", "exited"}
        /\ loop' = [loop EXCEPT !.reply = Nothing]
        /\ UNCHANGED <<ownerVars, callerVars, flagVars, writing, stdin, responses, others, resets,
                       done, rejected, skipped>>
        /\ \/ stdout' = stdout \/ stdout' = Append(stdout, a)
           \/ stdout' = Append(stdout, [a EXCEPT !.seq = @ - 1])
    BY DEF ChildAnswers, ResponseFault, history
  <1>2. /\ a \in Response /\ a.seq = loop.last /\ loop.last > 0 /\ loop.last = Len(done)
        /\ loop.last <= sequence /\ done[loop.last] = [kind |-> a.kind, ok |-> a.ok]
        /\ loop.last \in Nat /\ sequence \in Nat
    BY <1>1, Elements DEF ChannelIInv, ChannelTypes, ChildTypes, Performed
  <1>3. loop' \in [last : Nat, reply : Response] /\ loop'.last = loop.last /\ loop'.reply = Nothing
    BY <1>1 DEF ChannelIInv, ChannelTypes, ChildTypes, Response, Nothing
  <1>4. /\ stdout' \in Seq(Response)
        /\ \A i \in 1..Len(stdout') : Honest(stdout'[i], sequence, done)
    <2>1. Honest(a, sequence, done)
      BY <1>2 DEF Honest
    <2>2. /\ [a EXCEPT !.seq = @ - 1] \in Response
          /\ Honest([a EXCEPT !.seq = @ - 1], sequence, done)
      BY <1>2 DEF Honest, Response
    <2>3. ASSUME NEW r \in Response, Honest(r, sequence, done), stdout' = Append(stdout, r)
          PROVE  /\ stdout' \in Seq(Response)
                 /\ \A i \in 1..Len(stdout') : Honest(stdout'[i], sequence, done)
      <3>1. /\ stdout' \in Seq(Response) /\ Len(stdout') = Len(stdout) + 1 /\ Len(stdout) \in Nat
            /\ \A i \in 1..Len(stdout) : stdout'[i] = stdout[i]
            /\ stdout'[Len(stdout) + 1] = r
        BY <2>3 DEF ChannelIInv, ChannelTypes, PipeTypes
      <3>2. \A i \in 1..Len(stdout') : i \in 1..Len(stdout) \/ i = Len(stdout) + 1
        BY <3>1
      <3>3. QED
        BY <2>3, <3>1, <3>2 DEF ChannelIInv, HonestResponses
    <2>4. CASE stdout' = stdout
      BY <2>4 DEF ChannelIInv, ChannelTypes, PipeTypes, HonestResponses
    <2>5. QED
      BY <1>1, <1>2, <2>1, <2>2, <2>3, <2>4
  <1>5. ChannelTypes'
    BY <1>1, <1>3, <1>4 DEF ChannelIInv, ChannelTypes, CallerTypes, OwnerTypes, FlagTypes, PipeTypes,
         ChildTypes, callerVars, ownerVars, flagVars
  <1>6. Calling' /\ Room' /\ OneWriter' /\ Numbered'
    BY <1>1 DEF ChannelIInv, Calling, Room, Waiting, OneWriter, Numbered, callerVars, ownerVars, flagVars
  <1>7. Performed'
    BY <1>1, <1>2, <1>3 DEF Performed, callerVars
  <1>8. HonestResponses'
    BY <1>1, <1>4 DEF ChannelIInv, HonestResponses, callerVars
  <1>9. InOrder'
    <2>1. Intact' => Intact
      BY <1>1 DEF Intact, ownerVars, flagVars
    <2>2. QED
      BY <1>1, <1>3, <2>1 DEF ChannelIInv, InOrder, callerVars
  <1>10. Life' /\ SequenceIsAgreed' /\ ClosedIsEmpty'
    BY <1>1 DEF ChannelIInv, Life, SequenceIsAgreed, ClosedIsEmpty, ownerVars
  <1>11. QED
    BY <1>5, <1>6, <1>7, <1>8, <1>9, <1>10 DEF ChannelIInv

(* The timer of a failed stop, and the end of a process. *)
LEMMA ProcessInv ==
    ASSUME ChannelIInv, QuiesceAfterFailedStop \/ ProcessEnds \/ UNCHANGED vars
    PROVE  ChannelIInv'
  <1>1. /\ UNCHANGED <<ownerVars, callerVars, flagVars, pipeVars, loop, done, rejected, skipped>>
        /\ resets' \in {"none", "armed", "ran"}
        /\ root' = root \/ (root = "alive" /\ root' = "exited")
    BY DEF QuiesceAfterFailedStop, ProcessEnds, vars, childVars, history, ChannelIInv, ChannelTypes,
         ChildTypes
  <1>2. others' \in BOOLEAN /\ (others' => others)
    <2>1. others \in BOOLEAN
      BY DEF ChannelIInv, ChannelTypes, ChildTypes
    <2>2. others' = others \/ others' = FALSE
      BY DEF QuiesceAfterFailedStop, ProcessEnds, vars, childVars
    <2>3. CASE others' = others
      BY <2>1, <2>3
    <2>4. CASE others' = FALSE
      BY <2>4
    <2>5. QED
      BY <2>2, <2>3, <2>4
  <1>3. ChannelTypes'
    BY <1>1, <1>2 DEF ChannelIInv, ChannelTypes, CallerTypes, OwnerTypes, FlagTypes, PipeTypes,
         ChildTypes, callerVars, ownerVars, flagVars, pipeVars
  <1>4. Calling' /\ Room' /\ OneWriter' /\ Numbered' /\ Performed' /\ HonestResponses'
    BY <1>1 DEF ChannelIInv, Calling, Room, Waiting, OneWriter, Numbered, Performed, HonestResponses,
         callerVars, ownerVars, flagVars, pipeVars
  <1>5. InOrder'
    <2>1. Intact' => Intact
      BY <1>1 DEF Intact, ownerVars, flagVars
    <2>2. QED
      BY <1>1, <2>1 DEF ChannelIInv, InOrder, callerVars, pipeVars
  <1>6. Life' /\ SequenceIsAgreed' /\ ClosedIsEmpty'
    BY <1>1, <1>2 DEF ChannelIInv, Life, SequenceIsAgreed, ClosedIsEmpty, ownerVars
  <1>7. QED
    BY <1>3, <1>4, <1>5, <1>6 DEF ChannelIInv

LEMMA ChannelNext == ChannelIInv /\ [Next]_vars => ChannelIInv'
  <1> SUFFICES ASSUME ChannelIInv, [Next]_vars PROVE ChannelIInv'
    OBVIOUS
  <1>1. CASE Initialize \/ End
    BY <1>1, OwnerInv
  <1>2. CASE Read
    BY <1>2, ReadInv
  <1>3. ASSUME NEW c \in Callers, Request(c) \/ Call(c) \/ QueryRaises(c)
        PROVE  ChannelIInv'
    BY <1>3, RequestInv, GiveUpInv, SendInv, OutcomeInv DEF Call
  <1>4. ASSUME NEW m \in writing, WriterEnds(m) \/ WriterFails(m)
        PROVE  ChannelIInv'
    BY <1>4, WriterInv
  <1>5. CASE ChildRejects \/ ChildPerforms \/ ChildAnswers \/ ResponseFault
    BY <1>5, RejectsInv, PerformsInv, AnswersInv
  <1>6. CASE QuiesceAfterFailedStop \/ ProcessEnds \/ UNCHANGED vars
    BY <1>6, ProcessInv
  <1>7. QED
    BY <1>1, <1>2, <1>3, <1>4, <1>5, <1>6 DEF Next

----------------------------------------------------------------------------
(* The results. *)

(* ChannelIInv is an inductive invariant of the service's threads and the child. *)
THEOREM ChannelInductive == Spec => []ChannelIInv
  BY ChannelInit, ChannelNext, PTL DEF Spec

(* The two counters only come apart by a failed query of the Job, and what close() gives up is
   empty. *)
THEOREM ChildCorrect == Spec => []ChildInv
  <1>1. ChannelIInv => ChildInv
    <2> SUFFICES ASSUME ChannelIInv PROVE ChildInv
      OBVIOUS
    <2>1. CTypeOK
      BY DEF ChannelIInv, ChannelTypes, CallerTypes, OwnerTypes, PipeTypes, ChildTypes, Performed, CTypeOK
    <2>2. QED
      BY <2>1 DEF ChannelIInv, ChildInv
  <1>2. QED
    BY <1>1, ChannelInductive, PTL

(* A step of the abstract specification for the callers, one at a time. *)
LEMMA CallSimulation ==
    ASSUME ChannelIInv, NEW c \in Callers, Request(c) \/ Call(c) \/ QueryRaises(c)
    PROVE  Calls!Next
  <1>1. /\ answer \in [Callers -> Outcome] /\ seq \in [Callers -> Nat]
        /\ at[c] # "sent" => seq[c] = 0
        /\ at[c] # "idle" => answer[c] = Failed
        /\ Failed = Calls!Failed
    BY DEF ChannelIInv, ChannelTypes, CallerTypes, Calling, Failed, Calls!Failed
  <1>2. CASE Request(c) \/ Busy(c)
    <2>1. /\ answer' = [answer EXCEPT ![c] = Failed] /\ seq' = [seq EXCEPT ![c] = 0]
          /\ UNCHANGED <<sequence, done>>
      BY <1>1, <1>2 DEF Request, Busy, childVars
    <2>2. Calls!Fail(c)
      BY <1>1, <2>1 DEF Calls!Fail
    <2>3. QED
      BY <2>2 DEF Calls!Next
  <1>3. at[c] = "lock" /\ lockedBy = "free" =>
          sequence < MaxSeq /\ \A d \in Callers : seq[d] = 0
    <2> SUFFICES ASSUME at[c] = "lock", lockedBy = "free"
                 PROVE  sequence < MaxSeq /\ \A d \in Callers : seq[d] = 0
      OBVIOUS
    <2>1. c \in Waiting
      BY DEF Waiting
    <2>2. sequence < MaxSeq
      <3>1. /\ Cardinality(Waiting \ {c}) \in Nat
            /\ Cardinality(Waiting \ {c}) + 1 = Cardinality(Waiting)
        BY <2>1, WaitingIsFinite
      <3>2. sequence \in Nat /\ sequence + Cardinality(Waiting) <= MaxSeq
        BY Elements DEF ChannelIInv, Room
      <3>3. QED
        BY <3>1, <3>2, ManagedConstants
    <2>3. QED
      BY <2>2, ManagedConstants DEF ChannelIInv, ChannelTypes, CallerTypes, Calling
  <1>4. CASE Send(c)
    <2>1. Calls!Issue(c)
      BY <1>3, <1>4 DEF Send, Calls!Issue, childVars
    <2>2. QED
      BY <2>1 DEF Calls!Next
  <1>5. CASE Refuse(c) \/ QueryRaises(c)
    <2>1. Spend(c)
      BY <1>5 DEF Refuse, QueryRaises
    <2>2. Calls!Spend(c)
      BY <1>1, <1>3, <2>1 DEF Spend, Calls!Spend, childVars
    <2>3. QED
      BY <2>2 DEF Calls!Next
  <1>6. CASE WriteTimesOut(c) \/ AnswerTimesOut(c) \/ Mismatch(c) \/ ReaderReported(c)
    <2>1. Leave(c, Failed) /\ UNCHANGED done
      BY <1>6 DEF WriteTimesOut, AnswerTimesOut, Mismatch, ReaderReported, childVars
    <2>2. Calls!Fail(c)
      BY <1>1, <2>1 DEF Leave, Calls!Fail
    <2>3. QED
      BY <2>2 DEF Calls!Next
  <1>7. CASE Answered(c)
    <2>1. /\ seq[c] \in 1..Len(done) /\ UNCHANGED done
          /\ Leave(c, done[seq[c]])
      BY <1>7, AnswerIsOwn DEF Answered, Waits, childVars
    <2>2. Calls!Return(c)
      BY <2>1 DEF Leave, Calls!Return
    <2>3. QED
      BY <2>2 DEF Calls!Next
  <1>8. QED
    BY <1>2, <1>4, <1>5, <1>6, <1>7 DEF Call

(* Every step of the threads and of the child is a step of ManagedCall or leaves its variables
   alone. *)
LEMMA StepSimulation == ChannelIInv /\ [Next]_vars => [Calls!Next]_(Calls!callVars)
  <1> SUFFICES ASSUME ChannelIInv, [Next]_vars PROVE [Calls!Next]_(Calls!callVars)
    OBVIOUS
  <1>1. CASE \/ Initialize \/ End \/ Read \/ ChildRejects \/ ChildAnswers \/ ResponseFault
             \/ QuiesceAfterFailedStop \/ ProcessEnds \/ UNCHANGED vars
    <2>1. UNCHANGED <<sequence, seq, done, answer>>
      BY <1>1 DEF Initialize, CreateJob, Spawn, StartReader, InitializeFails, End, Terminate, Confirm,
           Close, Read, ReaderTakes, ReaderOverflows, ReaderEnds, ChildRejects, ChildAnswers,
           ResponseFault, QuiesceAfterFailedStop, ProcessEnds, vars, callerVars, childVars
    <2>2. QED
      BY <2>1 DEF Calls!callVars
  <1>2. ASSUME NEW c \in Callers, Request(c) \/ Call(c) \/ QueryRaises(c)
        PROVE  Calls!Next
    BY <1>2, CallSimulation
  <1>3. ASSUME NEW m \in writing, WriterEnds(m) \/ WriterFails(m)
        PROVE  [Calls!Next]_(Calls!callVars)
    <2>1. CASE UNCHANGED <<callerVars, done>>
      BY <2>1 DEF callerVars, Calls!callVars
    <2>2. CASE lockedBy # "free" /\ Leave(lockedBy, Failed) /\ UNCHANGED done
      <3>1. lockedBy \in Callers
        BY <2>2 DEF ChannelIInv, ChannelTypes, CallerTypes
      <3>2. Calls!Fail(lockedBy)
        BY <2>2 DEF Leave, Calls!Fail, Failed, Calls!Failed
      <3>3. QED
        BY <3>1, <3>2 DEF Calls!Next
    <2>3. QED
      BY <1>3, <2>1, <2>2 DEF WriterEnds, WriterFails, childVars
  <1>4. CASE ChildPerforms
    <2>1. stdin # <<>> /\ UNCHANGED callerVars /\ Head(stdin).seq = loop.last + 1
      BY <1>4 DEF ChildPerforms
    <2>2. 1 \in 1..Len(stdin) /\ Head(stdin) = stdin[1]
      BY <2>1, TailElements DEF ChannelIInv, ChannelTypes, PipeTypes
    <2>3. Len(done) < sequence
      BY <2>1, <2>2, Elements DEF ChannelIInv, Numbered, Performed
    <2>4. Head(stdin).kind \in Kinds
      <3>1. stdin[1] \in Message
        BY <2>2, Elements DEF ChannelIInv
      <3>2. QED
        BY <2>2, <3>1 DEF Message
    <2>5. \E o \in Calls!Outcomes : done' = Append(done, o)
      BY <1>4, <2>4 DEF ChildPerforms, Calls!Outcomes
    <2>6. Calls!Perform
      BY <2>1, <2>3, <2>5 DEF Calls!Perform, callerVars
    <2>7. QED
      BY <2>6 DEF Calls!Next
  <1>5. QED
    BY <1>1, <1>2, <1>3, <1>4 DEF Next

(* request() implements what it promises: with any number of callers, requests and faults, a
   caller that is answered gets the outcome of its own request, which the child performed once
   and in its turn. *)
THEOREM RequestImplementsCall == Spec => ImplementsCall
  <1>1. Init => Calls!Init
    BY DEF Init, Calls!Init, Failed, Calls!Failed
  <1>2. QED
    BY <1>1, StepSimulation, ChannelInductive, PTL DEF Spec, ImplementsCall, Calls!Spec
=============================================================================
