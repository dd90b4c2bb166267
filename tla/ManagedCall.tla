---------------------------- MODULE ManagedCall ----------------------------
(***************************************************************************)
(* What ManagedProcess.request() promises its callers (fakenet/mcp/        *)
(* managed.py), without pipes, threads, queues or failure flags: requests  *)
(* are numbered, the child performs a prefix of them in their order and    *)
(* each at most once, and a caller that is answered gets the outcome of    *)
(* its own request.  A request may fail at any time, before or after the   *)
(* child performed it, and the child may perform it after its caller gave  *)
(* up.                                                                     *)
(***************************************************************************)
EXTENDS Naturals, Sequences

CONSTANTS Callers, Kinds, MaxSeq

Failed == [kind |-> "failed", ok |-> FALSE]

VARIABLES
    issued,     \* the number of the last request
    pending,    \* [Callers -> the number of the request it waits for, or 0]
    done,       \* what the child performed: a sequence of [kind, ok]
    answer      \* [Callers -> what its last request gave it]

callVars == <<issued, pending, done, answer>>

Outcomes == [kind : Kinds, ok : BOOLEAN]

Init ==
    /\ issued = 0 /\ pending = [c \in Callers |-> 0]
    /\ done = <<>> /\ answer = [c \in Callers |-> Failed]

(* One request at a time: the channel is not pipelined. *)
Issue(c) ==
    /\ issued < MaxSeq /\ \A d \in Callers : pending[d] = 0
    /\ issued' = issued + 1 /\ pending' = [pending EXCEPT ![c] = issued + 1]
    /\ UNCHANGED <<done, answer>>

Perform ==
    /\ Len(done) < issued
    /\ \E o \in Outcomes : done' = Append(done, o)
    /\ UNCHANGED <<issued, pending, answer>>

Return(c) ==
    /\ pending[c] \in 1..Len(done)
    /\ answer' = [answer EXCEPT ![c] = done[pending[c]]]
    /\ pending' = [pending EXCEPT ![c] = 0]
    /\ UNCHANGED <<issued, done>>

(* A request is numbered and fails at once. *)
Spend(c) ==
    /\ issued < MaxSeq /\ \A d \in Callers : pending[d] = 0
    /\ issued' = issued + 1 /\ answer' = [answer EXCEPT ![c] = Failed]
    /\ UNCHANGED <<pending, done>>

(* The request fails, or was never given a number. *)
Fail(c) ==
    /\ answer' = [answer EXCEPT ![c] = Failed]
    /\ pending' = [pending EXCEPT ![c] = 0]
    /\ UNCHANGED <<issued, done>>

Next == Perform \/ \E c \in Callers : Issue(c) \/ Spend(c) \/ Return(c) \/ Fail(c)

Spec == Init /\ [][Next]_callVars
=============================================================================
