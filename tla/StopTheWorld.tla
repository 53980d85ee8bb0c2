---------------------------- MODULE StopTheWorld ----------------------------
(***************************************************************************)
(* What a checkpoint promises: at some moment all threads of a process are *)
(* frozen together, each with every call it has made executed, and none of *)
(* them makes or executes a call until the whole image is written.  An     *)
(* image written in that time is one of the state after exactly the calls  *)
(* made so far, which is what Daemon takes a checkpoint to be.             *)
(***************************************************************************)
EXTENDS Integers

CONSTANT Threads

VARIABLES issued,     \* calls each client has handed over
          executed,   \* calls the server has carried out
          frozen      \* threads that are stopped for an image

worldVars == <<issued, executed, frozen>>

WorldInit ==
  /\ issued = [t \in Threads |-> 0] /\ executed = [t \in Threads |-> 0]
  /\ frozen = {}

Issue(t) ==
  /\ t \notin frozen
  /\ issued' = [issued EXCEPT ![t] = @ + 1]
  /\ UNCHANGED <<executed, frozen>>

Carry(t) ==
  /\ t \notin frozen /\ executed[t] < issued[t]
  /\ executed' = [executed EXCEPT ![t] = @ + 1]
  /\ UNCHANGED <<issued, frozen>>

Freeze(S) ==
  /\ frozen = {} /\ S # {}
  /\ \A t \in S : issued[t] = executed[t]
  /\ frozen' = S
  /\ UNCHANGED <<issued, executed>>

Thaw ==
  /\ frozen # {} /\ frozen' = {}
  /\ UNCHANGED <<issued, executed>>

WorldNext ==
  \/ \E t \in Threads : Issue(t) \/ Carry(t)
  \/ \E S \in SUBSET Threads : Freeze(S)
  \/ Thaw

WorldSpec == WorldInit /\ [][WorldNext]_worldVars
=============================================================================
