---------------------------- MODULE EncodeService ----------------------------
(***************************************************************************)
(* What server/batching.py promises the routes: a call of submit() that    *)
(* hands over a list of inputs ends exactly once, either with one vector   *)
(* per input, each the vector of that input, or with an exception.  How    *)
(* the rows travel to the model and back does not show here.               *)
(***************************************************************************)
EXTENDS Integers

CONSTANTS Job,      \* the calls of Batcher.submit, one _Job each
          Size      \* Size[j]: how many inputs call j carries

VARIABLES status,   \* where each call stands
          reply     \* the rows each finished call got back, by input

serviceVars == <<status, reply>>

\* The vector of input i of call j is told apart only by where it belongs.
Own(j) == [i \in 1..Size[j] |-> <<j, i>>]

NoReply == <<>>

ServiceInit == /\ status = [j \in Job |-> "new"]
               /\ reply = [j \in Job |-> NoReply]

Enter(j) == /\ status[j] = "new"
            /\ status' = [status EXCEPT ![j] = "pending"]
            /\ UNCHANGED reply

Answer(j) == /\ status[j] = "pending"
             /\ status' = [status EXCEPT ![j] = "answered"]
             /\ reply' = [reply EXCEPT ![j] = Own(j)]

Refuse(j) == /\ status[j] = "pending"
             /\ status' = [status EXCEPT ![j] = "refused"]
             /\ UNCHANGED reply

ServiceNext == \E j \in Job : Enter(j) \/ Answer(j) \/ Refuse(j)

\* Safety alone, and with the promise that a call which entered ends.
ServiceSafety == ServiceInit /\ [][ServiceNext]_serviceVars

ServiceSpec == /\ ServiceSafety
               /\ \A j \in Job : WF_serviceVars(Answer(j) \/ Refuse(j))
==============================================================================
