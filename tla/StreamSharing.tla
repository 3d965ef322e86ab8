---------------------------- MODULE StreamSharing ----------------------------
(***************************************************************************)
(* What the audio wrapper promises about the streams of the Motorola HAL,  *)
(* which is not written for several threads: a stream is read or written   *)
(* only while it is open, any other function runs on it alone, and it is   *)
(* closed when nothing runs on it.                                         *)
(***************************************************************************)
CONSTANTS Threads, Streams

VARIABLES
  open,     \* the streams that are open in the HAL
  users,    \* users[s]: the threads reading or writing s
  alone     \* alone[s]: the threads in another function of s

sharingVars == <<open, users, alone>>

Unused(s) == users[s] = {} /\ alone[s] = {}

Init ==
  /\ open = {}
  /\ users = [s \in Streams |-> {}]
  /\ alone = [s \in Streams |-> {}]

Open(s) ==
  /\ s \notin open
  /\ open' = open \cup {s}
  /\ UNCHANGED <<users, alone>>

Close(s) ==
  /\ s \in open /\ Unused(s)
  /\ open' = open \ {s}
  /\ UNCHANGED <<users, alone>>

BeginUse(t, s) ==
  /\ s \in open /\ alone[s] = {}
  /\ users' = [users EXCEPT ![s] = @ \cup {t}]
  /\ UNCHANGED <<open, alone>>

EndUse(t, s) ==
  /\ t \in users[s]
  /\ users' = [users EXCEPT ![s] = @ \ {t}]
  /\ UNCHANGED <<open, alone>>

BeginAlone(t, s) ==
  /\ s \in open /\ Unused(s)
  /\ alone' = [alone EXCEPT ![s] = {t}]
  /\ UNCHANGED <<open, users>>

EndAlone(t, s) ==
  /\ alone[s] = {t}
  /\ alone' = [alone EXCEPT ![s] = {}]
  /\ UNCHANGED <<open, users>>

Next ==
  \E s \in Streams :
    \/ Open(s) \/ Close(s)
    \/ \E t \in Threads : BeginUse(t, s) \/ EndUse(t, s) \/ BeginAlone(t, s) \/ EndAlone(t, s)

Spec == Init /\ [][Next]_sharingVars
=============================================================================
