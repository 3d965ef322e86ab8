----------------------------- MODULE AudioWrapper -----------------------------
(***************************************************************************)
(* audio/wrapper.c: the threads of the media server call Motorola's audio  *)
(* HAL through tables of wrapped streams, one table per direction.  The    *)
(* model has the two table mutexes, the device's in_use mutex, the in_use  *)
(* counter and condition variable of every table entry, the pointer into   *)
(* the table that a read or a write keeps across the unlock, and the       *)
(* in-call muting of the microphone.                                       *)
(*                                                                         *)
(* An entry's in_use_mutex is only taken by a thread that holds the        *)
(* table's mutex or for a counter update, so taking it is never a step of  *)
(* its own.  The device's in_use counter is never incremented:             *)
(* WAIT_FOR_FREE(in_use) only takes its mutex.                             *)
(***************************************************************************)
EXTENDS Integers, Sequences, FiniteSets

CONSTANTS
  Threads,
  Handles,   \* names for the streams the HAL opens
  Routes,    \* values of the capture route the HAL selects
  Calls,     \* Calls[t]: the calls t makes, as <<operation, direction>>
  MaxOpen,   \* streams the policy keeps open at a time, in each direction
  NoThread

NoValue == "unset"      \* last_mute_ctl_value = -1
Dirs == {"out", "in"}
StreamOps == {"io", "function", "set_parameters", "close"}
HalOps == {"set_mode normal", "set_mode in_call", "set_mic_mute on", "set_mic_mute off"}
AllCalls ==
  ({"io", "function", "open", "close"} \X Dirs) \cup ((HalOps \cup {"set_parameters"}) \X {"out"})

ASSUME AudioAssumption ==
  /\ NoThread \notin Threads /\ IsFiniteSet(Threads)
  /\ Calls \in [Threads -> SUBSET AllCalls]
  /\ MaxOpen \in Nat \ {0}
  /\ {"Off", NoValue} \cap Routes = {} /\ Routes # {}

VARIABLES
  pc,        \* what each thread is doing
  call,      \* the call it is making: op, dir and stream, and its argument
  table,     \* table[d]: the entries of out_streams and in_streams
  mutex,     \* mutex[d]: the owner of the table's mutex
  in_use,    \* the owner of the device's in_use mutex
  ptr,       \* the index wrapper_stream points to
  moved,     \* the table changed under wrapper_stream
  using,     \* the HAL stream a read or a write was given
  opened,    \* opened[d]: the streams that are open in the HAL
  mic,       \* hal_audio_mode, last_mute_ctl_value and the mixer control
  muted,     \* history: the user asked for a muted microphone in this call
  mixerBad   \* history: the mixer failed

micVars == <<mic, muted, mixerBad>>
vars == <<pc, call, table, mutex, in_use, ptr, moved, using, opened, micVars>>

NoStream == "none"
NoCall == [op |-> "none", dir |-> "out", h |-> NoStream]

Entries(d) == DOMAIN table[d]
Found(d, h) == {i \in Entries(d) : table[d][i].h = h}

Init ==
  /\ pc = [t \in Threads |-> "idle"]
  /\ call = [t \in Threads |-> NoCall]
  /\ table = [d \in Dirs |-> <<>>]
  /\ mutex = [d \in Dirs |-> NoThread]
  /\ in_use = NoThread
  /\ ptr = [t \in Threads |-> 0]
  /\ moved = [t \in Threads |-> FALSE]
  /\ using = [t \in Threads |-> NoStream]
  /\ opened = [d \in Dirs |-> {}]
  /\ \E r \in Routes : mic = [mode |-> "normal", last |-> NoValue, ctl |-> r]
  /\ muted = FALSE /\ mixerBad = FALSE

Goto(t, from, to) == pc[t] = from /\ pc' = [pc EXCEPT ![t] = to]

-----------------------------------------------------------------------------
(* The calls *)

Opening(d) == {t \in Threads : call[t].op = "open" /\ call[t].dir = d}

\* A thread calls the wrapper.  The audio policy opens a stream only while
\* fewer than MaxOpen of that direction are open.
Call(t) ==
  /\ Goto(t, "idle", "lock")
  /\ \E c \in Calls[t], h \in Handles \cup {NoStream} :
       /\ h \in Handles <=> c[1] \in StreamOps
       /\ c[1] = "open" => Len(table[c[2]]) + Cardinality(Opening(c[2])) < MaxOpen
       /\ call' = [call EXCEPT ![t] = [op |-> c[1], dir |-> c[2], h |-> h]]
  /\ UNCHANGED <<table, mutex, in_use, ptr, moved, using, opened, micVars>>

Done(t) ==
  /\ pc' = [pc EXCEPT ![t] = "idle"]
  /\ call' = [call EXCEPT ![t] = NoCall]

\* Does not count the user.
LookupNoCount(t) ==
  LET d == call[t].dir IN
  /\ pc[t] = "lock" /\ call[t].op = "io"
  /\ mutex[d] = NoThread
  /\ \/ \E i \in Found(d, call[t].h) :
          /\ ptr' = [ptr EXCEPT ![t] = i]
          /\ pc' = [pc EXCEPT ![t] = "found"]
          /\ UNCHANGED <<call, table>>
     \/ /\ Found(d, call[t].h) = {}
        /\ Done(t)
        /\ UNCHANGED <<table, ptr>>
  /\ UNCHANGED <<mutex, in_use, moved, using, opened, micVars>>

\* Waits for the stream instead of returning -ENODEV.
LookupRetry(t) ==
  LET d == call[t].dir IN
  /\ pc[t] = "lock" /\ call[t].op = "io"
  /\ mutex[d] = NoThread
  /\ \/ \E i \in Found(d, call[t].h) :
          /\ table' = [table EXCEPT ![d][i].busy = @ + 1]
          /\ ptr' = [ptr EXCEPT ![t] = i]
          /\ pc' = [pc EXCEPT ![t] = "found"]
     \/ Found(d, call[t].h) = {} /\ UNCHANGED <<pc, table, ptr>>
  /\ UNCHANGED <<call, mutex, in_use, moved, using, opened, micVars>>

\* wrapper_read and wrapper_write up to the unlock: the entry is marked used
\* and a pointer to it kept.
Lookup(t) ==
  LET d == call[t].dir IN
  /\ pc[t] = "lock" /\ call[t].op = "io"
  /\ mutex[d] = NoThread
  /\ \/ \E i \in Found(d, call[t].h) :
          /\ table' = [table EXCEPT ![d][i].busy = @ + 1]
          /\ ptr' = [ptr EXCEPT ![t] = i]
          /\ pc' = [pc EXCEPT ![t] = "found"]
          /\ UNCHANGED call
     \/ /\ Found(d, call[t].h) = {}
        /\ Done(t)
        /\ UNCHANGED <<table, ptr>>
  /\ UNCHANGED <<mutex, in_use, moved, using, opened, micVars>>

\* wrapper_stream->jb_stream is read through the pointer; once the table has
\* moved, anything may be read.
BeginIo(t) ==
  /\ Goto(t, "found", "io")
  /\ \E h \in IF moved[t] THEN Handles \cup {NoStream} ELSE {table[call[t].dir][ptr[t]].h} :
       using' = [using EXCEPT ![t] = h]
  /\ UNCHANGED <<call, table, mutex, in_use, ptr, moved, opened, micVars>>

\* What DECREMENT_IN_USE through the pointer may leave of the table.
Decremented(t) ==
  LET d     == call[t].dir
      At(i) == [table EXCEPT ![d][i].busy = @ - 1]
  IN  IF moved[t] THEN {table} \cup {At(i) : i \in Entries(d)} ELSE {At(ptr[t])}

Sleepers(d) == {u \in Threads : pc[u] = "asleep" /\ call[u].dir = d}

\* The HAL returns from the read or write: DECREMENT_IN_USE wakes the thread
\* that waits for the entry.
EndIo(t) ==
  /\ pc[t] = "io"
  /\ \E tb \in Decremented(t) : table' = tb
  /\ pc' = [u \in Threads |-> IF u = t THEN "idle"
                              ELSE IF u \in Sleepers(call[t].dir) THEN "check" ELSE pc[u]]
  /\ call' = [call EXCEPT ![t] = NoCall]
  /\ using' = [using EXCEPT ![t] = NoStream]
  /\ ptr' = [ptr EXCEPT ![t] = 0]
  /\ moved' = [moved EXCEPT ![t] = FALSE]
  /\ UNCHANGED <<mutex, in_use, opened, micVars>>

\* The other calls take the table's mutex; the calls on the whole HAL take
\* the output table's first, then the input table's.
Lock(t) ==
  LET d == call[t].dir IN
  /\ pc[t] = "lock" /\ call[t].op # "io"
  /\ mutex[d] = NoThread
  /\ \/ /\ call[t].op \in StreamOps /\ Found(d, call[t].h) = {}
        /\ Done(t)
        /\ UNCHANGED mutex
     \/ /\ call[t].op \in StreamOps => Found(d, call[t].h) # {}
        /\ mutex' = [mutex EXCEPT ![d] = t]
        /\ pc' = [pc EXCEPT ![t] = CASE call[t].op \in StreamOps -> "check"
                                     [] call[t].op \in HalOps    -> "lock in"
                                     [] call[t].op = "open"      -> "device"]
        /\ UNCHANGED call
  /\ UNCHANGED <<table, in_use, ptr, moved, using, opened, micVars>>

LockIn(t) ==
  /\ Goto(t, "lock in", "device")
  /\ mutex["in"] = NoThread
  /\ mutex' = [mutex EXCEPT !["in"] = t]
  /\ UNCHANGED <<call, table, in_use, ptr, moved, using, opened, micVars>>

Busy(t) == \E i \in Found(call[t].dir, call[t].h) : table[call[t].dir][i].busy # 0

\* Calls the stream's functions however many threads use it.
WaitForFreeClose(t) ==
  /\ pc[t] = "check"
  /\ pc' = [pc EXCEPT ![t] = IF call[t].op # "close" THEN "function"
                             ELSE IF Busy(t) THEN "asleep" ELSE "unlink"]
  /\ UNCHANGED <<call, table, mutex, in_use, ptr, moved, using, opened, micVars>>

\* Closes it however many threads use it.
WaitForFreeFunction(t) ==
  /\ pc[t] = "check"
  /\ pc' = [pc EXCEPT ![t] = IF call[t].op = "close" THEN "unlink"
                             ELSE IF Busy(t) THEN "asleep" ELSE "function"]
  /\ UNCHANGED <<call, table, mutex, in_use, ptr, moved, using, opened, micVars>>

\* One turn of WAIT_FOR_FREE's loop on the entry.
WaitForFree(t) ==
  /\ pc[t] = "check"
  /\ pc' = [pc EXCEPT ![t] = IF Busy(t) THEN "asleep"
                             ELSE IF call[t].op = "close" THEN "unlink" ELSE "function"]
  /\ UNCHANGED <<call, table, mutex, in_use, ptr, moved, using, opened, micVars>>

-----------------------------------------------------------------------------
(* Closing and opening streams *)

\* The threads whose pointer into table d may no longer be good.
Pointing(d) == {u \in Threads : call[u].dir = d /\ pc[u] \in {"found", "io"}}

\* The entry is taken out, the ones after it moved down and the array
\* reallocated.
Unlink(t) ==
  LET d == call[t].dir IN
  /\ Goto(t, "unlink", "device")
  /\ \E i \in Found(d, call[t].h) :
       table' = [table EXCEPT ![d] =
                  [j \in 1..Len(@) - 1 |-> IF j < i THEN @[j] ELSE @[j + 1]]]
  /\ moved' = [u \in Threads |-> moved[u] \/ u \in Pointing(d)]
  /\ UNCHANGED <<call, mutex, in_use, ptr, using, opened, micVars>>

LockDevice(t) ==
  /\ Goto(t, "device", "hal")
  /\ in_use = NoThread
  /\ in_use' = t
  /\ UNCHANGED <<call, table, mutex, ptr, moved, using, opened, micVars>>

Unlock(t) ==
  /\ Done(t)
  /\ mutex' = [d \in Dirs |-> IF mutex[d] = t THEN NoThread ELSE mutex[d]]
  /\ in_use' = IF in_use = t THEN NoThread ELSE in_use

EndClose(t) ==
  /\ pc[t] = "hal" /\ call[t].op = "close"
  /\ opened' = [opened EXCEPT ![call[t].dir] = @ \ {call[t].h}]
  /\ Unlock(t)
  /\ UNCHANGED <<table, ptr, moved, using, micVars>>

\* The HAL may refuse.  Without memory for the array or for the stream the
\* HAL's stream is left open; in the second case the array has grown.
EndOpen(t) ==
  LET d == call[t].dir IN
  /\ pc[t] = "hal" /\ call[t].op = "open"
  /\ \/ UNCHANGED <<table, moved, opened>>
     \/ \E h \in Handles \ opened[d], memory \in {"no array", "no stream", "enough"} :
          /\ opened' = [opened EXCEPT ![d] = @ \cup {h}]
          /\ table' = IF memory = "enough"
                      THEN [table EXCEPT ![d] = Append(@, [h |-> h, busy |-> 0])]
                      ELSE table
          /\ \E elsewhere \in BOOLEAN :
               moved' = [u \in Threads |-> \/ moved[u]
                                           \/ elsewhere /\ memory # "no array" /\ u \in Pointing(d)]
  /\ Unlock(t)
  /\ UNCHANGED <<ptr, using, micVars>>

-----------------------------------------------------------------------------
(* Muting the microphone in a call *)

\* mixer: "works", or what fails: finding the control, or setting it.
alsa_set_mic_mute(m, state, mixer) ==
  IF (~state /\ m.last = NoValue) \/ mixer = "no control" THEN m
  ELSE IF state
  THEN [m EXCEPT !.last = IF @ = NoValue THEN m.ctl ELSE @,
                 !.ctl = IF mixer = "works" THEN "Off" ELSE @]
  ELSE [m EXCEPT !.last = NoValue,
                 !.ctl = IF mixer = "works" THEN m.last ELSE @]

\* Does not mute again.
RestoreMuteNot(m, mixer) == m

restore_mute(m, mixer) ==
  IF m.mode = "in_call" /\ m.last # NoValue THEN alsa_set_mic_mute(m, TRUE, mixer) ELSE m

wrapper_set_mic_mute(m, state, mixer) ==
  IF m.mode = "in_call" THEN alsa_set_mic_mute(m, state, mixer) ELSE m

\* Leaves the call without unmuting.
SetModeKeepMute(m, mode, mixer) == [m EXCEPT !.mode = mode]

wrapper_set_mode(m, mode, mixer) ==
  LET leaving == m.mode = "in_call" /\ mode # "in_call" /\ m.last # NoValue
      unmuted == IF leaving THEN [alsa_set_mic_mute(m, FALSE, mixer) EXCEPT !.last = NoValue] ELSE m
  IN  [unmuted EXCEPT !.mode = mode]

Mixers == {"works", "no control", "cannot set"}

\* A function of a stream returns.  The HAL's set_parameters may select
\* another capture route, and the wrapper mutes again after it.
EndFunction(t) ==
  /\ pc[t] = "function"
  /\ \/ /\ call[t].op = "function"
        /\ UNCHANGED <<mic, mixerBad>>
     \/ /\ call[t].op = "set_parameters"
        /\ \E r \in Routes \cup {mic.ctl}, mixer \in Mixers :
             /\ mic' = restore_mute([mic EXCEPT !.ctl = r], mixer)
             /\ mixerBad' = (mixerBad \/ mixer # "works")
  /\ Unlock(t)
  /\ UNCHANGED <<table, ptr, moved, using, opened, muted>>

EndHal(t) ==
  /\ pc[t] = "hal" /\ call[t].op \in HalOps
  /\ \E mixer \in Mixers :
       /\ mic' = CASE call[t].op = "set_mode normal"  -> wrapper_set_mode(mic, "normal", mixer)
                   [] call[t].op = "set_mode in_call" -> wrapper_set_mode(mic, "in_call", mixer)
                   [] call[t].op = "set_mic_mute on"  -> wrapper_set_mic_mute(mic, TRUE, mixer)
                   [] call[t].op = "set_mic_mute off" -> wrapper_set_mic_mute(mic, FALSE, mixer)
       /\ mixerBad' = (mixerBad \/ mixer # "works")
  /\ muted' = CASE call[t].op = "set_mic_mute on"                       -> mic.mode = "in_call"
                [] call[t].op \in {"set_mic_mute off", "set_mode normal"} -> FALSE
                [] OTHER                                                -> muted
  /\ Unlock(t)
  /\ UNCHANGED <<table, ptr, moved, using, opened>>

Step(t) ==
  \/ Lookup(t) \/ BeginIo(t) \/ EndIo(t)
  \/ Lock(t) \/ LockIn(t) \/ WaitForFree(t) \/ Unlink(t) \/ LockDevice(t)
  \/ EndClose(t) \/ EndOpen(t) \/ EndFunction(t) \/ EndHal(t)

Next == \E t \in Threads : Call(t) \/ Step(t)

Spec == Init /\ [][Next]_vars

-----------------------------------------------------------------------------
\* The tables and counters stay within their types: no in_use counter is
\* decremented below zero, whatever pointer the decrement goes through.
TypeOK ==
  /\ pc \in [Threads -> {"idle", "lock", "found", "io", "check", "asleep", "function",
                         "lock in", "unlink", "device", "hal"}]
  /\ call \in [Threads -> [op : StreamOps \cup HalOps \cup {"open", "none"}, dir : Dirs,
                           h : Handles \cup {NoStream}]]
  /\ table \in [Dirs -> Seq([h : Handles, busy : Nat])]
  /\ mutex \in [Dirs -> Threads \cup {NoThread}] /\ in_use \in Threads \cup {NoThread}
  /\ ptr \in [Threads -> Nat] /\ moved \in [Threads -> BOOLEAN]
  /\ using \in [Threads -> Handles \cup {NoStream}]
  /\ opened \in [Dirs -> SUBSET Handles]
  /\ mic \in [mode : {"normal", "in_call"}, last : Routes \cup {NoValue, "Off"},
              ctl : Routes \cup {"Off"}]
  /\ muted \in BOOLEAN /\ mixerBad \in BOOLEAN

\* A read or write that has looked its stream up reaches that stream's HAL
\* stream and counter through the pointer it kept across the unlock, however
\* other threads open, close and use streams meanwhile.
OwnStream ==
  \A t \in Threads : pc[t] \in {"found", "io"} =>
    /\ ~moved[t]
    /\ ptr[t] \in Found(call[t].dir, call[t].h)
    /\ pc[t] = "io" => using[t] = call[t].h

AllStreams == Dirs \X Handles
OpenStreams == {s \in AllStreams : s[2] \in opened[s[1]]}
IoOn == [s \in AllStreams |-> {t \in Threads : pc[t] = "io" /\ <<call[t].dir, using[t]>> = s}]
AloneOn == [s \in AllStreams |-> {t \in Threads : pc[t] = "function" /\ <<call[t].dir, call[t].h>> = s}]

Sharing == INSTANCE StreamSharing WITH
  Streams <- AllStreams, open <- OpenStreams, users <- IoOn, alone <- AloneOn

\* The tables, counters and locks give every HAL stream the protection
\* StreamSharing promises.
ImplementsSharing == Sharing!Spec

\* In a call, a microphone the user muted stays muted whatever routing
\* changes the HAL makes, as long as the mixer works.
MuteHolds == muted /\ ~mixerBad => mic.ctl = "Off"

\* A call's muting never outlives the call, as long as the mixer works: no
\* saved value is left for the next call, and the route is selected again.
MuteEndsWithCall ==
  mic.mode # "in_call" => mic.last = NoValue /\ (~mixerBad => mic.ctl # "Off")

Fairness ==
  \A t \in Threads : WF_vars(Step(t)) /\ SF_vars(Lookup(t) \/ Lock(t) \/ LockIn(t) \/ LockDevice(t))

FairSpec == Spec /\ Fairness

\* Every call returns: no thread waits forever for a mutex or for the users
\* of a stream.
CallsReturn == \A t \in Threads : pc[t] # "idle" ~> pc[t] = "idle"
=============================================================================
