-------------------------- MODULE AudioWrapperProofs --------------------------
(***************************************************************************)
(* Proofs about AudioWrapper, for every number of threads, streams and     *)
(* routes and every program of calls: the in-call muting, and, with one    *)
(* stream open in each direction, the tables, their counters and what      *)
(* StreamSharing promises.                                                 *)
(***************************************************************************)
EXTENDS AudioWrapper, FiniteSetTheorems, TLAPS

-----------------------------------------------------------------------------
(* The microphone *)

MicState ==
  [mode : {"normal", "in_call"}, last : Routes \cup {NoValue, "Off"}, ctl : Routes \cup {"Off"}]

\* The saved value is a route, and is set exactly while the control is off.
Consistent(m) == m.last # "Off" /\ (m.last # NoValue <=> m.ctl = "Off")

\* The wrapper mutes in a call only, and while the mixer works what it saved is
\* consistent.
Saved(m, bad) ==
  /\ m.mode # "in_call" => m.last = NoValue
  /\ ~bad => Consistent(m)

\* The user's wish is kept in the saved value.
Wish(m, want, bad) == want => m.mode = "in_call" /\ (~bad => m.last # NoValue)

MuteInv ==
  /\ mic \in MicState /\ muted \in BOOLEAN /\ mixerBad \in BOOLEAN
  /\ Saved(mic, mixerBad) /\ Wish(mic, muted, mixerBad)

-----------------------------------------------------------------------------
(* The functions of the wrapper *)

\* The values of the control and of the saved value are told apart.
LEMMA Values == NoValue # "Off" /\ NoValue \notin Routes /\ "Off" \notin Routes
BY AudioAssumption DEF NoValue

\* Muting an already muted microphone keeps the saved value.
LEMMA MutedAgain ==
  ASSUME NEW m \in MicState, m.last # NoValue, NEW mixer \in Mixers,
         NEW r, r = alsa_set_mic_mute(m, TRUE, mixer)
  PROVE  /\ r \in MicState /\ r.mode = m.mode /\ r.last = m.last
         /\ mixer = "works" => r.ctl = "Off"
<1>1. CASE mixer = "no control"
  BY <1>1, Zenon DEF alsa_set_mic_mute
<1>2. CASE mixer # "no control"
  <2>1. r = [m EXCEPT !.last = m.last, !.ctl = IF mixer = "works" THEN "Off" ELSE m.ctl]
    BY <1>2, Zenon DEF alsa_set_mic_mute, MicState
  <2> QED
    BY <2>1, Zenon DEF MicState
<1> QED
  BY <1>1, <1>2, Zenon

\* The first muting saves the route.
LEMMA MutedFirst ==
  ASSUME NEW m \in MicState, m.last = NoValue, NEW mixer \in Mixers,
         NEW r, r = alsa_set_mic_mute(m, TRUE, mixer)
  PROVE  /\ r \in MicState /\ r.mode = m.mode
         /\ mixer = "works" => r.ctl = "Off" /\ r.last = m.ctl
<1>1. CASE mixer = "no control"
  BY <1>1, Zenon DEF alsa_set_mic_mute
<1>2. CASE mixer # "no control"
  <2>1. r = [m EXCEPT !.last = m.ctl, !.ctl = IF mixer = "works" THEN "Off" ELSE m.ctl]
    BY <1>2, Zenon DEF alsa_set_mic_mute, MicState
  <2> QED
    BY <2>1, Zenon DEF MicState
<1> QED
  BY <1>1, <1>2, Zenon

\* Unmuting selects the saved route and forgets it.
LEMMA Unmuted ==
  ASSUME NEW m \in MicState, NEW mixer \in Mixers,
         NEW r, r = alsa_set_mic_mute(m, FALSE, mixer)
  PROVE  /\ r \in MicState /\ r.mode = m.mode
         /\ mixer = "works" => r.last = NoValue /\ r.ctl = IF m.last = NoValue THEN m.ctl ELSE m.last
<1>1. CASE m.last = NoValue \/ mixer = "no control"
  BY <1>1, Zenon DEF alsa_set_mic_mute
<1>2. CASE m.last # NoValue /\ mixer # "no control"
  <2>1. r = [m EXCEPT !.last = NoValue, !.ctl = IF mixer = "works" THEN m.last ELSE m.ctl]
    BY <1>2, Zenon DEF alsa_set_mic_mute, MicState
  <2> QED
    BY <1>2, <2>1, Zenon DEF MicState
<1> QED
  BY <1>1, <1>2, Zenon

\* wrapper_set_mic_mute() with a true argument mutes in a call.
LEMMA SetMicMuteOn ==
  ASSUME NEW m \in MicState, m.mode # "in_call" => m.last = NoValue, NEW mixer \in Mixers,
         NEW r, r = wrapper_set_mic_mute(m, TRUE, mixer)
  PROVE  /\ r \in MicState /\ r.mode = m.mode
         /\ m.mode # "in_call" => r.last = NoValue
         /\ mixer = "works" /\ Consistent(m) =>
              Consistent(r) /\ (m.mode = "in_call" => r.last # NoValue)
<1> USE Values DEF Consistent
<1>1. CASE m.mode # "in_call"
  BY <1>1 DEF wrapper_set_mic_mute
<1>2. CASE m.mode = "in_call"
  <2>1. r = alsa_set_mic_mute(m, TRUE, mixer)
    BY <1>2 DEF wrapper_set_mic_mute
  <2>2. CASE m.last = NoValue
    <3>1. /\ r \in MicState /\ r.mode = m.mode
          /\ mixer = "works" => r.ctl = "Off" /\ r.last = m.ctl
      BY <2>1, <2>2, MutedFirst, Zenon
    <3>2. Consistent(m) => m.ctl \in Routes
      BY <2>2 DEF MicState
    <3> QED
      BY <1>2, <3>1, <3>2, Zenon
  <2>3. CASE m.last # NoValue
    BY <1>2, <2>1, <2>3, MutedAgain, Zenon
  <2> QED
    BY <2>2, <2>3, Zenon
<1> QED
  BY <1>1, <1>2, Zenon

\* With a false one it selects the saved route again.
LEMMA SetMicMuteOff ==
  ASSUME NEW m \in MicState, NEW bad \in BOOLEAN, Saved(m, bad), NEW mixer \in Mixers,
         NEW r, r = wrapper_set_mic_mute(m, FALSE, mixer),
         NEW bad2 \in BOOLEAN, bad \/ mixer # "works" => bad2
  PROVE  r \in MicState /\ r.mode = m.mode /\ Saved(r, bad2)
<1> USE Values DEF Saved, Consistent
<1>1. CASE m.mode # "in_call"
  BY <1>1 DEF wrapper_set_mic_mute
<1>2. CASE m.mode = "in_call"
  <2>1. r = alsa_set_mic_mute(m, FALSE, mixer)
    BY <1>2 DEF wrapper_set_mic_mute
  <2>2. /\ r \in MicState /\ r.mode = m.mode
        /\ mixer = "works" => r.last = NoValue /\ r.ctl = IF m.last = NoValue THEN m.ctl ELSE m.last
    BY <2>1, Unmuted, Zenon
  <2>3. ~bad => (IF m.last = NoValue THEN m.ctl ELSE m.last) # "Off"
    BY DEF MicState
  <2> QED
    BY <1>2, <2>2, <2>3, Zenon
<1> QED
  BY <1>1, <1>2, Zenon

\* wrapper_set_mode() unmutes when it leaves the call.
LEMMA SetMode ==
  ASSUME NEW m \in MicState, NEW bad \in BOOLEAN, Saved(m, bad), NEW mode \in {"normal", "in_call"},
         NEW mixer \in Mixers, NEW r, r = wrapper_set_mode(m, mode, mixer),
         NEW bad2 \in BOOLEAN, bad \/ mixer # "works" => bad2
  PROVE  /\ r \in MicState /\ r.mode = mode /\ Saved(r, bad2)
         /\ mode = m.mode => r.last = m.last
<1> USE Values DEF Saved, Consistent
<1> DEFINE leaving == m.mode = "in_call" /\ mode # "in_call" /\ m.last # NoValue
           u       == alsa_set_mic_mute(m, FALSE, mixer)
<1>1. CASE ~leaving
  <2>1. r = [m EXCEPT !.mode = mode]
    BY <1>1, Zenon DEF wrapper_set_mode
  <2>2. r \in MicState /\ r.mode = mode /\ r.last = m.last /\ r.ctl = m.ctl
    BY <2>1 DEF MicState
  <2> QED
    BY <1>1, <2>2
<1>2. CASE leaving
  <2>1. r = [[u EXCEPT !.last = NoValue] EXCEPT !.mode = mode]
    BY <1>2 DEF wrapper_set_mode
  <2>2. u \in MicState /\ (mixer = "works" => u.ctl = m.last)
    BY <1>2, Unmuted, Zenon
  <2> HIDE DEF u
  <2>3. r \in MicState /\ r.mode = mode /\ r.last = NoValue /\ r.ctl = u.ctl
    BY <2>1, <2>2, Zenon DEF MicState
  <2> QED
    BY <1>2, <2>2, <2>3 DEF MicState
<1> QED
  BY <1>1, <1>2

\* restore_mute() after the HAL may have selected another route.
LEMMA RestoreMute ==
  ASSUME NEW m \in MicState, NEW bad \in BOOLEAN, Saved(m, bad), NEW route \in Routes \cup {m.ctl},
         NEW n \in MicState, n.mode = m.mode, n.last = m.last, n.ctl = route,
         NEW mixer \in Mixers, NEW r, r = restore_mute(n, mixer),
         NEW bad2 \in BOOLEAN, bad \/ mixer # "works" => bad2
  PROVE  r \in MicState /\ r.mode = m.mode /\ r.last = m.last /\ Saved(r, bad2)
<1> USE Values DEF Saved, Consistent
<1>1. r = IF n.mode = "in_call" /\ n.last # NoValue THEN alsa_set_mic_mute(n, TRUE, mixer) ELSE n
  BY DEF restore_mute
<1>2. CASE n.mode = "in_call" /\ n.last # NoValue
  <2>1. r = alsa_set_mic_mute(n, TRUE, mixer)
    BY <1>1, <1>2
  <2>2. /\ r \in MicState /\ r.mode = n.mode /\ r.last = n.last
        /\ mixer = "works" => r.ctl = "Off"
    BY <1>2, <2>1, MutedAgain, Zenon
  <2> QED
    BY <1>2, <2>2
<1>3. CASE ~(n.mode = "in_call" /\ n.last # NoValue)
  <2>1. r = n /\ m.last = NoValue
    BY <1>1, <1>3, Zenon DEF MicState
  <2> QED
    BY <2>1
<1> QED
  BY <1>2, <1>3

-----------------------------------------------------------------------------
(* The steps *)

\* The program starts outside a call, on a route.
LEMMA MuteInit == Init => MuteInv
<1> SUFFICES ASSUME Init PROVE MuteInv
  OBVIOUS
<1>1. PICK r \in Routes : mic = [mode |-> "normal", last |-> NoValue, ctl |-> r]
  BY DEF Init
<1>2. mic \in MicState /\ mic.mode = "normal" /\ mic.last = NoValue /\ mic.ctl = r
  BY <1>1 DEF MicState
<1>3. muted = FALSE /\ mixerBad = FALSE
  BY DEF Init
<1> QED
  BY <1>2, <1>3, Values, Zenon DEF MuteInv, Saved, Consistent, Wish

\* A call on the whole HAL.
LEMMA EndHalKeeps ==
  ASSUME MuteInv, NEW t \in Threads, EndHal(t)
  PROVE  MuteInv'
<1>0. mic \in MicState /\ mixerBad \in BOOLEAN /\ Saved(mic, mixerBad) /\ Wish(mic, muted, mixerBad)
  BY DEF MuteInv
<1> DEFINE op == call[t].op
<1>1. PICK mixer \in Mixers :
        /\ mic' = CASE op = "set_mode normal"  -> wrapper_set_mode(mic, "normal", mixer)
                    [] op = "set_mode in_call" -> wrapper_set_mode(mic, "in_call", mixer)
                    [] op = "set_mic_mute on"  -> wrapper_set_mic_mute(mic, TRUE, mixer)
                    [] op = "set_mic_mute off" -> wrapper_set_mic_mute(mic, FALSE, mixer)
        /\ mixerBad' = (mixerBad \/ mixer # "works")
  BY Zenon DEF EndHal
<1>2. mixerBad' \in BOOLEAN /\ (mixerBad \/ mixer # "works" => mixerBad')
  BY <1>0, <1>1, Zenon
<1>3. op \in HalOps
  BY Zenon DEF EndHal
<1>4. CASE op = "set_mode normal"
  <2>1. mic' = wrapper_set_mode(mic, "normal", mixer) /\ muted' = FALSE
    BY <1>1, <1>4, Zenon DEF EndHal
  <2>2. mic' \in MicState /\ Saved(mic', mixerBad')
    BY <1>0, <1>2, <2>1, SetMode
  <2> QED
    BY <1>2, <2>1, <2>2, Zenon DEF MuteInv, Wish
<1>5. CASE op = "set_mode in_call"
  <2>1. mic' = wrapper_set_mode(mic, "in_call", mixer) /\ muted' = muted
    BY <1>1, <1>5, Zenon DEF EndHal
  <2>2. /\ mic' \in MicState /\ mic'.mode = "in_call" /\ Saved(mic', mixerBad')
        /\ mic.mode = "in_call" => mic'.last = mic.last
    BY <1>0, <1>2, <2>1, SetMode
  <2> QED
    BY <1>0, <1>2, <2>1, <2>2 DEF MuteInv, Wish
<1>6. CASE op = "set_mic_mute on"
  <2>1. mic' = wrapper_set_mic_mute(mic, TRUE, mixer) /\ muted' = (mic.mode = "in_call")
    BY <1>1, <1>6, Zenon DEF EndHal
  <2>2. /\ mic' \in MicState /\ mic'.mode = mic.mode /\ Saved(mic', mixerBad')
        /\ mic.mode = "in_call" /\ ~mixerBad' => mic'.last # NoValue
    <3>1. /\ mic' \in MicState /\ mic'.mode = mic.mode
          /\ mic.mode # "in_call" => mic'.last = NoValue
          /\ mixer = "works" /\ Consistent(mic) =>
               Consistent(mic') /\ (mic.mode = "in_call" => mic'.last # NoValue)
      BY <1>0, <2>1, SetMicMuteOn, Zenon DEF Saved
    <3>2. ~mixerBad' => mixer = "works" /\ Consistent(mic)
      BY <1>0, <1>2 DEF Saved
    <3> QED
      BY <3>1, <3>2 DEF Saved
  <2> QED
    BY <1>0, <1>2, <2>1, <2>2, Zenon DEF MuteInv, Wish
<1>7. CASE op = "set_mic_mute off"
  <2>1. mic' = wrapper_set_mic_mute(mic, FALSE, mixer) /\ muted' = FALSE
    BY <1>1, <1>7, Zenon DEF EndHal
  <2>2. mic' \in MicState /\ Saved(mic', mixerBad')
    BY <1>0, <1>2, <2>1, SetMicMuteOff, Zenon
  <2> QED
    BY <1>2, <2>1, <2>2, Zenon DEF MuteInv, Wish
<1> QED
  BY <1>3, <1>4, <1>5, <1>6, <1>7, Zenon DEF HalOps

\* A function of a stream.
LEMMA EndFunctionKeeps ==
  ASSUME MuteInv, NEW t \in Threads, EndFunction(t)
  PROVE  MuteInv'
<1>0. /\ mic \in MicState /\ mixerBad \in BOOLEAN /\ Saved(mic, mixerBad) /\ Wish(mic, muted, mixerBad)
      /\ muted \in BOOLEAN /\ muted' = muted
  BY DEF MuteInv, EndFunction
<1>1. CASE UNCHANGED <<mic, mixerBad>>
  BY <1>0, <1>1 DEF MuteInv
<1>2. ASSUME NEW r \in Routes \cup {mic.ctl}, NEW mixer \in Mixers,
             mic' = restore_mute([mic EXCEPT !.ctl = r], mixer),
             mixerBad' = (mixerBad \/ mixer # "works")
      PROVE  MuteInv'
  <2>1. mixerBad' \in BOOLEAN /\ (mixerBad \/ mixer # "works" => mixerBad')
    BY <1>0, <1>2, Zenon
  <2>2. mic' \in MicState /\ mic'.mode = mic.mode /\ mic'.last = mic.last /\ Saved(mic', mixerBad')
    <3> DEFINE n == [mic EXCEPT !.ctl = r]
    <3>1. mic' = restore_mute(n, mixer)
      BY <1>2
    <3>2. n \in MicState /\ n.mode = mic.mode /\ n.last = mic.last /\ n.ctl = r
      BY <1>0 DEF MicState
    <3> HIDE DEF n
    <3> QED
      BY <1>0, <2>1, <3>1, <3>2, RestoreMute
  <2> QED
    BY <1>0, <2>1, <2>2 DEF MuteInv, Wish
<1> QED
  BY <1>1, <1>2, Zenon DEF EndFunction

\* The other steps leave the microphone alone.
LEMMA MuteNext == MuteInv /\ [Next]_vars => MuteInv'
<1> SUFFICES ASSUME MuteInv, [Next]_vars PROVE MuteInv'
  OBVIOUS
<1>1. CASE UNCHANGED micVars
  BY <1>1 DEF micVars, MuteInv
<1>2. ASSUME NEW t \in Threads, Call(t) \/ Step(t), ~EndHal(t), ~EndFunction(t)
      PROVE  UNCHANGED micVars
  BY <1>2, Zenon DEF Call, Step, Lookup, BeginIo, EndIo, Lock, LockIn, WaitForFree, Unlink, LockDevice,
              EndClose, EndOpen
<1> QED
  BY <1>1, <1>2, EndHalKeeps, EndFunctionKeeps DEF Next, vars, Step

\* Muting keeps its invariant.
LEMMA MuteAlways == Spec => []MuteInv
BY MuteInit, MuteNext, PTL DEF Spec

-----------------------------------------------------------------------------
(* The locks and the tables, with one stream open in each direction *)

\* TypeOK without the microphone.
Typed ==
  /\ pc \in [Threads -> {"idle", "lock", "found", "io", "check", "asleep", "function",
                         "lock in", "unlink", "device", "hal"}]
  /\ call \in [Threads -> [op : StreamOps \cup HalOps \cup {"open", "none"}, dir : Dirs,
                           h : Handles \cup {NoStream}]]
  /\ table \in [Dirs -> Seq([h : Handles, busy : Nat])]
  /\ mutex \in [Dirs -> Threads \cup {NoThread}] /\ in_use \in Threads \cup {NoThread}
  /\ ptr \in [Threads -> Nat] /\ moved \in [Threads -> BOOLEAN]
  /\ using \in [Threads -> Handles \cup {NoStream}]
  /\ opened \in [Dirs -> SUBSET Handles]

\* The calls that reach each place of the code.
Ops(t) ==
  /\ pc[t] = "idle" <=> call[t].op = "none"
  /\ pc[t] \in {"found", "io"} => call[t].op = "io"
  /\ pc[t] \in {"check", "asleep"} => call[t].op \in StreamOps \ {"io"}
  /\ pc[t] = "function" => call[t].op \in {"function", "set_parameters"}
  /\ pc[t] = "unlink" => call[t].op = "close"
  /\ pc[t] = "lock in" => call[t].op \in HalOps
  /\ pc[t] \in {"device", "hal"} => call[t].op \in HalOps \cup {"open", "close"}
  /\ call[t].op \in StreamOps => call[t].h \in Handles

\* The places where a thread holds the table's mutex, where its stream is in the
\* table, and where it may rely on nobody using the stream.
Holding == {"check", "asleep", "function", "lock in", "unlink", "device", "hal"}
Linking == {"found", "io", "check", "asleep", "function", "unlink"}
Alone == {"function", "unlink"}

\* What a thread may rely on between two of its steps.
ThreadOK(t) ==
  LET d == call[t].dir IN
  /\ Ops(t) /\ ~moved[t]
  /\ pc[t] \in Holding => mutex[d] = t
  /\ pc[t] \in Linking => table[d] # <<>> /\ table[d][1].h = call[t].h
  /\ pc[t] \in Alone => Pointing(d) = {}
  /\ pc[t] \in {"device", "hal"} /\ call[t].op = "close" => table[d] = <<>> /\ call[t].h \in opened[d]
  /\ pc[t] \in {"found", "io"} => ptr[t] = 1
  /\ pc[t] = "io" => using[t] = call[t].h

\* The table has an entry or an opening thread, and its counter counts its users.
TableOK(d) ==
  /\ Len(table[d]) <= 1
  /\ Opening(d) # {} => table[d] = <<>>
  /\ \A t, u \in Opening(d) : t = u
  /\ table[d] = <<>> => Pointing(d) = {}
  /\ table[d] # <<>> => table[d][1].busy = Cardinality(Pointing(d)) /\ table[d][1].h \in opened[d]

LockInv == Typed /\ (\A t \in Threads : ThreadOK(t)) /\ (\A d \in Dirs : TableOK(d))

\* A step of t leaves the other threads where they are, or wakes them.
Others(t) ==
  \A u \in Threads \ {t} :
    /\ pc'[u] = pc[u] \/ (pc[u] = "asleep" /\ pc'[u] = "check")
    /\ call'[u] = call[u] /\ ptr'[u] = ptr[u] /\ moved'[u] = moved[u] /\ using'[u] = using[u]

\* What a thread relies on survives a step of another that leaves its mutex,
\* its stream and the absence of users alone.
LEMMA OtherThread ==
  ASSUME NEW u \in Threads, ThreadOK(u),
         pc'[u] = pc[u] \/ (pc[u] = "asleep" /\ pc'[u] = "check"),
         call'[u] = call[u], ptr'[u] = ptr[u], moved'[u] = moved[u], using'[u] = using[u],
         NEW d, d = call[u].dir,
         pc[u] \in Holding => mutex'[d] = mutex[d],
         pc[u] \in Linking => table'[d] # <<>> /\ table'[d][1].h = table[d][1].h,
         pc[u] \in Alone => Pointing(d)' = {},
         pc[u] \in {"device", "hal"} /\ call[u].op = "close" =>
           table'[d] = table[d] /\ opened[d] \subseteq opened'[d]
  PROVE  ThreadOK(u)'
<1> DEFINE from == pc[u]
           to == pc'[u]
           op == call[u].op
<1>1. Ops(u)'
  BY Zenon DEF ThreadOK, Ops
<1>2. /\ to \in Holding => from \in Holding
      /\ to \in Linking => from \in Linking
      /\ to \in Alone => from \in Alone
      /\ to \in {"device", "hal"} => from \in {"device", "hal"}
      /\ to \in {"found", "io"} => to = from
  BY Zenon DEF Holding, Linking, Alone
<1> HIDE DEF from, to, op
<1>3. /\ ~moved'[u]
      /\ to \in Holding => mutex'[d] = u
      /\ to \in Linking => table'[d] # <<>> /\ table'[d][1].h = call[u].h
      /\ to \in Alone => Pointing(d)' = {}
      /\ to \in {"device", "hal"} /\ op = "close" => table'[d] = <<>> /\ call[u].h \in opened'[d]
      /\ to \in {"found", "io"} => ptr'[u] = 1
      /\ to = "io" => using'[u] = call[u].h
  BY <1>2, Zenon DEF ThreadOK, from, op
<1> QED
  BY <1>1, <1>3, Zenon DEF ThreadOK, to, op

\* The users of a table change only with a thread that finds its stream or
\* leaves its read or write.
LEMMA SamePointing ==
  ASSUME Typed, Typed', NEW t \in Threads, Others(t),
         pc[t] \notin {"found", "io"}, pc'[t] \notin {"found", "io"}
  PROVE  \A d \in Dirs : Pointing(d)' = Pointing(d)
BY DEF Others, Pointing

\* A step that touches no table.
LEMMA CalmStep ==
  ASSUME LockInv, Typed', NEW t \in Threads, Others(t), ThreadOK(t)',
         table' = table, opened' = opened,
         pc[t] \notin {"found", "io"}, pc'[t] \notin {"found", "io"},
         \A d \in Dirs : mutex'[d] = mutex[d] \/ mutex[d] \in {t, NoThread},
         call'[t].op = "open" =>
           call'[t] = call[t] \/ (Opening(call'[t].dir) = {} /\ table[call'[t].dir] = <<>>)
  PROVE  LockInv' /\ Others(t)
<1>0. Typed /\ (\A u \in Threads : ThreadOK(u)) /\ (\A d \in Dirs : TableOK(d))
  BY DEF LockInv
<1>1. \A d \in Dirs : Pointing(d)' = Pointing(d)
  BY <1>0, SamePointing
<1>2. ASSUME NEW u \in Threads, u # t
      PROVE  ThreadOK(u)'
  <2>0. PICK d \in Dirs : d = call[u].dir
    BY <1>0, Zenon DEF Typed
  <2>1. ThreadOK(u)
    BY <1>0
  <2>2. /\ pc'[u] = pc[u] \/ (pc[u] = "asleep" /\ pc'[u] = "check")
        /\ call'[u] = call[u] /\ ptr'[u] = ptr[u] /\ moved'[u] = moved[u] /\ using'[u] = using[u]
    BY <1>2 DEF Others
  <2>3. pc[u] \in Holding => mutex'[d] = mutex[d]
    <3>1. pc[u] \in Holding => mutex[d] = u /\ u # NoThread
      BY <2>0, <2>1, AudioAssumption, Zenon DEF ThreadOK
    <3> QED
      BY <1>2, <3>1
  <2>4. pc[u] \in Alone => Pointing(d)' = {}
    BY <1>1, <2>0, <2>1, Zenon DEF ThreadOK
  <2>5. pc[u] \in Linking => table'[d] # <<>> /\ table'[d][1].h = table[d][1].h
    BY <2>0, <2>1, Zenon DEF ThreadOK
  <2> QED
    BY <2>0, <2>1, <2>2, <2>3, <2>4, <2>5, OtherThread, Zenon
<1>3. ASSUME NEW d \in Dirs
      PROVE  TableOK(d)'
  <2>1. TableOK(d)
    BY <1>0
  <2>2. Opening(d)' \subseteq Opening(d) \/ (Opening(d)' = {t} /\ table[d] = <<>>)
    <3>1. \A u \in Threads \ {t} : u \in Opening(d)' <=> u \in Opening(d)
      BY DEF Others, Opening
    <3>2. Opening(d)' \subseteq Threads /\ Opening(d) \subseteq Threads
      BY DEF Opening
    <3>3. t \in Opening(d)' => t \in Opening(d) \/ (Opening(d) = {} /\ table[d] = <<>>)
      BY DEF Opening
    <3> QED
      BY <3>1, <3>2, <3>3
  <2>3. /\ Opening(d)' # {} => table[d] = <<>>
        /\ \A u, v \in Opening(d)' : u = v
    BY <2>1, <2>2 DEF TableOK
  <2>4. table'[d] = table[d] /\ opened'[d] = opened[d] /\ Pointing(d)' = Pointing(d)
    BY <1>1
  <2> QED
    BY <2>1, <2>3, <2>4 DEF TableOK
<1> QED
  BY <1>2, <1>3 DEF LockInv

\* A sequence has a length, zero only for the empty one.
LEMMA LenFacts ==
  ASSUME NEW S, NEW s \in Seq(S)
  PROVE  Len(s) \in Nat /\ (s = <<>> <=> Len(s) = 0)
OBVIOUS

\* A table has no entry, or one, which is the one looked for.
LEMMA FoundFirst ==
  ASSUME Typed, NEW d \in Dirs, TableOK(d), NEW h
  PROVE  /\ Found(d, h) # {} <=> table[d] # <<>> /\ table[d][1].h = h
         /\ \A i \in Found(d, h) : i = 1
         /\ table[d] # <<>> => Len(table[d]) = 1
<1>1. table[d] \in Seq([h : Handles, busy : Nat])
  BY Zenon DEF Typed
<1>2. Len(table[d]) \in Nat /\ (table[d] # <<>> <=> Len(table[d]) = 1)
  <2>1. Len(table[d]) \in Nat /\ (table[d] = <<>> <=> Len(table[d]) = 0)
    BY <1>1, LenFacts
  <2>2. Len(table[d]) <= 1
    BY DEF TableOK
  <2> DEFINE n == Len(table[d])
             none == table[d] = <<>>
  <2> HIDE DEF n, none
  <2>3. n \in Nat /\ (none <=> n = 0) /\ n <= 1
    BY <2>1, <2>2 DEF n, none
  <2>4. n \in Nat /\ (~none <=> n = 1)
    BY <2>3
  <2> QED
    BY <2>4 DEF n, none
<1>3. Entries(d) = 1..Len(table[d])
  BY <1>1 DEF Entries
<1> QED
  BY <1>2, <1>3 DEF Found

\* A call begins.
LEMMA CallNext ==
  ASSUME MaxOpen = 1, LockInv, NEW t \in Threads, Call(t)
  PROVE  LockInv' /\ Others(t)
<1>0. Typed /\ ThreadOK(t) /\ \A d \in Dirs : TableOK(d)
  BY DEF LockInv
<1>1. PICK c \in Calls[t], h \in Handles \cup {NoStream} :
        /\ h \in Handles <=> c[1] \in StreamOps
        /\ c[1] = "open" => Len(table[c[2]]) + Cardinality(Opening(c[2])) < MaxOpen
        /\ call' = [call EXCEPT ![t] = [op |-> c[1], dir |-> c[2], h |-> h]]
  BY Zenon DEF Call
<1>2. c[1] \in StreamOps \cup HalOps \cup {"open"} /\ c[2] \in Dirs
  BY AudioAssumption DEF AllCalls, StreamOps, Dirs
<1>3. /\ pc[t] = "idle" /\ pc' = [pc EXCEPT ![t] = "lock"]
      /\ UNCHANGED <<table, mutex, in_use, ptr, moved, using, opened>>
  BY DEF Call, Goto
<1>4. Typed'
  BY <1>0, <1>1, <1>2, <1>3, Zenon DEF Typed
<1>5. Others(t)
  BY <1>0, <1>1, <1>3, Zenon DEF Others, Typed
<1>6. /\ pc'[t] = "lock" /\ call'[t].op = c[1] /\ call'[t].dir = c[2] /\ call'[t].h = h
      /\ moved'[t] = moved[t]
  BY <1>0, <1>1, <1>3, Zenon DEF Typed
<1>7. ThreadOK(t)'
  <2>1. c[1] # "none"
    BY <1>2, Zenon DEF StreamOps, HalOps
  <2> QED
    BY <1>0, <1>1, <1>6, <2>1, Zenon DEF ThreadOK, Ops, Holding, Linking, Alone
<1>8. c[1] = "open" => Opening(c[2]) = {} /\ table[c[2]] = <<>>
  <2>1. IsFiniteSet(Opening(c[2]))
    BY AudioAssumption, FS_Subset DEF Opening
  <2>2. Cardinality(Opening(c[2])) \in Nat /\ (Cardinality(Opening(c[2])) = 0 <=> Opening(c[2]) = {})
    BY <2>1, FS_CardinalityType, FS_EmptySet
  <2>3. Len(table[c[2]]) \in Nat /\ (Len(table[c[2]]) = 0 <=> table[c[2]] = <<>>)
    <3>1. table[c[2]] \in Seq([h : Handles, busy : Nat])
      BY <1>0, <1>2, Zenon DEF Typed
    <3> QED
      BY <3>1, LenFacts
  <2> QED
    BY <1>1, <2>2, <2>3
<1> QED
  BY <1>3, <1>4, <1>5, <1>6, <1>7, <1>8, CalmStep

\* A call returns, with or without the mutexes it held.
LEMMA ReturnStep ==
  ASSUME LockInv, NEW t \in Threads, Done(t), pc[t] \notin {"found", "io"},
         UNCHANGED <<table, opened, ptr, moved, using>>,
         in_use' \in Threads \cup {NoThread},
         \/ UNCHANGED mutex
         \/ mutex' = [d \in Dirs |-> IF mutex[d] = t THEN NoThread ELSE mutex[d]]
  PROVE  LockInv' /\ Others(t)
<1>0. Typed /\ ThreadOK(t)
  BY DEF LockInv
<1>1. Typed'
  <2>1. NoCall \in [op : StreamOps \cup HalOps \cup {"open", "none"}, dir : Dirs,
                   h : Handles \cup {NoStream}]
    BY DEF NoCall, Dirs
  <2>2. mutex' \in [Dirs -> Threads \cup {NoThread}]
    BY <1>0, Zenon DEF Typed
  <2> QED
    BY <1>0, <2>1, <2>2, Zenon DEF Typed, Done
<1>2. Others(t)
  BY <1>0, Zenon DEF Others, Done, Typed
<1>3. pc'[t] = "idle" /\ call'[t].op = "none" /\ moved'[t] = moved[t]
  BY <1>0, Zenon DEF Typed, Done, NoCall
<1>4. ThreadOK(t)'
  BY <1>0, <1>3, Zenon DEF ThreadOK, Ops, Holding, Linking, Alone, StreamOps
<1>5. \A d \in Dirs : mutex'[d] = mutex[d] \/ mutex[d] \in {t, NoThread}
  OBVIOUS
<1> QED
  BY <1>1, <1>2, <1>3, <1>4, <1>5, CalmStep

\* A step gives t the mutex of table d, or leaves it with t, and takes none from
\* another thread.
Acquires(t, d) ==
  /\ mutex' \in [Dirs -> Threads \cup {NoThread}] /\ mutex'[d] = t
  /\ \A e \in Dirs : mutex'[e] = mutex[e] \/ mutex[e] \in {t, NoThread}

\* What t needs of table d to go on at the place to.
Entitled(t, d, to) ==
  /\ to \in Linking => table[d] # <<>> /\ table[d][1].h = call[t].h
  /\ to \in Alone => Pointing(d) = {}
  /\ to \in {"device", "hal"} /\ call[t].op = "close" => table[d] = <<>> /\ call[t].h \in opened[d]

\* A thread that keeps its call and touches no table goes on.
LEMMA GoStep ==
  ASSUME LockInv, NEW t \in Threads, NEW to \in Holding,
         pc[t] \notin {"found", "io"}, pc' = [pc EXCEPT ![t] = to],
         UNCHANGED <<call, table, opened, ptr, moved, using>>,
         in_use' \in Threads \cup {NoThread},
         NEW d, d = call[t].dir, Acquires(t, d), Entitled(t, d, to), Ops(t)'
  PROVE  LockInv' /\ Others(t)
<1>0. Typed /\ ThreadOK(t) /\ d \in Dirs
  BY Zenon DEF LockInv, Typed
<1>1. Typed'
  BY <1>0, Zenon DEF Typed, Acquires, Holding
<1>2. Others(t)
  BY <1>0, Zenon DEF Others, Typed
<1>3. pc'[t] = to /\ pc'[t] \notin {"found", "io"}
  BY <1>0, Zenon DEF Typed, Holding
<1>4. Pointing(d)' = Pointing(d)
  BY <1>0, <1>1, <1>2, <1>3, SamePointing, Zenon
<1>5. ThreadOK(t)'
  BY <1>0, <1>3, <1>4, Zenon DEF ThreadOK, Acquires, Entitled
<1>6. \A e \in Dirs : mutex'[e] = mutex[e] \/ mutex[e] \in {t, NoThread}
  BY DEF Acquires
<1> QED
  BY <1>1, <1>2, <1>3, <1>5, <1>6, CalmStep, Zenon

\* The calls that lock a table first.
LEMMA LockNext ==
  ASSUME LockInv, NEW t \in Threads, Lock(t)
  PROVE  LockInv' /\ Others(t)
<1>0. Typed /\ ThreadOK(t) /\ \A d \in Dirs : TableOK(d)
  BY DEF LockInv
<1>1. PICK d \in Dirs : d = call[t].dir
  BY <1>0, Zenon DEF Typed
<1>2. /\ pc[t] = "lock" /\ call[t].op # "io" /\ mutex[d] = NoThread
      /\ UNCHANGED <<table, in_use, ptr, moved, using, opened>>
  BY <1>1, Zenon DEF Lock
<1>3. CASE Done(t) /\ UNCHANGED mutex
  BY <1>0, <1>2, <1>3, ReturnStep, Zenon DEF Typed
<1>4. CASE /\ call[t].op \in StreamOps => Found(d, call[t].h) # {}
           /\ mutex' = [mutex EXCEPT ![d] = t]
           /\ pc' = [pc EXCEPT ![t] = CASE call[t].op \in StreamOps -> "check"
                                        [] call[t].op \in HalOps    -> "lock in"
                                        [] call[t].op = "open"      -> "device"]
           /\ UNCHANGED call
  <2> DEFINE to == CASE call[t].op \in StreamOps -> "check"
                     [] call[t].op \in HalOps    -> "lock in"
                     [] call[t].op = "open"      -> "device"
  <2>1. /\ call[t].op \in StreamOps \cup HalOps \cup {"open"}
        /\ call[t].op \in StreamOps => call[t].h \in Handles
    BY <1>0, <1>2, Zenon DEF Typed, ThreadOK, Ops
  <2>2. \/ call[t].op \in StreamOps /\ to = "check"
        \/ call[t].op \in HalOps /\ to = "lock in"
        \/ call[t].op = "open" /\ to = "device"
    BY <2>1, Zenon DEF StreamOps, HalOps
  <2>3. pc' = [pc EXCEPT ![t] = to]
    BY <1>4, Zenon
  <2> HIDE DEF to
  <2>4. Ops(t)'
    <3>1. pc'[t] = to /\ call'[t] = call[t]
      BY <1>0, <1>4, <2>3, Zenon DEF Typed
    <3> QED
      BY <1>2, <2>1, <2>2, <3>1, Zenon DEF Ops, StreamOps, HalOps
  <2>5. call[t].op \in StreamOps => table[d] # <<>> /\ table[d][1].h = call[t].h
    BY <1>0, <1>4, FoundFirst, Zenon
  <2>6. Entitled(t, d, to) /\ to \in Holding
    BY <2>2, <2>5, Zenon DEF Entitled, Holding, Linking, Alone
  <2>7. Acquires(t, d)
    BY <1>0, <1>2, <1>4, Zenon DEF Typed, Acquires
  <2>8. /\ in_use' \in Threads \cup {NoThread}
        /\ UNCHANGED <<call, table, opened, ptr, moved, using>>
    BY <1>0, <1>2, <1>4, Zenon DEF Typed
  <2>9. pc[t] \notin {"found", "io"}
    BY <1>2
  <2> QED
    BY <1>1, <2>3, <2>4, <2>6, <2>7, <2>8, <2>9, GoStep, Zenon
<1> QED
  BY <1>1, <1>3, <1>4, Zenon DEF Lock

\* The second table is locked for a call on the whole HAL.
LEMMA LockInNext ==
  ASSUME LockInv, NEW t \in Threads, LockIn(t)
  PROVE  LockInv' /\ Others(t)
<1>0. Typed /\ ThreadOK(t)
  BY DEF LockInv
<1>1. PICK d \in Dirs : d = call[t].dir
  BY <1>0, Zenon DEF Typed
<1>2. /\ pc[t] = "lock in" /\ pc' = [pc EXCEPT ![t] = "device"]
      /\ mutex["in"] = NoThread /\ mutex' = [mutex EXCEPT !["in"] = t]
      /\ UNCHANGED <<call, table, in_use, ptr, moved, using, opened>>
  BY Zenon DEF LockIn, Goto
<1>3. mutex[d] = t /\ call[t].op \in HalOps
  BY <1>0, <1>1, <1>2, Zenon DEF ThreadOK, Ops, Holding
<1>4. Acquires(t, d)
  BY <1>0, <1>2, <1>3, Zenon DEF Typed, Dirs, Acquires
<1>5. Ops(t)'
  <2>1. pc'[t] = "device" /\ call'[t] = call[t]
    BY <1>0, <1>2, Zenon DEF Typed
  <2> QED
    BY <1>3, <2>1, Zenon DEF Ops, StreamOps, HalOps
<1>6. in_use' \in Threads \cup {NoThread} /\ pc[t] \notin {"found", "io"}
  BY <1>0, <1>2, Zenon DEF Typed
<1>7. Entitled(t, d, "device") /\ "device" \in Holding
  BY <1>3, Zenon DEF Entitled, Holding, Linking, Alone, HalOps
<1> QED
  BY <1>1, <1>2, <1>4, <1>5, <1>6, <1>7, GoStep, Zenon

\* An entry that is not busy has no user.
LEMMA NotBusy ==
  ASSUME Typed, NEW t \in Threads, NEW d \in Dirs, d = call[t].dir, TableOK(d), ~Busy(t),
         table[d] # <<>>, table[d][1].h = call[t].h
  PROVE  Pointing(d) = {}
<1>1. \E i \in Found(d, call[t].h) : i = 1
  BY FoundFirst
<1>2. table[d][1].busy = 0
  BY <1>1 DEF Busy
<1>3. IsFiniteSet(Pointing(d))
  BY AudioAssumption, FS_Subset DEF Pointing
<1> QED
  BY <1>2, <1>3, FS_EmptySet, Zenon DEF TableOK

\* One turn of the loop that waits for the users.
LEMMA WaitNext ==
  ASSUME LockInv, NEW t \in Threads, WaitForFree(t)
  PROVE  LockInv' /\ Others(t)
<1>0. Typed /\ ThreadOK(t) /\ \A d \in Dirs : TableOK(d)
  BY DEF LockInv
<1>1. PICK d \in Dirs : d = call[t].dir
  BY <1>0, Zenon DEF Typed
<1> DEFINE to == IF Busy(t) THEN "asleep" ELSE IF call[t].op = "close" THEN "unlink" ELSE "function"
<1>2. /\ pc[t] = "check" /\ pc' = [pc EXCEPT ![t] = to]
      /\ UNCHANGED <<call, table, mutex, in_use, ptr, moved, using, opened>>
  BY DEF WaitForFree
<1>3. \/ to = "asleep"
      \/ to = "unlink" /\ call[t].op = "close" /\ ~Busy(t)
      \/ to = "function" /\ call[t].op # "close" /\ ~Busy(t)
  OBVIOUS
<1> HIDE DEF to
<1>4. /\ mutex[d] = t /\ call[t].op \in StreamOps \ {"io"}
      /\ table[d] # <<>> /\ table[d][1].h = call[t].h
  BY <1>0, <1>1, <1>2, Zenon DEF ThreadOK, Ops, Holding, Linking
<1>5. Ops(t)'
  <2>1. pc'[t] = to /\ call'[t] = call[t]
    BY <1>0, <1>2, Zenon DEF Typed
  <2> QED
    BY <1>0, <1>2, <1>3, <1>4, <2>1, Zenon DEF ThreadOK, Ops, StreamOps
<1>6. Entitled(t, d, to) /\ to \in Holding
  <2>1. to \in Alone => Pointing(d) = {}
    BY <1>0, <1>1, <1>3, <1>4, NotBusy, Zenon DEF Alone
  <2> QED
    BY <1>3, <1>4, <2>1, Zenon DEF Entitled, Holding
<1>7. Acquires(t, d)
  BY <1>0, <1>2, <1>4, Zenon DEF Typed, Acquires
<1>8. in_use' \in Threads \cup {NoThread} /\ pc[t] \notin {"found", "io"}
  BY <1>0, <1>2, Zenon DEF Typed
<1> QED
  BY <1>1, <1>2, <1>5, <1>6, <1>7, <1>8, GoStep, Zenon

\* The device is locked.
LEMMA LockDeviceNext ==
  ASSUME LockInv, NEW t \in Threads, LockDevice(t)
  PROVE  LockInv' /\ Others(t)
<1>0. Typed /\ ThreadOK(t)
  BY DEF LockInv
<1>1. PICK d \in Dirs : d = call[t].dir
  BY <1>0, Zenon DEF Typed
<1>2. /\ pc[t] = "device" /\ pc' = [pc EXCEPT ![t] = "hal"] /\ in_use' = t
      /\ UNCHANGED <<call, table, mutex, ptr, moved, using, opened>>
  BY DEF LockDevice, Goto
<1>3. /\ mutex[d] = t
      /\ call[t].op = "close" => table[d] = <<>> /\ call[t].h \in opened[d]
  BY <1>0, <1>1, <1>2, Zenon DEF ThreadOK, Holding
<1>4. Ops(t)'
  <2>1. pc'[t] = "hal" /\ call'[t] = call[t]
    BY <1>0, <1>2, Zenon DEF Typed
  <2> QED
    BY <1>0, <1>2, <2>1, Zenon DEF ThreadOK, Ops
<1>5. Entitled(t, d, "hal") /\ "hal" \in Holding /\ pc[t] \notin {"found", "io"}
  BY <1>2, <1>3, Zenon DEF Entitled, Holding, Linking, Alone
<1>6. Acquires(t, d) /\ in_use' \in Threads \cup {NoThread}
  BY <1>0, <1>2, <1>3, Zenon DEF Typed, Acquires
<1> QED
  BY <1>1, <1>2, <1>4, <1>5, <1>6, GoStep, Zenon

\* A function of a stream or a call on the whole HAL returns.
LEMMA UnlockNext ==
  ASSUME LockInv, NEW t \in Threads, Unlock(t), pc[t] \in {"function", "hal"},
         UNCHANGED <<table, opened, ptr, moved, using>>
  PROVE  LockInv' /\ Others(t)
<1>1. in_use' \in Threads \cup {NoThread}
  BY Zenon DEF LockInv, Typed, Unlock
<1> QED
  BY <1>1, ReturnStep DEF Unlock

\* A table a step has nothing to do with.
LEMMA SameTable ==
  ASSUME NEW e \in Dirs, TableOK(e), table'[e] = table[e], opened'[e] = opened[e],
         Pointing(e)' = Pointing(e), Opening(e)' = Opening(e)
  PROVE  TableOK(e)'
BY DEF TableOK

\* A step of t keeps its mutexes or gives them up, has to do with table d only,
\* and takes nothing from the threads that rely on that table.
Releases(t) == \A e \in Dirs : mutex'[e] = mutex[e] \/ mutex[e] = t
OnlyTable(d) ==
  \A e \in Dirs \ {d} : /\ table'[e] = table[e] /\ opened'[e] = opened[e]
                        /\ Pointing(e)' = Pointing(e) /\ Opening(e)' = Opening(e)
Spares(t, d) ==
  \A u \in Threads \ {t} : call[u].dir = d =>
    /\ pc[u] \in Linking => table'[d] # <<>> /\ table'[d][1].h = table[d][1].h
    /\ pc[u] \in Alone => Pointing(d)' = {}
    /\ pc[u] \in {"device", "hal"} /\ call[u].op = "close" =>
         table'[d] = table[d] /\ opened[d] \subseteq opened'[d]

\* Such a step keeps the invariant when it leaves its thread and its table in
\* order.
LEMMA TableStep ==
  ASSUME LockInv, Typed', NEW t \in Threads, Others(t), ThreadOK(t)',
         NEW d \in Dirs, TableOK(d)', Releases(t), OnlyTable(d), Spares(t, d)
  PROVE  LockInv' /\ Others(t)
<1>0. Typed /\ (\A u \in Threads : ThreadOK(u)) /\ (\A e \in Dirs : TableOK(e))
  BY DEF LockInv
<1>1. ASSUME NEW u \in Threads, u # t
      PROVE  ThreadOK(u)'
  <2>0. PICK e \in Dirs : e = call[u].dir
    BY <1>0, Zenon DEF Typed
  <2>1. ThreadOK(u)
    BY <1>0
  <2>2. /\ pc'[u] = pc[u] \/ (pc[u] = "asleep" /\ pc'[u] = "check")
        /\ call'[u] = call[u] /\ ptr'[u] = ptr[u] /\ moved'[u] = moved[u] /\ using'[u] = using[u]
    BY <1>1, Zenon DEF Others
  <2>3. pc[u] \in Holding => mutex'[e] = mutex[e]
    BY <1>1, <2>0, <2>1, Zenon DEF ThreadOK, Releases
  <2>4. /\ pc[u] \in Linking => table'[e] # <<>> /\ table'[e][1].h = table[e][1].h
        /\ pc[u] \in Alone => Pointing(e)' = {}
        /\ pc[u] \in {"device", "hal"} /\ call[u].op = "close" =>
             table'[e] = table[e] /\ opened[e] \subseteq opened'[e]
    <3>1. CASE e = d
      BY <1>1, <2>0, <3>1, Zenon DEF Spares
    <3>2. CASE e # d
      <4>1. /\ table'[e] = table[e] /\ opened'[e] = opened[e] /\ Pointing(e)' = Pointing(e)
        BY <3>2, Zenon DEF OnlyTable
      <4> QED
        BY <2>0, <2>1, <4>1, Zenon DEF ThreadOK
    <3> QED
      BY <3>1, <3>2, Zenon
  <2> QED
    BY <2>0, <2>1, <2>2, <2>3, <2>4, OtherThread, Zenon
<1>2. ASSUME NEW e \in Dirs
      PROVE  TableOK(e)'
  <2>1. CASE e = d
    BY <2>1
  <2>2. CASE e # d
    BY <1>0, <2>2, SameTable, Zenon DEF OnlyTable
  <2> QED
    BY <2>1, <2>2
<1> QED
  BY <1>1, <1>2 DEF LockInv

\* A set of threads that a step changes at most for one of them.
LEMMA OneChange ==
  ASSUME NEW t \in Threads, NEW A, NEW B, A \subseteq Threads, B \subseteq Threads,
         \A u \in Threads \ {t} : u \in B <=> u \in A
  PROVE  /\ (t \in B <=> t \in A) => B = A
         /\ t \in B => B = A \cup {t}
         /\ t \notin B => B = A \ {t}
OBVIOUS

\* The threads that use a table or are about to add to it, after a step of t.
LEMMA ChangedUsers ==
  ASSUME NEW t \in Threads, Others(t), NEW e \in Dirs
  PROVE  LET points == call'[t].dir = e /\ pc'[t] \in {"found", "io"}
             opens == call'[t].op = "open" /\ call'[t].dir = e
         IN  /\ (points <=> t \in Pointing(e)) => Pointing(e)' = Pointing(e)
             /\ points => Pointing(e)' = Pointing(e) \cup {t}
             /\ ~points => Pointing(e)' = Pointing(e) \ {t}
             /\ (opens <=> t \in Opening(e)) => Opening(e)' = Opening(e)
             /\ ~opens => Opening(e)' = Opening(e) \ {t}
<1>1. ASSUME NEW u \in Threads \ {t}
      PROVE  /\ u \in Pointing(e)' <=> u \in Pointing(e)
             /\ u \in Opening(e)' <=> u \in Opening(e)
  BY <1>1 DEF Others, Pointing, Opening
<1>2. /\ t \in Pointing(e)' <=> call'[t].dir = e /\ pc'[t] \in {"found", "io"}
      /\ t \in Opening(e)' <=> call'[t].op = "open" /\ call'[t].dir = e
  BY DEF Pointing, Opening
<1>3. /\ Pointing(e) \subseteq Threads /\ Pointing(e)' \subseteq Threads
      /\ Opening(e) \subseteq Threads /\ Opening(e)' \subseteq Threads
  BY DEF Pointing, Opening
<1>4. /\ (t \in Pointing(e)' <=> t \in Pointing(e)) => Pointing(e)' = Pointing(e)
      /\ t \in Pointing(e)' => Pointing(e)' = Pointing(e) \cup {t}
      /\ t \notin Pointing(e)' => Pointing(e)' = Pointing(e) \ {t}
  BY <1>1, <1>3, OneChange
<1>5. /\ (t \in Opening(e)' <=> t \in Opening(e)) => Opening(e)' = Opening(e)
      /\ t \notin Opening(e)' => Opening(e)' = Opening(e) \ {t}
  BY <1>1, <1>3, OneChange
<1> QED
  BY <1>2, <1>4, <1>5, Zenon

\* A step of a call that opens no stream.
LEMMA SameOpening ==
  ASSUME NEW t \in Threads, Others(t), call[t].op # "open", call'[t].op # "open"
  PROVE  \A e \in Dirs : Opening(e)' = Opening(e)
<1>1. \A e \in Dirs : t \notin Opening(e)
  BY DEF Opening
<1> QED
  BY <1>1, ChangedUsers, Zenon

\* A sequence of one element, and the one with another element in its place.
LEMMA OneElement ==
  ASSUME NEW S, NEW s \in Seq(S), Len(s) = 1
  PROVE  /\ s[1] \in S
         /\ \A x \in S : /\ [s EXCEPT ![1] = x] \in Seq(S) /\ Len([s EXCEPT ![1] = x]) = 1
                         /\ [s EXCEPT ![1] = x][1] = x
OBVIOUS

\* The counter of the only entry changes, and nothing else of the table.
LEMMA Counted ==
  ASSUME Typed, NEW d \in Dirs, TableOK(d), table[d] # <<>>, NEW n \in Nat,
         table' = [table EXCEPT ![d][1].busy = n]
  PROVE  /\ table' \in [Dirs -> Seq([h : Handles, busy : Nat])]
         /\ table'[d] # <<>> /\ Len(table'[d]) <= 1
         /\ table'[d][1].h = table[d][1].h /\ table'[d][1].busy = n
         /\ \A e \in Dirs \ {d} : table'[e] = table[e]
<1> DEFINE E == [h : Handles, busy : Nat]
           s == table[d]
           x == [s[1] EXCEPT !.busy = n]
           y == [s EXCEPT ![1] = x]
<1>1. s \in Seq(E) /\ Len(s) = 1
  BY FoundFirst, Zenon DEF Typed
<1> HIDE DEF E, s
<1>2. s[1] \in E
  BY <1>1, OneElement
<1>3. x \in E /\ x.h = s[1].h /\ x.busy = n
  BY <1>2 DEF E
<1>4. table' = [table EXCEPT ![d] = y]
  BY DEF s
<1> HIDE DEF x
<1>5. y \in Seq(E) /\ Len(y) = 1 /\ y[1] = x
  BY <1>1, <1>3, OneElement
<1> HIDE DEF y
<1>6. /\ table' \in [Dirs -> Seq(E)] /\ table'[d] = y
      /\ \A e \in Dirs \ {d} : table'[e] = table[e]
  <2>1. table \in [Dirs -> Seq(E)]
    BY Zenon DEF Typed, E
  <2> QED
    BY <1>4, <1>5, <2>1
<1>7. y # <<>>
  <2>1. Len(y) # 0
    BY <1>5
  <2> QED
    BY <1>5, <2>1, LenFacts, Zenon
<1>8. Len(y) <= 1
  BY <1>5
<1>9. y[1].h = s[1].h /\ y[1].busy = n
  BY <1>3, <1>5
<1> QED
  BY <1>6, <1>7, <1>8, <1>9, Zenon DEF s, E

\* The threads that use a table, counted.
LEMMA PointingFinite ==
  ASSUME NEW d \in Dirs
  PROVE  /\ IsFiniteSet(Pointing(d)) /\ Cardinality(Pointing(d)) \in Nat
         /\ Cardinality(Pointing(d)) = 0 <=> Pointing(d) = {}
<1>1. IsFiniteSet(Pointing(d))
  BY AudioAssumption, FS_Subset DEF Pointing
<1> QED
  BY <1>1, FS_CardinalityType, FS_EmptySet

\* A read or a write finds its stream, or returns without it.
LEMMA LookupNext ==
  ASSUME LockInv, NEW t \in Threads, Lookup(t)
  PROVE  LockInv' /\ Others(t)
<1>0. Typed /\ (\A u \in Threads : ThreadOK(u)) /\ (\A d \in Dirs : TableOK(d))
  BY DEF LockInv
<1>1. PICK d \in Dirs : d = call[t].dir
  BY <1>0, Zenon DEF Typed
<1>2. /\ pc[t] = "lock" /\ call[t].op = "io" /\ mutex[d] = NoThread
      /\ UNCHANGED <<mutex, in_use, moved, using, opened>>
  BY <1>1, Zenon DEF Lookup
<1>3. CASE Done(t) /\ UNCHANGED <<table, ptr>>
  BY <1>0, <1>2, <1>3, ReturnStep, Zenon DEF Typed
<1>4. ASSUME NEW i \in Found(d, call[t].h),
             table' = [table EXCEPT ![d][i].busy = @ + 1], ptr' = [ptr EXCEPT ![t] = i],
             pc' = [pc EXCEPT ![t] = "found"], UNCHANGED call
      PROVE  LockInv' /\ Others(t)
  <2> DEFINE n == table[d][1].busy + 1
  <2>1. i = 1 /\ table[d] # <<>> /\ table[d][1].h = call[t].h
    BY <1>0, <1>4, FoundFirst
  <2>2. table[d][1].busy = Cardinality(Pointing(d)) /\ table[d][1].h \in opened[d] /\ Opening(d) = {}
    BY <1>0, <2>1 DEF TableOK
  <2>3. n \in Nat
    BY <2>2, PointingFinite
  <2>4. table' = [table EXCEPT ![d][1].busy = n]
    BY <1>4, <2>1
  <2> HIDE DEF n
  <2>5. /\ table' \in [Dirs -> Seq([h : Handles, busy : Nat])]
        /\ table'[d] # <<>> /\ Len(table'[d]) <= 1
        /\ table'[d][1].h = table[d][1].h /\ table'[d][1].busy = n
        /\ \A e \in Dirs \ {d} : table'[e] = table[e]
    BY <1>0, <2>1, <2>3, <2>4, Counted, Zenon
  <2>6. Typed'
    BY <1>0, <1>2, <1>4, <2>1, <2>5, Zenon DEF Typed
  <2>7. Others(t)
    BY <1>0, <1>2, <1>4, Zenon DEF Typed, Others
  <2>8. /\ pc'[t] = "found" /\ call'[t] = call[t] /\ ptr'[t] = 1 /\ moved'[t] = moved[t]
    BY <1>0, <1>2, <1>4, <2>1, Zenon DEF Typed
  <2>9. ThreadOK(t)'
    <3>1. Ops(t)'
      BY <1>0, <1>2, <2>8, Zenon DEF ThreadOK, Ops, StreamOps
    <3> QED
      BY <1>0, <1>1, <2>1, <2>5, <2>8, <3>1, Zenon DEF ThreadOK, Holding, Alone
  <2>10. /\ Pointing(d)' = Pointing(d) \cup {t} /\ t \notin Pointing(d)
         /\ \A e \in Dirs \ {d} : Pointing(e)' = Pointing(e)
         /\ \A e \in Dirs : Opening(e)' = Opening(e)
    <3>1. t \notin Pointing(d) /\ \A e \in Dirs : t \notin Pointing(e)
      BY <1>2 DEF Pointing
    <3>2. call[t].op # "open" /\ call'[t].op # "open" /\ call'[t].dir = d
      BY <1>1, <1>2, <2>8
    <3>3. \A e \in Dirs : Opening(e)' = Opening(e)
      BY <2>7, <3>2, SameOpening
    <3>4. \A e \in Dirs \ {d} : Pointing(e)' = Pointing(e)
      BY <2>7, <3>1, <3>2, ChangedUsers, Zenon
    <3>5. Pointing(d)' = Pointing(d) \cup {t}
      BY <2>7, <2>8, <3>2, ChangedUsers
    <3> QED
      BY <3>1, <3>3, <3>4, <3>5
  <2>11. Cardinality(Pointing(d)') = n
    <3>1. n = Cardinality(Pointing(d)) + 1
      BY <2>2 DEF n
    <3>2. Cardinality(Pointing(d) \cup {t}) = Cardinality(Pointing(d)) + 1
      BY <2>10, PointingFinite, FS_AddElement, Zenon
    <3> QED
      BY <2>10, <3>1, <3>2
  <2>12. TableOK(d)'
    BY <1>2, <2>2, <2>5, <2>10, <2>11, Zenon DEF TableOK
  <2>13. ASSUME NEW u \in Threads, call[u].dir = d
         PROVE  pc[u] \notin Holding
    BY <1>0, <1>2, <2>13, AudioAssumption, Zenon DEF ThreadOK
  <2>14. {"device", "hal"} \subseteq Holding /\ Alone \subseteq Holding
    BY DEF Holding, Alone
  <2>15. Spares(t, d)
    BY <2>5, <2>13, <2>14, Zenon DEF Spares
  <2>16. Releases(t) /\ OnlyTable(d)
    BY <1>2, <2>5, <2>10, Zenon DEF Releases, OnlyTable
  <2> QED
    BY <2>6, <2>7, <2>9, <2>12, <2>15, <2>16, TableStep, Zenon
<1> QED
  BY <1>1, <1>3, <1>4, Zenon DEF Lookup

\* The HAL's stream is read through the pointer.
LEMMA BeginIoNext ==
  ASSUME LockInv, NEW t \in Threads, BeginIo(t)
  PROVE  LockInv' /\ Others(t)
<1>0. Typed /\ (\A u \in Threads : ThreadOK(u)) /\ (\A d \in Dirs : TableOK(d))
  BY DEF LockInv
<1>1. PICK d \in Dirs : d = call[t].dir
  BY <1>0, Zenon DEF Typed
<1>2. /\ pc[t] = "found" /\ pc' = [pc EXCEPT ![t] = "io"]
      /\ UNCHANGED <<call, table, mutex, in_use, ptr, moved, opened>>
  BY Zenon DEF BeginIo, Goto
<1>3. /\ ~moved[t] /\ ptr[t] = 1 /\ table[d] # <<>> /\ table[d][1].h = call[t].h
      /\ call[t].op = "io" /\ call[t].h \in Handles
  BY <1>0, <1>1, <1>2, Zenon DEF ThreadOK, Ops, Linking, StreamOps
<1>4. using' = [using EXCEPT ![t] = call[t].h]
  BY <1>1, <1>3, Zenon DEF BeginIo
<1>5. Typed'
  BY <1>0, <1>2, <1>3, <1>4, Zenon DEF Typed
<1>6. Others(t)
  BY <1>0, <1>2, <1>4, Zenon DEF Typed, Others
<1>7. /\ pc'[t] = "io" /\ call'[t] = call[t] /\ ptr'[t] = 1 /\ ~moved'[t] /\ using'[t] = call[t].h
  BY <1>0, <1>2, <1>3, <1>4, Zenon DEF Typed
<1>8. ThreadOK(t)'
  <2>1. Ops(t)'
    BY <1>3, <1>7 DEF Ops, StreamOps
  <2> QED
    BY <1>1, <1>2, <1>3, <1>7, <2>1, Zenon DEF ThreadOK, Holding, Alone
<1>9. \A e \in Dirs : Pointing(e)' = Pointing(e) /\ Opening(e)' = Opening(e)
  <2>1. t \in Pointing(d) /\ \A e \in Dirs \ {d} : t \notin Pointing(e)
    BY <1>1, <1>2, Zenon DEF Pointing
  <2>2. call[t].op # "open" /\ call'[t].op # "open" /\ call'[t].dir = d
    BY <1>1, <1>3, <1>7
  <2>3. \A e \in Dirs : Opening(e)' = Opening(e)
    BY <1>6, <2>2, SameOpening
  <2>4. \A e \in Dirs \ {d} : Pointing(e)' = Pointing(e)
    BY <1>6, <2>1, <2>2, ChangedUsers, Zenon
  <2>5. Pointing(d)' = Pointing(d)
    BY <1>6, <1>7, <2>1, <2>2, ChangedUsers
  <2> QED
    BY <2>3, <2>4, <2>5
<1>10. TableOK(d)'
  BY <1>0, <1>2, <1>9, SameTable, Zenon
<1>11. Spares(t, d)
  BY <1>0, <1>2, <1>3, <1>9, Zenon DEF ThreadOK, Spares
<1>12. Releases(t) /\ OnlyTable(d)
  BY <1>2, <1>9, Zenon DEF Releases, OnlyTable
<1> QED
  BY <1>5, <1>6, <1>8, <1>10, <1>11, <1>12, TableStep, Zenon

\* The HAL returns from a read or a write.
LEMMA EndIoNext ==
  ASSUME LockInv, NEW t \in Threads, EndIo(t)
  PROVE  LockInv' /\ Others(t)
<1>0. Typed /\ (\A u \in Threads : ThreadOK(u)) /\ (\A d \in Dirs : TableOK(d))
  BY DEF LockInv
<1>1. PICK d \in Dirs : d = call[t].dir
  BY <1>0, Zenon DEF Typed
<1>2. /\ pc[t] = "io"
      /\ pc' = [u \in Threads |-> IF u = t THEN "idle"
                                  ELSE IF u \in Sleepers(d) THEN "check" ELSE pc[u]]
      /\ call' = [call EXCEPT ![t] = NoCall] /\ using' = [using EXCEPT ![t] = NoStream]
      /\ ptr' = [ptr EXCEPT ![t] = 0] /\ moved' = [moved EXCEPT ![t] = FALSE]
      /\ UNCHANGED <<mutex, in_use, opened>>
  BY <1>1 DEF EndIo
<1>3. /\ ~moved[t] /\ ptr[t] = 1 /\ table[d] # <<>> /\ call[t].op = "io"
  BY <1>0, <1>1, <1>2, Zenon DEF ThreadOK, Ops, Linking
<1>4. t \in Pointing(d) /\ \A e \in Dirs : t \notin Opening(e) /\ (e # d => t \notin Pointing(e))
  BY <1>1, <1>2, <1>3 DEF Pointing, Opening
<1>5. table[d][1].busy = Cardinality(Pointing(d)) /\ table[d][1].h \in opened[d] /\ Opening(d) = {}
  BY <1>0, <1>3 DEF TableOK
<1> DEFINE n == table[d][1].busy - 1
<1>6. table' = [table EXCEPT ![d][1].busy = n]
  BY <1>1, <1>3, Zenon DEF EndIo, Decremented
<1>8. n = Cardinality(Pointing(d)) - 1
  BY <1>5
<1> HIDE DEF n
<1>7. n \in Nat
  <2>1. Cardinality(Pointing(d)) \in Nat /\ Cardinality(Pointing(d)) # 0
    BY <1>4, PointingFinite, Zenon
  <2> QED
    BY <1>8, <2>1
<1>9. /\ table' \in [Dirs -> Seq([h : Handles, busy : Nat])]
      /\ table'[d] # <<>> /\ Len(table'[d]) <= 1
      /\ table'[d][1].h = table[d][1].h /\ table'[d][1].busy = n
      /\ \A e \in Dirs \ {d} : table'[e] = table[e]
  BY <1>0, <1>3, <1>6, <1>7, Counted, Zenon
<1>10. Typed'
  <2>1. NoCall \in [op : StreamOps \cup HalOps \cup {"open", "none"}, dir : Dirs,
                   h : Handles \cup {NoStream}]
    BY DEF NoCall, Dirs
  <2> QED
    BY <1>0, <1>2, <1>9, <2>1, Zenon DEF Typed
<1>11. Others(t)
  BY <1>0, <1>2, Zenon DEF Typed, Others, Sleepers
<1>12. pc'[t] = "idle" /\ call'[t].op = "none" /\ ~moved'[t]
  BY <1>0, <1>2, Zenon DEF Typed, NoCall
<1>13. ThreadOK(t)'
  BY <1>12, Zenon DEF ThreadOK, Ops, Holding, Linking, Alone, StreamOps
<1>14. /\ Pointing(d)' = Pointing(d) \ {t}
       /\ \A e \in Dirs \ {d} : Pointing(e)' = Pointing(e)
       /\ \A e \in Dirs : Opening(e)' = Opening(e)
  BY <1>4, <1>11, <1>12, ChangedUsers, Zenon
<1>15. Cardinality(Pointing(d)') = n
  BY <1>4, <1>8, <1>14, PointingFinite, FS_RemoveElement, Zenon
<1>16. TableOK(d)'
  BY <1>2, <1>5, <1>9, <1>14, <1>15, Zenon DEF TableOK
<1>17. Spares(t, d)
  BY <1>0, <1>3, <1>4, <1>9, Zenon DEF ThreadOK, Spares
<1>18. Releases(t) /\ OnlyTable(d)
  BY <1>2, <1>9, <1>14, Zenon DEF Releases, OnlyTable
<1> QED
  BY <1>10, <1>11, <1>13, <1>16, <1>17, <1>18, TableStep, Zenon

\* Sequences made element by element: none and one.
LEMMA SmallSequences ==
  ASSUME NEW S
  PROVE  /\ \A f \in [{} -> S] : f = <<>>
         /\ Len(<<>>) <= 1
         /\ \A x \in S : /\ Append(<<>>, x) \in Seq(S) /\ Len(Append(<<>>, x)) <= 1
                         /\ Append(<<>>, x)[1] = x /\ Append(<<>>, x) # <<>>
<1>1. \A f \in [{} -> S] : f = <<>>
  <2>1. \A f \in [1..0 -> S] : f \in Seq(S) /\ Len(f) = 0
    OBVIOUS
  <2>2. 1..0 = {}
    OBVIOUS
  <2> QED
    BY <2>1, <2>2, LenFacts
<1>2. ASSUME NEW x \in S
      PROVE  /\ Append(<<>>, x) \in Seq(S) /\ Len(Append(<<>>, x)) = 1
             /\ Append(<<>>, x)[1] = x
  OBVIOUS
<1>3. ASSUME NEW x \in S
      PROVE  Append(<<>>, x) # <<>>
  <2>1. Len(Append(<<>>, x)) # 0
    BY <1>2
  <2> QED
    BY <2>1
<1>4. Len(<<>>) <= 1
  OBVIOUS
<1> QED
  BY <1>1, <1>2, <1>3, <1>4

\* The thread that holds a table's mutex is alone with it.
LEMMA OnlyHolder ==
  ASSUME NEW t \in Threads, NEW d \in Dirs, mutex[d] = t,
         NEW u \in Threads, u # t, ThreadOK(u), call[u].dir = d
  PROVE  /\ pc[u] \notin Holding /\ pc[u] \notin Alone /\ pc[u] \notin {"device", "hal"}
         /\ pc[u] \in Linking => u \in Pointing(d)
<1>1. pc[u] \notin Holding
  BY Zenon DEF ThreadOK
<1> QED
  BY <1>1, Zenon DEF Holding, Alone, Linking, Pointing

\* The entry of a stream that nobody uses is taken out.
LEMMA UnlinkNext ==
  ASSUME LockInv, NEW t \in Threads, Unlink(t)
  PROVE  LockInv' /\ Others(t)
<1>0. Typed /\ (\A u \in Threads : ThreadOK(u)) /\ (\A d \in Dirs : TableOK(d))
  BY DEF LockInv
<1>1. PICK d \in Dirs : d = call[t].dir
  BY <1>0, Zenon DEF Typed
<1>2. PICK i \in Found(call[t].dir, call[t].h) :
        table' = [table EXCEPT ![call[t].dir] =
                   [j \in 1..Len(@) - 1 |-> IF j < i THEN @[j] ELSE @[j + 1]]]
  BY Zenon DEF Unlink
<1>3. /\ pc[t] = "unlink" /\ pc' = [pc EXCEPT ![t] = "device"]
      /\ moved' = [u \in Threads |-> moved[u] \/ u \in Pointing(d)]
      /\ UNCHANGED <<call, mutex, in_use, ptr, using, opened>>
  BY <1>1, Zenon DEF Unlink, Goto
<1>4. /\ mutex[d] = t /\ Pointing(d) = {} /\ call[t].op = "close" /\ ~moved[t]
      /\ table[d] # <<>> /\ table[d][1].h = call[t].h
  BY <1>0, <1>1, <1>3, Zenon DEF ThreadOK, Ops, Holding, Linking, Alone
<1>5. call[t].h \in opened[d] /\ Opening(d) = {} /\ Len(table[d]) = 1
  BY <1>0, <1>4, FoundFirst, Zenon DEF TableOK
<1>6. table'[d] = <<>> /\ table' \in [Dirs -> Seq([h : Handles, busy : Nat])]
      /\ \A e \in Dirs \ {d} : table'[e] = table[e]
  <2> DEFINE rest == [j \in 1..Len(table[d]) - 1 |-> IF j < i THEN table[d][j] ELSE table[d][j + 1]]
  <2>1. table' = [table EXCEPT ![d] = rest]
    BY <1>1, <1>2
  <2>2. rest = <<>>
    <3>1. 1..Len(table[d]) - 1 = {}
      BY <1>5
    <3>2. rest \in [{} -> {table[d][j + 1] : j \in {}}]
      BY <3>1
    <3> QED
      BY <3>2, SmallSequences, Zenon
  <2> HIDE DEF rest
  <2>3. rest \in Seq([h : Handles, busy : Nat])
    BY <2>2
  <2> QED
    BY <1>0, <2>1, <2>2, <2>3, Zenon DEF Typed
<1>7. moved' = moved
  BY <1>0, <1>3, <1>4, Zenon DEF Typed
<1>8. Typed'
  BY <1>0, <1>3, <1>6, <1>7, Zenon DEF Typed
<1>9. Others(t)
  BY <1>0, <1>3, <1>7, Zenon DEF Typed, Others
<1>10. pc'[t] = "device" /\ call'[t] = call[t] /\ moved'[t] = moved[t]
  BY <1>0, <1>3, <1>7, Zenon DEF Typed
<1>11. ThreadOK(t)'
  <2>1. Ops(t)'
    BY <1>0, <1>3, <1>4, <1>10, Zenon DEF ThreadOK, Ops, StreamOps
  <2> QED
    BY <1>1, <1>3, <1>4, <1>5, <1>6, <1>10, <2>1, Zenon DEF ThreadOK, Linking, Alone
<1>12. \A e \in Dirs : Pointing(e)' = Pointing(e) /\ Opening(e)' = Opening(e)
  <2>1. \A e \in Dirs : t \notin Opening(e) /\ t \notin Pointing(e)
    BY <1>3, <1>4, Zenon DEF Pointing, Opening
  <2> QED
    BY <1>4, <1>9, <1>10, <2>1, ChangedUsers, Zenon
<1>13. TableOK(d)'
  <2>1. Len(table'[d]) <= 1
    BY <1>6
  <2> QED
    BY <1>4, <1>5, <1>6, <1>12, <2>1, Zenon DEF TableOK
<1>14. Spares(t, d)
  BY <1>0, <1>4, OnlyHolder, Zenon DEF Spares
<1>15. Releases(t) /\ OnlyTable(d)
  BY <1>3, <1>6, <1>12, Zenon DEF Releases, OnlyTable
<1> QED
  BY <1>8, <1>9, <1>11, <1>13, <1>14, <1>15, TableStep, Zenon

\* The calls that return with a change to the streams the HAL has open.
LEMMA ReturnTyped ==
  ASSUME Typed, NEW t \in Threads, Unlock(t)
  PROVE  /\ pc' \in [Threads -> {"idle", "lock", "found", "io", "check", "asleep", "function",
                                 "lock in", "unlink", "device", "hal"}]
         /\ call' \in [Threads -> [op : StreamOps \cup HalOps \cup {"open", "none"}, dir : Dirs,
                                   h : Handles \cup {NoStream}]]
         /\ mutex' \in [Dirs -> Threads \cup {NoThread}] /\ in_use' \in Threads \cup {NoThread}
         /\ pc'[t] = "idle" /\ call'[t].op = "none"
         /\ \A u \in Threads \ {t} : pc'[u] = pc[u] /\ call'[u] = call[u]
         /\ \A e \in Dirs : mutex'[e] = mutex[e] \/ mutex[e] = t
<1>1. NoCall \in [op : StreamOps \cup HalOps \cup {"open", "none"}, dir : Dirs,
                  h : Handles \cup {NoStream}]
  BY DEF NoCall, Dirs
<1>2. NoCall.op = "none"
  BY DEF NoCall
<1> QED
  BY <1>1, <1>2, Zenon DEF Typed, Unlock, Done

\* The HAL has closed a stream.
LEMMA EndCloseNext ==
  ASSUME LockInv, NEW t \in Threads, EndClose(t)
  PROVE  LockInv' /\ Others(t)
<1>0. Typed /\ (\A u \in Threads : ThreadOK(u)) /\ (\A d \in Dirs : TableOK(d))
  BY DEF LockInv
<1>1. PICK d \in Dirs : d = call[t].dir
  BY <1>0, Zenon DEF Typed
<1>2. /\ pc[t] = "hal" /\ call[t].op = "close" /\ Unlock(t)
      /\ opened' = [opened EXCEPT ![d] = @ \ {call[t].h}]
      /\ UNCHANGED <<table, ptr, moved, using>>
  BY <1>1, Zenon DEF EndClose
<1>3. mutex[d] = t /\ table[d] = <<>> /\ ~moved[t]
  BY <1>0, <1>1, <1>2, Zenon DEF ThreadOK, Holding
<1>4. Typed'
  <2>1. opened' \in [Dirs -> SUBSET Handles]
    BY <1>0, <1>2, Zenon DEF Typed
  <2> QED
    BY <1>0, <1>2, <2>1, ReturnTyped, Zenon DEF Typed
<1>5. Others(t)
  BY <1>0, <1>2, ReturnTyped, Zenon DEF Others
<1>6. pc'[t] = "idle" /\ call'[t].op = "none" /\ ~moved'[t]
  BY <1>0, <1>2, <1>3, ReturnTyped, Zenon
<1>7. ThreadOK(t)'
  BY <1>6, Zenon DEF ThreadOK, Ops, Holding, Linking, Alone, StreamOps
<1>8. \A e \in Dirs : Pointing(e)' = Pointing(e) /\ Opening(e)' = Opening(e)
  <2>1. \A e \in Dirs : t \notin Opening(e) /\ t \notin Pointing(e)
    BY <1>2, Zenon DEF Pointing, Opening
  <2> QED
    BY <1>5, <1>6, <2>1, ChangedUsers, Zenon
<1>9. TableOK(d)'
  BY <1>0, <1>2, <1>3, <1>8, Zenon DEF TableOK
<1>10. Spares(t, d)
  <2>1. Pointing(d) = {}
    BY <1>0, <1>3, Zenon DEF TableOK
  <2> QED
    BY <1>0, <1>3, <2>1, OnlyHolder, Zenon DEF Spares
<1>11. Releases(t) /\ OnlyTable(d)
  <2>1. Releases(t)
    BY <1>0, <1>2, ReturnTyped, Zenon DEF Releases
  <2>2. \A e \in Dirs \ {d} : opened'[e] = opened[e]
    BY <1>0, <1>2, Zenon DEF Typed
  <2> QED
    BY <1>2, <1>8, <2>1, <2>2, Zenon DEF OnlyTable
<1> QED
  BY <1>4, <1>5, <1>7, <1>9, <1>10, <1>11, TableStep, Zenon

\* The HAL has opened a stream, or refused to, and its entry is added.
LEMMA EndOpenNext ==
  ASSUME LockInv, NEW t \in Threads, EndOpen(t)
  PROVE  LockInv' /\ Others(t)
<1>0. Typed /\ (\A u \in Threads : ThreadOK(u)) /\ (\A d \in Dirs : TableOK(d))
  BY DEF LockInv
<1>1. PICK d \in Dirs : d = call[t].dir
  BY <1>0, Zenon DEF Typed
<1>2. pc[t] = "hal" /\ call[t].op = "open" /\ Unlock(t) /\ UNCHANGED <<ptr, using>>
  BY Zenon DEF EndOpen
<1>3. mutex[d] = t /\ ~moved[t]
  BY <1>0, <1>1, <1>2, Zenon DEF ThreadOK, Holding
<1>4. t \in Opening(d) /\ Opening(d) = {t} /\ table[d] = <<>> /\ Pointing(d) = {}
  <2>1. t \in Opening(d)
    BY <1>1, <1>2 DEF Opening
  <2> QED
    BY <1>0, <2>1 DEF TableOK
<1>5. CASE UNCHANGED <<table, moved, opened>>
  BY <1>2, <1>5, UnlockNext, Zenon
<1>6. ASSUME NEW h \in Handles \ opened[d], NEW memory \in {"no array", "no stream", "enough"},
             opened' = [opened EXCEPT ![d] = @ \cup {h}],
             table' = IF memory = "enough"
                      THEN [table EXCEPT ![d] = Append(@, [h |-> h, busy |-> 0])]
                      ELSE table,
             \E elsewhere \in BOOLEAN :
               moved' = [u \in Threads |-> \/ moved[u]
                                           \/ elsewhere /\ memory # "no array" /\ u \in Pointing(d)]
      PROVE  LockInv' /\ Others(t)
  <2>1. moved' = moved
    BY <1>0, <1>4, <1>6, Zenon DEF Typed
  <2> DEFINE E == [h : Handles, busy : Nat]
             x == [h |-> h, busy |-> 0]
             one == Append(<<>>, x)
  <2>2. x \in E /\ x.h = h /\ x.busy = 0
    BY Zenon
  <2> HIDE DEF x, E
  <2>3. /\ one \in Seq(E) /\ one # <<>> /\ Len(one) <= 1 /\ one[1] = x
    BY <2>2, SmallSequences, Zenon
  <2>4. /\ table'[d] = <<>> \/ table'[d] = one
        /\ \A e \in Dirs \ {d} : table'[e] = table[e]
        /\ table' \in [Dirs -> Seq(E)]
    <3>1. table' = table \/ table' = [table EXCEPT ![d] = one]
      BY <1>4, <1>6, Zenon DEF x
    <3> HIDE DEF one
    <3> QED
      <4>1. table \in [Dirs -> Seq(E)]
        BY <1>0, Zenon DEF Typed, E
      <4> QED
        BY <1>4, <2>3, <3>1, <4>1, Zenon
  <2> HIDE DEF one
  <2>5. opened' \in [Dirs -> SUBSET Handles] /\ h \in opened'[d]
        /\ \A e \in Dirs \ {d} : opened'[e] = opened[e]
    BY <1>0, <1>6, Zenon DEF Typed
  <2>6. Typed'
    BY <1>0, <1>2, <2>1, <2>4, <2>5, ReturnTyped, Zenon DEF Typed, E
  <2>7. Others(t)
    BY <1>0, <1>2, <2>1, ReturnTyped, Zenon DEF Others
  <2>8. pc'[t] = "idle" /\ call'[t].op = "none" /\ ~moved'[t]
    BY <1>0, <1>2, <1>3, <2>1, ReturnTyped, Zenon
  <2>9. ThreadOK(t)'
    BY <2>8, Zenon DEF ThreadOK, Ops, Holding, Linking, Alone, StreamOps
  <2>10. /\ Opening(d)' = {} /\ \A e \in Dirs : Pointing(e)' = Pointing(e)
         /\ \A e \in Dirs \ {d} : Opening(e)' = Opening(e)
    <3>1. \A e \in Dirs : t \notin Pointing(e) /\ (e # d => t \notin Opening(e))
      BY <1>1, <1>2, Zenon DEF Pointing, Opening
    <3>2. Opening(d)' = Opening(d) \ {t}
      BY <2>7, <2>8, ChangedUsers, Zenon
    <3> QED
      BY <1>4, <2>7, <2>8, <3>1, <3>2, ChangedUsers, Zenon
  <2>11. TableOK(d)'
    <3>1. Pointing(d)' = {} /\ Cardinality(Pointing(d)') = 0
      BY <1>4, <2>10, FS_EmptySet, Zenon
    <3>2. Len(table'[d]) <= 1
      BY <2>3, <2>4, SmallSequences, Zenon
    <3>3. table'[d] # <<>> => table'[d][1].h = h /\ table'[d][1].busy = 0
      <4>1. one[1].h = h /\ one[1].busy = 0
        BY <2>2, <2>3, Zenon
      <4> QED
        BY <2>4, <4>1, Zenon
    <3> QED
      BY <2>5, <2>10, <3>1, <3>2, <3>3, Zenon DEF TableOK
  <2>12. Spares(t, d)
    BY <1>0, <1>3, <1>4, OnlyHolder, Zenon DEF Spares
  <2>13. Releases(t)
    BY <1>0, <1>2, ReturnTyped, Zenon DEF Releases
  <2>14. OnlyTable(d)
    BY <2>4, <2>5, <2>10, Zenon DEF OnlyTable
  <2> QED
    BY <2>6, <2>7, <2>9, <2>11, <2>12, <2>13, <2>14, TableStep, Zenon
<1> DEFINE Opened(e) ==
             \E h \in Handles \ opened[e], memory \in {"no array", "no stream", "enough"} :
               /\ opened' = [opened EXCEPT ![e] = @ \cup {h}]
               /\ table' = IF memory = "enough"
                           THEN [table EXCEPT ![e] = Append(@, [h |-> h, busy |-> 0])]
                           ELSE table
               /\ \E elsewhere \in BOOLEAN :
                    moved' = [u \in Threads |-> \/ moved[u]
                                                \/ elsewhere /\ memory # "no array" /\ u \in Pointing(e)]
<1>7. UNCHANGED <<table, moved, opened>> \/ Opened(call[t].dir)
  BY Zenon DEF EndOpen
<1>8. Opened(d) => LockInv' /\ Others(t)
  BY <1>6, Zenon
<1> HIDE DEF Opened
<1> QED
  BY <1>1, <1>5, <1>7, <1>8

\* The invariant holds at the start.
LEMMA LockInit == Init => LockInv
<1> SUFFICES ASSUME Init PROVE LockInv
  OBVIOUS
<1>1. NoCall \in [op : StreamOps \cup HalOps \cup {"open", "none"}, dir : Dirs,
                  h : Handles \cup {NoStream}] /\ NoCall.op = "none"
  BY DEF NoCall, Dirs
<1>2. \A d \in Dirs : table[d] = <<>>
  BY DEF Init
<1>3. Typed
  <2>1. table \in [Dirs -> Seq([h : Handles, busy : Nat])]
    <3> DEFINE e == <<>>
    <3>1. e \in Seq([h : Handles, busy : Nat])
      OBVIOUS
    <3>2. table = [d \in Dirs |-> e]
      BY DEF Init
    <3> HIDE DEF e
    <3> QED
      BY <3>1, <3>2
  <2>2. moved \in [Threads -> BOOLEAN]
    BY DEF Init
  <2> QED
    BY <1>1, <2>1, <2>2 DEF Init, Typed
<1>4. ASSUME NEW t \in Threads
      PROVE  ThreadOK(t)
  <2>1. pc[t] = "idle" /\ call[t].op = "none" /\ ~moved[t]
    BY <1>1 DEF Init
  <2> QED
    BY <2>1, Zenon DEF ThreadOK, Ops, Holding, Linking, Alone, StreamOps
<1>5. ASSUME NEW d \in Dirs
      PROVE  TableOK(d)
  <2>1. Opening(d) = {} /\ Pointing(d) = {}
    BY <1>1 DEF Init, Opening, Pointing
  <2>2. Len(table[d]) <= 1
    BY <1>2
  <2> QED
    BY <1>2, <2>1, <2>2 DEF TableOK
<1> QED
  BY <1>3, <1>4, <1>5 DEF LockInv

\* Every step of a thread keeps the invariant and leaves the other threads
\* where they are, or wakes them.
LEMMA StepKeeps ==
  ASSUME MaxOpen = 1, LockInv, NEW t \in Threads, Call(t) \/ Step(t)
  PROVE  LockInv' /\ Others(t)
<1>1. CASE Call(t)
  BY <1>1, CallNext
<1>2. CASE Lookup(t)
  BY <1>2, LookupNext
<1>3. CASE BeginIo(t)
  BY <1>3, BeginIoNext
<1>4. CASE EndIo(t)
  BY <1>4, EndIoNext
<1>5. CASE Lock(t)
  BY <1>5, LockNext
<1>6. CASE LockIn(t)
  BY <1>6, LockInNext
<1>7. CASE WaitForFree(t)
  BY <1>7, WaitNext
<1>8. CASE Unlink(t)
  BY <1>8, UnlinkNext
<1>9. CASE LockDevice(t)
  BY <1>9, LockDeviceNext
<1>10. CASE EndClose(t)
  BY <1>10, EndCloseNext
<1>11. CASE EndOpen(t)
  BY <1>11, EndOpenNext
<1>12. CASE EndFunction(t)
  BY <1>12, UnlockNext DEF EndFunction
<1>13. CASE EndHal(t)
  BY <1>13, UnlockNext, Zenon DEF EndHal
<1> QED
  BY <1>1, <1>2, <1>3, <1>4, <1>5, <1>6, <1>7, <1>8, <1>9, <1>10, <1>11, <1>12, <1>13 DEF Step

\* A stuttering step keeps the invariant.
LEMMA LockStutter == LockInv /\ UNCHANGED vars => LockInv'
<1> SUFFICES ASSUME LockInv, UNCHANGED vars PROVE LockInv'
  OBVIOUS
<1>1. UNCHANGED <<pc, call, table, mutex, in_use, ptr, moved, using, opened>>
  BY DEF vars
<1>2. Typed'
  BY <1>1, Zenon DEF LockInv, Typed
<1>3. \A d \in Dirs : Pointing(d)' = Pointing(d) /\ Opening(d)' = Opening(d)
  BY <1>1 DEF Pointing, Opening
<1>4. ASSUME NEW t \in Threads
      PROVE  ThreadOK(t)'
  <2>1. PICK d \in Dirs : d = call[t].dir
    BY Zenon DEF LockInv, Typed
  <2>2. ThreadOK(t)
    BY DEF LockInv
  <2>3. /\ pc[t] \in Linking => table[d] # <<>>
        /\ pc[t] \in Alone => Pointing(d)' = {}
    BY <1>3, <2>1, <2>2, Zenon DEF ThreadOK
  <2> QED
    BY <1>1, <2>1, <2>2, <2>3, OtherThread, Zenon
<1>5. \A d \in Dirs : TableOK(d)'
  BY <1>1, <1>3, Zenon DEF LockInv, TableOK
<1> QED
  BY <1>2, <1>4, <1>5 DEF LockInv

\* Every state of the wrapper satisfies the invariant.
LEMMA LockAlways ==
  ASSUME MaxOpen = 1
  PROVE  Spec => []LockInv
<1>1. LockInv /\ [Next]_vars => LockInv'
  BY StepKeeps, LockStutter DEF Next
<1> QED
  BY <1>1, LockInit, PTL DEF Spec

-----------------------------------------------------------------------------
(* The steps of StreamSharing *)

\* The threads that read or write a stream, and those in another function.
OnIo(s) == {t \in Threads : pc[t] = "io" /\ <<call[t].dir, using[t]>> = s}
OnAlone(s) == {t \in Threads : pc[t] = "function" /\ <<call[t].dir, call[t].h>> = s}

\* The mapped state, stream by stream.
LEMMA Mapped ==
  /\ IoOn = [s \in AllStreams |-> OnIo(s)] /\ IoOn' = [s \in AllStreams |-> OnIo(s)']
  /\ AloneOn = [s \in AllStreams |-> OnAlone(s)] /\ AloneOn' = [s \in AllStreams |-> OnAlone(s)']
BY DEF IoOn, AloneOn, OnIo, OnAlone

\* The mapped state changes only through the thread that takes the step.
LEMMA MappedChange ==
  ASSUME NEW t \in Threads, Others(t), NEW s \in AllStreams
  PROVE  LET io == pc'[t] = "io" /\ <<call'[t].dir, using'[t]>> = s
             fn == pc'[t] = "function" /\ <<call'[t].dir, call'[t].h>> = s
         IN  /\ (io <=> t \in OnIo(s)) => OnIo(s)' = OnIo(s)
             /\ io => OnIo(s)' = OnIo(s) \cup {t}
             /\ ~io => OnIo(s)' = OnIo(s) \ {t}
             /\ (fn <=> t \in OnAlone(s)) => OnAlone(s)' = OnAlone(s)
             /\ fn => OnAlone(s)' = OnAlone(s) \cup {t}
             /\ ~fn => OnAlone(s)' = OnAlone(s) \ {t}
<1>1. ASSUME NEW u \in Threads \ {t}
      PROVE  /\ u \in OnIo(s)' <=> u \in OnIo(s)
             /\ u \in OnAlone(s)' <=> u \in OnAlone(s)
  BY <1>1 DEF Others, OnIo, OnAlone
<1>2. /\ t \in OnIo(s)' <=> pc'[t] = "io" /\ <<call'[t].dir, using'[t]>> = s
      /\ t \in OnAlone(s)' <=> pc'[t] = "function" /\ <<call'[t].dir, call'[t].h>> = s
  BY DEF OnIo, OnAlone
<1>3. /\ OnIo(s) \subseteq Threads /\ OnIo(s)' \subseteq Threads
      /\ OnAlone(s) \subseteq Threads /\ OnAlone(s)' \subseteq Threads
  BY DEF OnIo, OnAlone
<1>4. /\ (t \in OnIo(s)' <=> t \in OnIo(s)) => OnIo(s)' = OnIo(s)
      /\ t \in OnIo(s)' => OnIo(s)' = OnIo(s) \cup {t}
      /\ t \notin OnIo(s)' => OnIo(s)' = OnIo(s) \ {t}
  BY <1>1, <1>3, OneChange
<1>5. /\ (t \in OnAlone(s)' <=> t \in OnAlone(s)) => OnAlone(s)' = OnAlone(s)
      /\ t \in OnAlone(s)' => OnAlone(s)' = OnAlone(s) \cup {t}
      /\ t \notin OnAlone(s)' => OnAlone(s)' = OnAlone(s) \ {t}
  BY <1>1, <1>3, OneChange
<1> QED
  BY <1>2, <1>4, <1>5, Zenon

\* A thread outside the reads, the writes and the other functions changes
\* neither who uses a stream nor who is alone with it.
LEMMA MappedSame ==
  ASSUME NEW t \in Threads, Others(t),
         {pc[t], pc'[t]} \cap {"io", "function"} = {}
  PROVE  IoOn' = IoOn /\ AloneOn' = AloneOn
<1>1. ASSUME NEW s \in AllStreams
      PROVE  OnIo(s)' = OnIo(s) /\ OnAlone(s)' = OnAlone(s)
  <2>1. t \notin OnIo(s) /\ t \notin OnAlone(s)
    BY Zenon DEF OnIo, OnAlone
  <2>2. pc'[t] # "io" /\ pc'[t] # "function"
    BY Zenon
  <2> QED
    BY <2>1, <2>2, MappedChange, Zenon
<1> QED
  BY <1>1, Mapped

\* The users of a stream point into its table, and a thread alone with a
\* stream holds its table's mutex.
LEMMA MappedUsers ==
  ASSUME LockInv, NEW d \in Dirs, NEW h \in Handles, NEW s, s = <<d, h>>
  PROVE  /\ s \in AllStreams /\ (s \in OpenStreams <=> h \in opened[d])
         /\ OnIo(s) \subseteq Pointing(d)
         /\ \A u \in OnAlone(s) : mutex[d] = u /\ Pointing(d) = {} /\ pc[u] = "function"
<1>1. s \in AllStreams /\ s[1] = d /\ s[2] = h
  BY DEF AllStreams
<1>2. s \in OpenStreams <=> h \in opened[d]
  BY <1>1 DEF OpenStreams
<1>3. OnIo(s) \subseteq Pointing(d)
  BY DEF OnIo, Pointing
<1>4. ASSUME NEW u \in OnAlone(s)
      PROVE  mutex[d] = u /\ Pointing(d) = {} /\ pc[u] = "function"
  <2>1. u \in Threads /\ pc[u] = "function" /\ call[u].dir = d
    BY DEF OnAlone
  <2> QED
    BY <2>1, Zenon DEF LockInv, ThreadOK, Holding, Alone
<1> QED
  BY <1>1, <1>2, <1>3, <1>4, Zenon

\* A read or a write reaches the HAL.
LEMMA BeginUses ==
  ASSUME LockInv, NEW t \in Threads, BeginIo(t), Others(t)
  PROVE  \E s \in AllStreams : Sharing!BeginUse(t, s)
<1>0. Typed /\ ThreadOK(t) /\ \A d \in Dirs : TableOK(d)
  BY DEF LockInv
<1>1. PICK d \in Dirs : d = call[t].dir
  BY <1>0, Zenon DEF Typed
<1>2. PICK h \in Handles : h = call[t].h
  BY <1>0, Zenon DEF BeginIo, Goto, ThreadOK, Ops, StreamOps
<1>3. /\ pc[t] = "found" /\ pc'[t] = "io" /\ UNCHANGED <<call, opened>>
  BY <1>0, Zenon DEF BeginIo, Goto, Typed
<1>4. /\ ~moved[t] /\ ptr[t] = 1 /\ table[d] # <<>> /\ table[d][1].h = h
  BY <1>0, <1>1, <1>2, <1>3, Zenon DEF ThreadOK, Linking
<1>5. using'[t] = h
  BY <1>0, <1>1, <1>2, <1>4, Zenon DEF BeginIo, Typed
<1> DEFINE s == <<d, h>>
<1> HIDE DEF s
<1>6. s \in AllStreams /\ s \in OpenStreams
  <2>1. h \in opened[d]
    BY <1>0, <1>4, Zenon DEF TableOK
  <2> QED
    BY <2>1, MappedUsers, Zenon DEF s
<1>7. OnAlone(s) = {}
  <2>1. t \in Pointing(d)
    BY <1>1, <1>3, Zenon DEF Pointing
  <2> QED
    BY <2>1, MappedUsers DEF s
<1>8. ASSUME NEW z \in AllStreams
      PROVE  /\ OnIo(z)' = IF z = s THEN OnIo(s) \cup {t} ELSE OnIo(z)
             /\ OnAlone(z)' = OnAlone(z)
  <2>1. t \notin OnIo(z) /\ t \notin OnAlone(z)
    BY <1>3, Zenon DEF OnIo, OnAlone
  <2>2. (pc'[t] = "io" /\ <<call'[t].dir, using'[t]>> = z) <=> z = s
    BY <1>1, <1>3, <1>5 DEF s
  <2> QED
    BY <1>3, <2>1, <2>2, MappedChange, Zenon
<1>9. IoOn' = [IoOn EXCEPT ![s] = @ \cup {t}] /\ AloneOn' = AloneOn /\ AloneOn[s] = {}
  BY <1>6, <1>7, <1>8, Mapped
<1>10. OpenStreams' = OpenStreams
  BY <1>3 DEF OpenStreams
<1> QED
  BY <1>6, <1>9, <1>10, Zenon DEF Sharing!BeginUse

\* The HAL returns from a read or a write.
LEMMA EndUses ==
  ASSUME LockInv, NEW t \in Threads, EndIo(t), Others(t)
  PROVE  \E s \in AllStreams : Sharing!EndUse(t, s)
<1>0. Typed /\ ThreadOK(t)
  BY DEF LockInv
<1>1. PICK d \in Dirs : d = call[t].dir
  BY <1>0, Zenon DEF Typed
<1>2. pc[t] = "io" /\ pc'[t] = "idle" /\ UNCHANGED opened
  BY <1>0, Zenon DEF EndIo, Typed
<1>3. PICK h \in Handles : h = call[t].h /\ using[t] = h
  BY <1>0, <1>2, Zenon DEF ThreadOK, Ops, StreamOps
<1> DEFINE s == <<d, h>>
<1> HIDE DEF s
<1>4. s \in AllStreams /\ t \in OnIo(s)
  BY <1>1, <1>2, <1>3, MappedUsers, Zenon DEF s, OnIo
<1>5. ASSUME NEW z \in AllStreams
      PROVE  /\ OnIo(z)' = IF z = s THEN OnIo(s) \ {t} ELSE OnIo(z)
             /\ OnAlone(z)' = OnAlone(z)
  <2>1. (t \in OnIo(z) <=> z = s) /\ t \notin OnAlone(z)
    BY <1>1, <1>2, <1>3 DEF OnIo, OnAlone, s
  <2>2. pc'[t] # "io" /\ pc'[t] # "function"
    BY <1>2, Zenon
  <2> QED
    BY <2>1, <2>2, MappedChange, Zenon
<1>6. IoOn' = [IoOn EXCEPT ![s] = @ \ {t}] /\ AloneOn' = AloneOn /\ t \in IoOn[s]
  BY <1>4, <1>5, Mapped
<1>7. OpenStreams' = OpenStreams
  BY <1>2 DEF OpenStreams
<1> QED
  BY <1>4, <1>6, <1>7, Zenon DEF Sharing!EndUse

\* WAIT_FOR_FREE lets a function of the stream run, or the thread goes on.
LEMMA BeginsAlone ==
  ASSUME LockInv, NEW t \in Threads, WaitForFree(t), Others(t)
  PROVE  \/ \E s \in AllStreams : Sharing!BeginAlone(t, s)
         \/ UNCHANGED <<OpenStreams, IoOn, AloneOn>>
<1>0. Typed /\ ThreadOK(t) /\ \A d \in Dirs : TableOK(d)
  BY DEF LockInv
<1>1. PICK d \in Dirs : d = call[t].dir
  BY <1>0, Zenon DEF Typed
<1>2. /\ pc[t] = "check" /\ UNCHANGED <<call, opened>>
      /\ pc'[t] \in {"asleep", "unlink", "function"}
      /\ pc'[t] = "function" => ~Busy(t)
  BY <1>0, Zenon DEF WaitForFree, Typed
<1>3. OpenStreams' = OpenStreams
  BY <1>2 DEF OpenStreams
<1>4. CASE pc'[t] # "function"
  BY <1>2, <1>3, <1>4, MappedSame
<1>5. CASE pc'[t] = "function"
  <2>1. PICK h \in Handles : h = call[t].h
    BY <1>0, <1>2, Zenon DEF ThreadOK, Ops
  <2>2. mutex[d] = t /\ table[d] # <<>> /\ table[d][1].h = h
    BY <1>0, <1>1, <1>2, <2>1, Zenon DEF ThreadOK, Holding, Linking
  <2> DEFINE s == <<d, h>>
  <2> HIDE DEF s
  <2>3. s \in AllStreams /\ s \in OpenStreams
    <3>1. h \in opened[d]
      BY <1>0, <2>2 DEF TableOK
    <3> QED
      BY <3>1, MappedUsers DEF s
  <2>4. OnIo(s) = {} /\ OnAlone(s) = {}
    <3>1. Pointing(d) = {}
      BY <1>0, <1>1, <1>2, <1>5, <2>1, <2>2, NotBusy, Zenon
    <3>2. \A u \in OnAlone(s) : mutex[d] = u /\ pc[u] = "function"
      BY MappedUsers DEF s
    <3>3. OnIo(s) \subseteq Pointing(d)
      BY MappedUsers DEF s
    <3> QED
      BY <1>2, <2>2, <3>1, <3>2, <3>3, Zenon
  <2>5. ASSUME NEW z \in AllStreams
        PROVE  /\ OnIo(z)' = OnIo(z)
               /\ OnAlone(z)' = IF z = s THEN {t} ELSE OnAlone(z)
    <3>1. t \notin OnIo(z) /\ t \notin OnAlone(z) /\ pc'[t] # "io"
      BY <1>2, <1>5, Zenon DEF OnIo, OnAlone
    <3>2. (pc'[t] = "function" /\ <<call'[t].dir, call'[t].h>> = z) <=> z = s
      BY <1>1, <1>2, <1>5, <2>1, Zenon DEF s
    <3> QED
      BY <2>4, <3>1, <3>2, MappedChange, Zenon
  <2>6. /\ AloneOn' = [AloneOn EXCEPT ![s] = {t}] /\ IoOn' = IoOn
        /\ IoOn[s] = {} /\ AloneOn[s] = {}
    BY <2>3, <2>4, <2>5, Mapped
  <2>7. Sharing!BeginAlone(t, s)
    BY <1>3, <2>3, <2>6 DEF Sharing!BeginAlone, Sharing!Unused
  <2> QED
    BY <2>3, <2>7
<1> QED
  BY <1>4, <1>5

\* A function of the stream returns.
LEMMA EndsAlone ==
  ASSUME LockInv, NEW t \in Threads, EndFunction(t), Others(t)
  PROVE  \E s \in AllStreams : Sharing!EndAlone(t, s)
<1>0. Typed /\ ThreadOK(t)
  BY DEF LockInv
<1>1. PICK d \in Dirs : d = call[t].dir
  BY <1>0, Zenon DEF Typed
<1>2. pc[t] = "function" /\ Unlock(t) /\ UNCHANGED opened
  BY DEF EndFunction
<1>3. pc'[t] = "idle"
  BY <1>0, <1>2, Zenon DEF Unlock, Done, Typed
<1>4. PICK h \in Handles : h = call[t].h
  BY <1>0, <1>2, Zenon DEF ThreadOK, Ops, StreamOps
<1>5. mutex[d] = t
  BY <1>0, <1>1, <1>2, Zenon DEF ThreadOK, Holding
<1> DEFINE s == <<d, h>>
<1> HIDE DEF s
<1>6. s \in AllStreams /\ OnAlone(s) = {t}
  <2>1. s \in AllStreams /\ \A u \in OnAlone(s) : mutex[d] = u
    BY MappedUsers, Zenon DEF s
  <2>2. t \in OnAlone(s)
    BY <1>1, <1>2, <1>4 DEF OnAlone, s
  <2> QED
    BY <1>5, <2>1, <2>2
<1>7. ASSUME NEW z \in AllStreams
      PROVE  /\ OnIo(z)' = OnIo(z)
             /\ OnAlone(z)' = IF z = s THEN {} ELSE OnAlone(z)
  <2>1. t \notin OnIo(z) /\ (t \in OnAlone(z) <=> z = s)
    BY <1>1, <1>2, <1>4, Zenon DEF OnIo, OnAlone, s
  <2>2. pc'[t] # "io" /\ pc'[t] # "function"
    BY <1>3
  <2>3. OnIo(z)' = OnIo(z) /\ OnAlone(z)' = OnAlone(z) \ {t}
    BY <2>1, <2>2, MappedChange, Zenon
  <2>4. z # s => OnAlone(z)' = OnAlone(z)
    BY <2>1, <2>2, MappedChange, Zenon
  <2> QED
    BY <1>6, <2>3, <2>4
<1>8. AloneOn' = [AloneOn EXCEPT ![s] = {}] /\ IoOn' = IoOn /\ AloneOn[s] = {t}
  BY <1>6, <1>7, Mapped
<1>9. OpenStreams' = OpenStreams
  BY <1>2 DEF OpenStreams
<1> QED
  BY <1>6, <1>8, <1>9, Zenon DEF Sharing!EndAlone

\* The HAL closes a stream.
LEMMA Closes ==
  ASSUME LockInv, NEW t \in Threads, EndClose(t), Others(t)
  PROVE  \E s \in AllStreams : Sharing!Close(s)
<1>0. Typed /\ ThreadOK(t) /\ \A d \in Dirs : TableOK(d)
  BY DEF LockInv
<1>1. PICK d \in Dirs : d = call[t].dir
  BY <1>0, Zenon DEF Typed
<1>2. /\ pc[t] = "hal" /\ call[t].op = "close" /\ Unlock(t)
      /\ opened' = [opened EXCEPT ![d] = @ \ {call[t].h}]
  BY <1>1 DEF EndClose
<1>3. pc'[t] = "idle"
  BY <1>0, <1>2, Zenon DEF Unlock, Done, Typed
<1>4. PICK h \in Handles : h = call[t].h
  BY <1>0, <1>2, Zenon DEF ThreadOK, Ops, StreamOps
<1>5. mutex[d] = t /\ table[d] = <<>> /\ h \in opened[d]
  BY <1>0, <1>1, <1>2, <1>4, Zenon DEF ThreadOK, Holding
<1> DEFINE s == <<d, h>>
<1> HIDE DEF s
<1>6. s \in AllStreams /\ s \in OpenStreams
  BY <1>5, MappedUsers, Zenon DEF s
<1>7. OnIo(s) = {} /\ OnAlone(s) = {}
  <2>1. Pointing(d) = {}
    BY <1>0, <1>5, Zenon DEF TableOK
  <2>2. s = <<d, h>>
    BY DEF s
  <2>3. OnIo(s) \subseteq Pointing(d) /\ \A u \in OnAlone(s) : mutex[d] = u /\ pc[u] = "function"
    BY <2>2, MappedUsers
  <2> QED
    BY <1>2, <1>5, <2>1, <2>3, Zenon
<1>8. OpenStreams' = OpenStreams \ {s}
  <2>1. \A z \in AllStreams : z = <<z[1], z[2]>> /\ z[1] \in Dirs /\ z[2] \in Handles
    BY DEF AllStreams
  <2>2. \A e \in Dirs, g \in Handles : g \in opened'[e] <=> g \in opened[e] /\ ~(e = d /\ g = h)
    BY <1>0, <1>2, <1>4, Zenon DEF Typed
  <2>3. \A z \in AllStreams : z = s <=> z[1] = d /\ z[2] = h
    BY <2>1 DEF s
  <2> QED
    BY <2>1, <2>2, <2>3 DEF OpenStreams
<1>9. IoOn' = IoOn /\ AloneOn' = AloneOn
  BY <1>2, <1>3, MappedSame
<1>10. IoOn[s] = {} /\ AloneOn[s] = {}
  BY <1>6, <1>7, Mapped
<1> QED
  BY <1>6, <1>8, <1>9, <1>10, Zenon DEF Sharing!Close, Sharing!Unused

\* The HAL opens a stream, or refuses to.
LEMMA Opens ==
  ASSUME LockInv, NEW t \in Threads, EndOpen(t), Others(t)
  PROVE  \/ \E s \in AllStreams : Sharing!Open(s)
         \/ UNCHANGED <<OpenStreams, IoOn, AloneOn>>
<1>0. Typed
  BY DEF LockInv
<1>1. PICK d \in Dirs : d = call[t].dir
  BY <1>0, Zenon DEF Typed
<1>2. pc[t] = "hal" /\ pc'[t] = "idle"
  BY <1>0, Zenon DEF EndOpen, Unlock, Done, Typed
<1>3. IoOn' = IoOn /\ AloneOn' = AloneOn
  BY <1>2, MappedSame
<1>4. opened' = opened \/ \E h \in Handles \ opened[d] : opened' = [opened EXCEPT ![d] = @ \cup {h}]
  BY <1>1, Zenon DEF EndOpen
<1>5. CASE opened' = opened
  BY <1>3, <1>5 DEF OpenStreams
<1>6. ASSUME NEW h \in Handles \ opened[d], opened' = [opened EXCEPT ![d] = @ \cup {h}]
      PROVE  \E s \in AllStreams : Sharing!Open(s)
  <2> DEFINE s == <<d, h>>
  <2> HIDE DEF s
  <2>1. s \in AllStreams /\ s \notin OpenStreams
    BY <1>6, MappedUsers, Zenon DEF s
  <2>2. OpenStreams' = OpenStreams \cup {s}
    <3>1. \A z \in AllStreams : z = <<z[1], z[2]>> /\ z[1] \in Dirs /\ z[2] \in Handles
      BY DEF AllStreams
    <3>2. \A e \in Dirs, g \in Handles : g \in opened'[e] <=> g \in opened[e] \/ (e = d /\ g = h)
      BY <1>0, <1>6, Zenon DEF Typed
    <3>3. \A z \in AllStreams : z = s <=> z[1] = d /\ z[2] = h
      BY <3>1 DEF s
    <3> QED
      BY <2>1, <3>1, <3>2, <3>3 DEF OpenStreams
  <2> QED
    BY <1>3, <2>1, <2>2 DEF Sharing!Open
<1> QED
  BY <1>4, <1>5, <1>6

\* Every other step keeps who uses a stream and which streams are open.
LEMMA Unseen ==
  ASSUME LockInv, NEW t \in Threads, Others(t),
         \/ Call(t) \/ Lookup(t) \/ Lock(t) \/ LockIn(t) \/ Unlink(t) \/ LockDevice(t) \/ EndHal(t)
  PROVE  UNCHANGED <<OpenStreams, IoOn, AloneOn>>
<1>0. Typed /\ ThreadOK(t)
  BY DEF LockInv
<1>1. {pc[t], pc'[t]} \cap {"io", "function"} = {} /\ UNCHANGED opened
  <2>1. CASE Call(t)
    BY <1>0, <2>1, Zenon DEF Call, Goto, Typed
  <2>2. CASE Lookup(t)
    BY <1>0, <2>2, Zenon DEF Lookup, Done, Typed
  <2>3. CASE Lock(t)
    <3>1. pc[t] = "lock" /\ UNCHANGED opened
      BY <2>3, Zenon DEF Lock
    <3>2. call[t].op \in StreamOps \cup HalOps \cup {"open"}
      BY <1>0, <3>1, Zenon DEF Typed, ThreadOK, Ops
    <3>3. \E to \in {"idle", "check", "lock in", "device"} : pc' = [pc EXCEPT ![t] = to]
      BY <2>3, <3>2, Zenon DEF Lock, Done
    <3> QED
      BY <1>0, <3>1, <3>3, Zenon DEF Typed
  <2>4. CASE LockIn(t)
    BY <1>0, <2>4, Zenon DEF LockIn, Goto, Typed
  <2>5. CASE Unlink(t)
    BY <1>0, <2>5, Zenon DEF Unlink, Goto, Typed
  <2>6. CASE LockDevice(t)
    BY <1>0, <2>6, Zenon DEF LockDevice, Goto, Typed
  <2>7. CASE EndHal(t)
    BY <1>0, <2>7, Zenon DEF EndHal, Unlock, Done, Typed
  <2> QED
    BY <2>1, <2>2, <2>3, <2>4, <2>5, <2>6, <2>7, Zenon
<1>2. OpenStreams' = OpenStreams
  BY <1>1, Zenon DEF OpenStreams
<1> QED
  BY <1>1, <1>2, MappedSame, Zenon

-----------------------------------------------------------------------------
(* The results *)

\* A microphone muted with wrapper_set_mic_mute() in a call stays muted
\* through every set_parameters of the HAL, while the mixer works.
THEOREM AudioMuteHolds == Spec => []MuteHolds
<1>1. MuteInv => MuteHolds
  BY DEF MuteInv, MuteHolds, Saved, Consistent, Wish
<1> QED
  BY <1>1, MuteAlways, PTL

\* wrapper_set_mode() leaves no muting behind when the call ends.
THEOREM AudioMuteEndsWithCall == Spec => []MuteEndsWithCall
<1>1. MuteInv => MuteEndsWithCall
  BY DEF MuteInv, MuteEndsWithCall, Saved, Consistent
<1> QED
  BY <1>1, MuteAlways, PTL

\* With one stream open in each direction, which is what audio_policy.conf
\* asks for, the tables and their in_use counters stay within their types: no
\* DECREMENT_IN_USE goes below zero.
THEOREM AudioTyped ==
  ASSUME MaxOpen = 1
  PROVE  Spec => []TypeOK
<1>1. LockInv /\ MuteInv => TypeOK
  BY Zenon DEF LockInv, Typed, MuteInv, MicState, TypeOK
<1> QED
  BY <1>1, LockAlways, MuteAlways, PTL

\* With one stream open in each direction, the pointer wrapper_read() and
\* wrapper_write() keep across the unlock still leads to their own stream when
\* they use it.
THEOREM AudioOwnStream ==
  ASSUME MaxOpen = 1
  PROVE  Spec => []OwnStream
<1>1. LockInv => OwnStream
  <2> SUFFICES ASSUME LockInv, NEW t \in Threads, pc[t] \in {"found", "io"}
               PROVE  /\ ~moved[t] /\ ptr[t] \in Found(call[t].dir, call[t].h)
                      /\ pc[t] = "io" => using[t] = call[t].h
    BY Zenon DEF OwnStream
  <2>1. PICK d \in Dirs : d = call[t].dir
    BY Zenon DEF LockInv, Typed
  <2>2. /\ ~moved[t] /\ ptr[t] = 1 /\ table[d] # <<>> /\ table[d][1].h = call[t].h
        /\ pc[t] = "io" => using[t] = call[t].h
    BY <2>1, Zenon DEF LockInv, ThreadOK, Linking
  <2>3. Found(d, call[t].h) # {} /\ \A i \in Found(d, call[t].h) : i = 1
    BY <2>2, FoundFirst, Zenon DEF LockInv
  <2> QED
    BY <2>1, <2>2, <2>3, Zenon
<1> QED
  BY <1>1, LockAlways, PTL

\* With one stream open in each direction, the wrapper's tables, counters and
\* locks give the HAL's streams what StreamSharing promises: they are read and
\* written only while open, run any other function alone, and are closed unused.
THEOREM AudioImplementsSharing ==
  ASSUME MaxOpen = 1
  PROVE  Spec => ImplementsSharing
<1>1. Init => Sharing!Init
  <2> SUFFICES ASSUME Init PROVE Sharing!Init
    OBVIOUS
  <2>1. OpenStreams = {}
    BY Zenon DEF Init, OpenStreams, AllStreams
  <2>2. \A s \in AllStreams : OnIo(s) = {} /\ OnAlone(s) = {}
    BY Zenon DEF Init, OnIo, OnAlone
  <2> QED
    BY <2>1, <2>2, Mapped DEF Sharing!Init
<1>2. LockInv /\ [Next]_vars => [Sharing!Next]_Sharing!sharingVars
  <2> SUFFICES ASSUME LockInv, [Next]_vars PROVE [Sharing!Next]_Sharing!sharingVars
    OBVIOUS
  <2>1. CASE UNCHANGED vars
    BY <2>1, Zenon DEF vars, Sharing!sharingVars, OpenStreams, IoOn, AloneOn
  <2>2. ASSUME NEW t \in Threads, Call(t) \/ Step(t)
        PROVE  [Sharing!Next]_Sharing!sharingVars
    <3>1. Others(t)
      BY <2>2, StepKeeps
    <3>2. CASE BeginIo(t)
      BY <3>1, <3>2, BeginUses DEF Sharing!Next
    <3>3. CASE EndIo(t)
      BY <3>1, <3>3, EndUses DEF Sharing!Next
    <3>4. CASE WaitForFree(t)
      BY <3>1, <3>4, BeginsAlone DEF Sharing!Next, Sharing!sharingVars
    <3>5. CASE EndFunction(t)
      BY <3>1, <3>5, EndsAlone DEF Sharing!Next
    <3>6. CASE EndClose(t)
      BY <3>1, <3>6, Closes DEF Sharing!Next
    <3>7. CASE EndOpen(t)
      BY <3>1, <3>7, Opens DEF Sharing!Next, Sharing!sharingVars
    <3>8. CASE Call(t) \/ Lookup(t) \/ Lock(t) \/ LockIn(t) \/ Unlink(t) \/ LockDevice(t) \/ EndHal(t)
      BY <3>1, <3>8, Unseen DEF Sharing!sharingVars
    <3> QED
      BY <2>2, <3>2, <3>3, <3>4, <3>5, <3>6, <3>7, <3>8, Zenon DEF Step
  <2> QED
    BY <2>1, <2>2 DEF Next
<1> QED
  BY <1>1, <1>2, LockAlways, PTL DEF Spec, ImplementsSharing, Sharing!Spec
=============================================================================
