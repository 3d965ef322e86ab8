------------------------------- MODULE Aplogd -------------------------------
(***************************************************************************)
(* aplogd: the loop of log_io.c that buffers what the log devices deliver, *)
(* writes it to files on the best storage there is, and follows vold's     *)
(* announcements of the cards that come and go.                            *)
(*                                                                         *)
(* A log entry is a number, one byte long, and every input numbers its own *)
(* entries.  The functions that write files end in one of several ways, so *)
(* they map the state of the daemon and its disks to a set of states.      *)
(***************************************************************************)
EXTENDS Integers, Sequences, FiniteSetsExt

CONSTANTS
  Inputs,       \* the collected inputs, in the order of their poll indexes
  Kernel,       \* the one that is not an Android log
  BufSize,      \* aplogd_ram_buff_size
  Buffering,    \* aplogd_output_buffering
  LogfileMax,   \* aplogd_get_filesize, for each storage
  MaxEntries,   \* bound: entries of all inputs
  MaxEvents     \* bound: card changes, signals, vold restarts and failed calls

Cards == {"EXTERNAL", "SECONDARY"}
Storages == Cards \cup {"USERDATA"}
Streams == Range(Inputs)

ASSUME AplogdAssumption ==
  /\ Inputs \in Seq(Streams)
  /\ BufSize \in Nat \ {0, 1} /\ Buffering \in 1..BufSize - 1
  /\ LogfileMax \in [Storages -> Nat \ {0}]
  /\ {MaxEntries, MaxEvents} \subseteq Nat

VARIABLES
  pc,              \* "boot", "input" (the outputs are set up) or "loop"
  cfg,             \* usr_cfg_ext and usr_cfg_seq
  d,               \* the globals of the daemon, and the disks
  vold,            \* the vold socket: "none", "polled" or "closed" (but input_fd >= 0)
  config_changed,
  mounted,         \* the cards that can be written
  leaving,         \* the ones vold is unmounting
  unannounced,     \* mounts and removals vold has yet to announce
  msgs,            \* announcements in the socket
  logged,          \* logged[i]: entries the input has delivered
  events,          \* card changes, signals and vold restarts so far
  missed           \* history: an announcement did not reach the handler

env == <<mounted, leaving, unannounced>>
vars == <<pc, cfg, d, vold, config_changed, env, msgs, logged, events, missed>>

Closed == [at |-> "none", live |-> FALSE]
Writable == mounted \cup {"USERDATA"}

MoreFaults(x) == events + x.faults < MaxEvents
MoreEvents == MoreFaults(d)

\* Op run after the functions that led to the states S.
Then(S, Op(_)) == UNION {Op(x) : x \in S}

Init ==
  /\ pc = "boot"
  /\ cfg \in {c \in [ext : BOOLEAN, seq : BOOLEAN] : c.seq => c.ext}
  /\ \E dirs \in SUBSET Cards :
       d = [cur       |-> "USERDATA",                       \* g_current_storage
            out       |-> [i \in Streams |-> Closed],       \* output_fd
            buf       |-> [i \in Streams |-> <<>>],         \* input_buf_base up to input_buf
            unwritten |-> 0, timer |-> FALSE, total |-> 0,
            max       |-> "USERDATA",                       \* whose limit aplogd_logfile_max is
            saved     |-> {},                               \* backup_flag
            ret       |-> 0,
            dirs      |-> dirs,                             \* the log directories
            there     |-> [s \in Storages |-> {}],          \* the log files that exist
            file      |-> [s \in Storages |-> [i \in Streams |-> <<>>]],
            archive   |-> [i \in Streams |-> {}],           \* compressed entries
            lost      |-> [i \in Streams |-> {}],           \* dropped by the daemon
            kept      |-> {},        \* history: buffers whose last write failed
            harm      |-> FALSE,     \* history: a file was damaged
            stray     |-> FALSE,     \* history: config_load renamed the current storage
            late      |-> FALSE,     \* history: opened files on a card being unmounted
            faults    |-> 0]
  /\ vold = "none" /\ config_changed = FALSE
  /\ mounted \in SUBSET Cards /\ leaving = {} /\ unannounced = <<>> /\ msgs = <<>>
  /\ logged = [i \in Streams |-> 0]
  /\ events = 0 /\ missed = FALSE

-----------------------------------------------------------------------------
(* The outputs *)

aplogd_close_output(x) == [x EXCEPT !.out = [i \in Streams |-> Closed]]

\* open() may fail on a card, for some of the files.
OpenFailures(x, s) == IF MoreFaults(x) /\ s \in Cards THEN SUBSET Streams ELSE {{}}

\* Opens with O_TRUNC instead of O_APPEND.
OutputSetupTruncates(x, s) ==
  IF s \notin Writable
  THEN {[x EXCEPT !.ret = -1]}
  ELSE {[x EXCEPT !.dirs = @ \cup {s},
                  !.there[s] = Streams,
                  !.file[s] = [i \in Streams |-> <<>>],
                  !.out = [i \in Streams |-> [at |-> s, live |-> TRUE]],
                  !.ret = 0,
                  !.late = @ \/ s \in leaving]}

aplogd_output_setup(x, s) ==
  IF s \notin Writable
  THEN {[x EXCEPT !.ret = -1]}
  ELSE {[x EXCEPT !.dirs = @ \cup {s},
                  !.there[s] = @ \cup (Streams \ bad),
                  !.out = [i \in Streams |-> IF i \in bad THEN Closed ELSE [at |-> s, live |-> TRUE]],
                  !.ret = IF bad = {} THEN 0 ELSE -1,
                  !.late = @ \/ s \in leaving,
                  !.faults = IF bad = {} THEN @ ELSE @ + 1] : bad \in OpenFailures(x, s)}

\* Falls back to the old storage and still reports the new one.
SwitchStorageNoReturn(x, old, new) ==
  Then(aplogd_output_setup([aplogd_close_output(x) EXCEPT !.max = new], new),
       LAMBDA y : IF y.ret < 0
                  THEN {[z EXCEPT !.cur = new, !.ret = 0] : z \in aplogd_output_setup(y, old)}
                  ELSE {[y EXCEPT !.cur = new, !.stray = FALSE]})

\* Every caller stores the result in g_current_storage.
switch_storage(x, old, new) ==
  Then(aplogd_output_setup([aplogd_close_output(x) EXCEPT !.max = new], new),
       LAMBDA y : IF y.ret < 0
                  THEN {[z EXCEPT !.cur = old, !.ret = 0] : z \in aplogd_output_setup(y, old)}
                  ELSE {[y EXCEPT !.cur = new, !.stray = FALSE]})

aplogd_calc_storage_pref == IF cfg.ext THEN "SECONDARY" ELSE "USERDATA"

\* The files of storage s are compressed away, from under an open output too.
Archived(x, s) ==
  [x EXCEPT !.archive = [i \in Streams |-> @[i] \cup Range(x.file[s][i])],
            !.file[s] = [i \in Streams |-> <<>>],
            !.there[s] = {},
            !.out = [i \in Streams |->
                       [at |-> x.out[i].at, live |-> x.out[i].live /\ x.out[i].at # s]]]

\* Once for each card; the files on USERDATA are only saved when the daemon starts.
aplogd_log_save(x, s) ==
  IF s \in x.saved \/ s \notin Writable \cap x.dirs
  THEN x
  ELSE [Archived(x, s) EXCEPT !.saved = @ \cup {s}]

\* A file moved onto itself grows until the card is full, and is then unlinked.
\* A failed write() is not noticed and the source is unlinked all the same.
aplogd_move_logs(x, old, new) ==
  LET movable == IF {old, new} \subseteq Writable /\ new \in x.dirs THEN x.there[old] ELSE {}
      written(ok) ==
        [x EXCEPT !.file = [s \in Storages |-> [i \in Streams |->
                              IF i \notin movable THEN @[s][i]
                              ELSE IF s = old THEN <<>>
                              ELSE IF s = new /\ ok THEN @[s][i] \o x.file[old][i]
                              ELSE @[s][i]]],
                  !.there = [s \in Storages |->
                               IF s = old THEN @[s] \ movable
                               ELSE IF s = new THEN @[s] \cup movable ELSE @[s]],
                  !.out = [i \in Streams |->
                             [at   |-> x.out[i].at,
                              live |-> x.out[i].live /\ ~(x.out[i].at = old /\ i \in movable)]],
                  !.harm = @ \/ ~ok,
                  !.faults = IF ok \/ old = new THEN @ ELSE @ + 1]
      hasData == \E i \in movable : x.file[old][i] # <<>>
  IN  IF ~hasData THEN {written(TRUE)}
      ELSE IF old = new THEN {written(FALSE)}
      ELSE {written(ok) : ok \in IF MoreFaults(x) THEN BOOLEAN ELSE {TRUE}}

-----------------------------------------------------------------------------
(* The RAM buffers *)

\* The results of the write() calls for n bytes of a buffer: the lengths of the
\* one or two pieces that reached the file, both from the start of the buffer,
\* and the error that ended them.
Writes(x, i) ==
  LET n == Len(x.buf[i])
  IN  IF x.out[i].at \notin Writable
      THEN {[first |-> 0, second |-> 0, err |-> "EIO"]}
      ELSE {[first |-> n, second |-> 0, err |-> "none"]}
           \cup (IF ~MoreFaults(x) THEN {}
                 ELSE {[first |-> k, second |-> n - k, err |-> "none"] : k \in 1..n - 1}
                      \cup {[first |-> k, second |-> 0, err |-> e] :
                              k \in 0..n - 1, e \in {"ENOSPC", "EIO"}})

\* input_buf is set back to input_buf_base.
Emptied(x, i) == [x EXCEPT !.buf[i] = <<>>, !.kept = @ \ {i}]

Rotated(x) ==
  IF x.total >= LogfileMax[x.max]
  THEN LET y == aplogd_close_output(x)
       IN  {[z EXCEPT !.total = 0, !.ret = 0] :
              z \in aplogd_output_setup(IF x.cur \in Writable THEN Archived(y, x.cur) ELSE y, x.cur)}
  ELSE {x}

Wrote(x, i, w) ==
  LET o    == x.out[i]
      data == SubSeq(x.buf[i], 1, w.first) \o SubSeq(x.buf[i], 1, w.second)
      full == w.err = "none" /\ w.second = 0
      file == IF o.live THEN [x.file EXCEPT ![o.at][i] = @ \o data] ELSE x.file
      y    == [x EXCEPT !.file = file,
                        !.total = @ + Len(data),
                        !.harm = @ \/ (data # <<>> /\ (~full \/ ~o.live)),
                        !.faults = IF full \/ o.at \notin Writable THEN @ ELSE @ + 1]
  IN  CASE w.err = "none"   -> Rotated(Emptied(y, i))
        [] w.err = "ENOSPC" -> {aplogd_close_output([y EXCEPT !.kept = @ \cup {i}])}
        [] w.err = "EIO"    -> {[y EXCEPT !.kept = @ \cup {i}]}

\* EBADF is not modelled: an output_fd >= 0 is always an open file.
aplogd_rambuf_output(x, i) ==
  CASE x.buf[i] = <<>> -> {x}
    [] x.buf[i] # <<>> /\ x.out[i] = Closed ->
         {[Emptied(x, i) EXCEPT !.lost[i] = @ \cup Range(x.buf[i])]}
    [] OTHER -> UNION {Wrote(x, i, w) : w \in Writes(x, i)}

\* The loop of aplogd_rambuf_outputall over the poll indexes.
Flushed(x) ==
  LET upTo[k \in 0..Len(Inputs)] ==
        IF k = 0 THEN {x} ELSE Then(upTo[k - 1], LAMBDA z : aplogd_rambuf_output(z, Inputs[k]))
  IN  upTo[Len(Inputs)]

\* The callers forget to restart the count of unwritten bytes.
OutputallKeepsCount(x) ==
  {[y EXCEPT !.timer = FALSE] : y \in Flushed(x)}

\* With the assignments every caller makes after it.
aplogd_rambuf_outputall(x) ==
  {[y EXCEPT !.unwritten = 0, !.timer = FALSE] : y \in Flushed(x)}

\* LogfilterAndBuffering wants more room than it uses, the kernel log just enough.
Fits(x, i) ==
  LET space == BufSize - Len(x.buf[i]) IN IF i = Kernel THEN space >= 1 ELSE space > 1

\* Does not arm aplogd_poll_timeout.
BufferedNoTimer(x, i, e) ==
  LET y == [x EXCEPT !.buf[i] = Append(@, e), !.unwritten = @ + 1]
  IN  IF ~Fits(x, i) THEN {[x EXCEPT !.lost[i] = @ \cup {e}]}
      ELSE IF y.unwritten >= Buffering THEN aplogd_rambuf_outputall(y)
      ELSE {y}

\* An entry that does not fit ends the reading, and nothing is written for it.
Buffered(x, i, e) ==
  LET y == [x EXCEPT !.buf[i] = Append(@, e), !.unwritten = @ + 1, !.timer = TRUE]
  IN  IF ~Fits(x, i) THEN {[x EXCEPT !.lost[i] = @ \cup {e}]}
      ELSE IF y.unwritten >= Buffering THEN aplogd_rambuf_outputall(y)
      ELSE {y}

-----------------------------------------------------------------------------
(* Starting *)

aplogd_config_load(x) ==
  [x EXCEPT !.cur = aplogd_calc_storage_pref, !.max = aplogd_calc_storage_pref]

\* aplogd_log_io() up to the outputs: SECONDARY, then EXTERNAL, then USERDATA.
BootFinish ==
  LET setup(x, s, next) ==
        IF x.cur # s THEN {x}
        ELSE {[y EXCEPT !.cur = IF y.ret = 0 THEN s ELSE next] :
                y \in aplogd_output_setup(aplogd_log_save(x, s), s)}
  IN  /\ pc = "boot"
      /\ \E x \in Then(setup(aplogd_config_load(aplogd_log_save(d, "SECONDARY")), "SECONDARY", "EXTERNAL"),
                       LAMBDA y : Then(setup(y, "EXTERNAL", "USERDATA"),
                                       LAMBDA z : setup(z, "USERDATA", "none"))) :
           d' = x
      /\ pc' = "input"
      /\ UNCHANGED <<cfg, vold, config_changed, env, msgs, logged, events, missed>>

\* The connection to vold may fail.
aplogd_input_setup ==
  /\ pc = "input"
  /\ pc' = "loop"
  /\ \/ vold' = "polled" /\ UNCHANGED events
     \/ MoreEvents /\ events' = events + 1 /\ UNCHANGED vold
  /\ UNCHANGED <<cfg, d, config_changed, env, msgs, logged, missed>>

-----------------------------------------------------------------------------
(* The loop of aplogd_log_io() *)

\* A SIGUSR1 seen at the top of the loop.
ConfigChanged ==
  /\ pc = "loop" /\ config_changed
  /\ config_changed' = FALSE
  /\ \E x \in IF d.cur = aplogd_calc_storage_pref THEN {d}
              ELSE switch_storage(d, d.cur, aplogd_calc_storage_pref) :
       d' = [aplogd_config_load(x) EXCEPT !.stray = @ \/ x.cur # aplogd_calc_storage_pref]
  /\ UNCHANGED <<pc, cfg, vold, env, msgs, logged, events, missed>>

\* The poll() of an iteration led to the daemon's state x; without a vold socket,
\* the iteration ends with an attempt to connect.
Polled(x) ==
  /\ d' = x
  /\ vold' \in IF vold = "none" THEN {"none", "polled"} ELSE {vold}
  /\ UNCHANGED <<pc, cfg, config_changed, env, events>>

\* One entry of an input; android_log_shouldPrintLine drops some.
ReadEntry(i) ==
  /\ pc = "loop" /\ MapThenSumSet(LAMBDA j : logged[j], Streams) < MaxEntries
  /\ logged' = [logged EXCEPT ![i] = @ + 1]
  /\ \E x \in Buffered(d, i, logged[i] + 1) : Polled(x)
  /\ UNCHANGED <<msgs, missed>>

FilteredEntry ==
  /\ pc = "loop"
  /\ Polled([d EXCEPT !.timer = TRUE])
  /\ UNCHANGED <<msgs, logged, missed>>

\* poll() returns 0 after aplogd_poll_timeout.
PollTimeout ==
  /\ pc = "loop" /\ d.timer
  /\ \E x \in aplogd_rambuf_outputall(d) : Polled(x)
  /\ UNCHANGED <<msgs, logged, missed>>

SwitchedTo(x, old, new, move) ==
  Then(IF move /\ cfg.seq THEN aplogd_move_logs(x, x.cur, new) ELSE {x},
       LAMBDA y : switch_storage(y, old, new))

\* What the end of aplogd_io_read_data() does for a message.
VoldMessage(x, m) ==
  LET saved == aplogd_log_save(x, m.s)
  IN  CASE m.k = "mounted" /\ m.s = "SECONDARY" ->
             IF cfg.ext THEN SwitchedTo(saved, x.cur, "SECONDARY", TRUE) ELSE {saved}
        [] m.k = "mounted" /\ m.s = "EXTERNAL" ->
             IF cfg.ext /\ x.cur = "USERDATA" THEN SwitchedTo(saved, x.cur, "EXTERNAL", TRUE)
             ELSE {saved}
        [] m.k = "gone" /\ m.s = "SECONDARY" /\ x.cur = "SECONDARY" ->
             Then(switch_storage(x, "SECONDARY", "EXTERNAL"),
                  LAMBDA y : IF y.cur = "SECONDARY"
                             THEN switch_storage(y, "SECONDARY", "USERDATA") ELSE {y})
        [] m.k = "gone" /\ m.s = "EXTERNAL" /\ x.cur = "EXTERNAL" ->
             switch_storage(x, "EXTERNAL", "USERDATA")
        [] OTHER -> {x}

\* A read of the socket takes n messages; the handler sees the first, which
\* ends the string.
ReadVold ==
  /\ pc = "loop" /\ vold = "polled"
  /\ \E n \in 1..Len(msgs) :
       /\ msgs' = SubSeq(msgs, n + 1, Len(msgs))
       /\ missed' = (missed \/ n > 1)
  /\ \E x \in VoldMessage(d, Head(msgs)) : Polled(x)
  /\ UNCHANGED logged

AllMessages == [k : {"mounted", "gone"}, s : Cards]

\* vold closed the socket: read() leaves the buffer as it was on the stack, and
\* aplogd_io_handle_pollerr closes the descriptor but leaves input_fd.
VoldHup ==
  /\ pc = "loop" /\ vold = "polled" /\ MoreEvents
  /\ events' = events + 1
  /\ \E x \in {d} \cup UNION {VoldMessage(d, m) : m \in AllMessages} : d' = x
  /\ vold' = "closed" /\ msgs' = <<>> /\ missed' = TRUE
  /\ UNCHANGED <<pc, cfg, config_changed, env, logged>>

-----------------------------------------------------------------------------
(* The environment *)

\* aplogd_signal_handler; the setting changes nothing but the flag.
SIGUSR1 ==
  /\ ~config_changed /\ MoreEvents
  /\ config_changed' = TRUE
  /\ events' = events + 1
  /\ UNCHANGED <<pc, cfg, d, vold, env, msgs, logged, missed>>

\* A card is mounted, pulled out, or about to be unmounted.
CardChange(s) ==
  /\ MoreEvents
  /\ events' = events + 1
  /\ \/ /\ s \notin mounted
        /\ mounted' = mounted \cup {s}
        /\ unannounced' = Append(unannounced, [k |-> "mounted", s |-> s])
        /\ UNCHANGED leaving
     \/ /\ s \in mounted \ leaving
        /\ \/ mounted' = mounted \ {s} /\ UNCHANGED leaving
           \/ leaving' = leaving \cup {s} /\ UNCHANGED mounted
        /\ unannounced' = Append(unannounced, [k |-> "gone", s |-> s])
  /\ UNCHANGED <<pc, cfg, d, vold, config_changed, msgs, logged, missed>>

\* vold unmounts a card some time after it has announced that it will.
Unmounted(s) ==
  /\ s \in leaving /\ [k |-> "gone", s |-> s] \notin Range(unannounced)
  /\ mounted' = mounted \ {s} /\ leaving' = leaving \ {s}
  /\ UNCHANGED <<pc, cfg, d, vold, config_changed, unannounced, msgs, logged, events, missed>>

\* vold tells its clients.
Announce ==
  /\ unannounced # <<>>
  /\ unannounced' = Tail(unannounced)
  /\ IF vold = "polled"
     THEN msgs' = Append(msgs, Head(unannounced)) /\ UNCHANGED missed
     ELSE missed' = TRUE /\ UNCHANGED msgs
  /\ UNCHANGED <<pc, cfg, d, vold, config_changed, mounted, leaving, logged, events>>

Next ==
  \/ BootFinish \/ aplogd_input_setup \/ ConfigChanged
  \/ \E i \in Streams : ReadEntry(i)
  \/ FilteredEntry \/ PollTimeout \/ ReadVold \/ VoldHup
  \/ SIGUSR1
  \/ \E s \in Cards : CardChange(s) \/ Unmounted(s)
  \/ Announce

Spec == Init /\ [][Next]_vars

-----------------------------------------------------------------------------
(* Properties *)

\* The state of the daemon and its disks.
Daemon ==
  [cur : Storages, max : Storages,
   out : [Streams -> [at : Storages \cup {"none"}, live : BOOLEAN]],
   buf : [Streams -> Seq(Nat)],
   unwritten : Nat, timer : BOOLEAN, total : Nat,
   saved : SUBSET Storages, ret : {0, -1},
   dirs : SUBSET Storages, there : [Storages -> SUBSET Streams],
   file : [Storages -> [Streams -> Seq(Nat)]],
   archive : [Streams -> SUBSET Nat], lost : [Streams -> SUBSET Nat],
   kept : SUBSET Streams,
   harm : BOOLEAN, stray : BOOLEAN, late : BOOLEAN, faults : Nat]

\* The state is well-formed: no RAM buffer holds more than aplogd_ram_buff_size,
\* so aplogd_rambuf_space() never returns its -1, which LogfilterAndBuffering
\* would take for a huge size; and fewer than aplogd_output_buffering bytes wait
\* to be counted.
TypeOK ==
  /\ pc \in {"boot", "input", "loop"}
  /\ d \in Daemon
  /\ \A i \in Streams : Len(d.buf[i]) <= BufSize
  /\ d.unwritten < Buffering
  /\ vold \in {"none", "polled", "closed"}
  /\ mounted \subseteq Cards /\ leaving \subseteq mounted
  /\ unannounced \in Seq(AllMessages) /\ msgs \in Seq(AllMessages)
  /\ logged \in [Streams -> Nat] /\ events \in Nat
  /\ cfg \in [ext : BOOLEAN, seq : BOOLEAN]
  /\ config_changed \in BOOLEAN /\ missed \in BOOLEAN

\* Where an entry of an input can be.
Places == Storages \cup {"buffer", "archive", "lost"}

\* The entries of input i in place p.
Held(x, i, p) ==
  CASE p = "buffer"  -> Range(x.buf[i])
    [] p = "archive" -> x.archive[i]
    [] p = "lost"    -> x.lost[i]
    [] OTHER         -> Range(x.file[p][i])

\* Entries 1..n of input i are each in one place, and once in its sequence.
Once(x, i, n) ==
  /\ \A p \in Places : Held(x, i, p) \subseteq 1..n
  /\ \A e \in 1..n : \E p \in Places : {q \in Places : e \in Held(x, i, q)} = {p}
  /\ IsInjective(x.buf[i]) /\ \A s \in Storages : IsInjective(x.file[s][i])

\* The loop, the rotation, the saving and the moving of logs between storages
\* keep every entry in exactly one place: its RAM buffer, a log file, a
\* compressed file, or the entries dropped because the buffer was full or there
\* was no output; and no buffer or log file holds it twice.  The exceptions are
\* the ones that damage files: short or failed writes, a log moved onto itself
\* or while a write fails, and a log file compressed while it is open.
Accounted == ~d.harm => \A i \in Streams : Once(d, i, logged[i])

Quiet == pc = "loop" /\ msgs = <<>> /\ unannounced = <<>> /\ ~missed /\ ~d.stray /\ ~d.late

\* The outputs that are open are on the current storage, which is there to stay.
OnCurrent(x) ==
  x.cur \in Writable \ leaving /\ \A i \in Streams : x.out[i].at \in {"none", x.cur}

\* Once the daemon has handled every announcement of vold, its outputs are on
\* the storage it calls current, and that storage is there and is not being
\* unmounted: it holds no file open on a card that has to go.  Not so after it
\* missed an announcement, after SIGUSR1 made config_load rename the current
\* storage, or when it moved to a card that vold had already announced to go.
FollowsCards == Quiet => OnCurrent(d)

\* Whatever waits in a RAM buffer has the poll() timeout running for it, unless
\* its write failed: every path that turns the timeout off has written all
\* buffers first.
NothingForgotten ==
  \A i \in Streams : d.buf[i] # <<>> => d.timer \/ i \in d.kept
=============================================================================
