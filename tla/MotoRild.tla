------------------------------ MODULE MotoRild ------------------------------
(***************************************************************************)
(* motorild, a daemon that serves one motorilc client after another: it    *)
(* adds a route, or speeds the CPU up when the phone rings.  A client may  *)
(* be killed at any point.  An answer to a dead client is a SIGPIPE, which *)
(* the daemon does not ignore: it dies, its clients read the end of the    *)
(* connection, and init starts it again on a new socket.                   *)
(***************************************************************************)
EXTENDS CpuFreq

CONSTANTS
  Clients,
  NoClient,
  Backlog      \* the argument of listen()

ASSUME MotoRildAssumption ==
  /\ NoClient \notin Clients
  /\ Backlog \in Nat \ {0}

VARIABLES
  client,     \* client -> state of its motorilc process
  cmd,        \* client -> "route" or "ring"
  sent,       \* client -> its whole call is in the socket
  backlog,    \* connections not yet accepted
  daemon,     \* where main() is
  serving,    \* the accepted connection
  ret,        \* the result of the command
  cpu1        \* cpu1 is online

rild == <<client, cmd, sent, backlog, daemon, serving, ret, cpu1>>

MotoRildInit ==
  /\ client = [c \in Clients |-> "idle"]
  /\ cmd = [c \in Clients |-> "ring"]
  /\ sent = [c \in Clients |-> FALSE]
  /\ backlog = <<>>
  /\ daemon = "accept" /\ serving = NoClient /\ ret = 0
  /\ cpu1 = FALSE

-----------------------------------------------------------------------------
(* motorilc *)

\* socket_local_client(); while the daemon is down there is no socket, and the
\* client gives up.
Connect(c) ==
  /\ client[c] = "idle" /\ daemon # "dead" /\ Len(backlog) < Backlog
  /\ Event
  /\ client' = [client EXCEPT ![c] = "connected"]
  /\ \E k \in {"route", "ring"} : cmd' = [cmd EXCEPT ![c] = k]
  /\ sent' = [sent EXCEPT ![c] = FALSE]
  /\ backlog' = Append(backlog, c)
  /\ UNCHANGED <<cpufreq, daemon, serving, ret, cpu1>>

SendCall(c) ==
  /\ client[c] = "connected" /\ ~sent[c]
  /\ sent' = [sent EXCEPT ![c] = TRUE]
  /\ UNCHANGED <<cpufreq, events, client, cmd, backlog, daemon, serving, ret, cpu1>>

\* The process that started the client dies and takes it along.
Killed(c) ==
  /\ client[c] = "connected"
  /\ Event
  /\ client' = [client EXCEPT ![c] = "killed"]
  /\ UNCHANGED <<cpufreq, cmd, sent, backlog, daemon, serving, ret, cpu1>>

\* The client has read the end of the connection and exits.
Exit(c) ==
  /\ client[c] \in {"OK", "KO", "empty"}
  /\ client' = [client EXCEPT ![c] = "idle"]
  /\ cmd' = [cmd EXCEPT ![c] = "ring"] /\ sent' = [sent EXCEPT ![c] = FALSE]
  /\ UNCHANGED <<cpufreq, events, backlog, daemon, serving, ret, cpu1>>

-----------------------------------------------------------------------------
(* motorild *)

Accept ==
  /\ daemon = "accept" /\ backlog # <<>>
  /\ serving' = Head(backlog) /\ backlog' = Tail(backlog)
  /\ daemon' = "read" /\ ret' = 0
  /\ UNCHANGED <<cpufreq, events, client, cmd, sent, cpu1>>

\* close(client): a killed client is gone for good.
Closed(answer) == [client EXCEPT ![serving] = IF @ = "killed" THEN "idle" ELSE answer]

\* Reads on after the end of the connection.
ReadCallOn ==
  /\ daemon = "read" /\ sent[serving]
  /\ daemon' = cmd[serving]
  /\ UNCHANGED <<cpufreq, events, client, cmd, sent, backlog, serving, ret, cpu1>>

\* read() until the call is whole or the connection ends.
ReadCall ==
  /\ daemon = "read"
  /\ \/ /\ sent[serving]
        /\ daemon' = cmd[serving]
        /\ UNCHANGED <<client, serving>>
     \/ /\ ~sent[serving] /\ client[serving] = "killed"
        /\ daemon' = "accept" /\ client' = Closed("empty") /\ serving' = NoClient
  /\ UNCHANGED <<cpufreq, events, cmd, sent, backlog, ret, cpu1>>

\* set_gw(): fork() may fail and ip may fail or be killed, for which
\* WEXITSTATUS gives 0.
set_gw ==
  /\ daemon = "route"
  /\ \E ip \in {"added", "failed", "killed", "no fork"} :
       ret' = CASE ip = "failed" -> 1 [] ip = "no fork" -> -1 [] OTHER -> 0
  /\ daemon' = "answer"
  /\ UNCHANGED <<cpufreq, events, client, cmd, sent, backlog, serving, cpu1>>

\* Takes the first frequency that is listed.
RingFreqFirst ==
  /\ daemon = "ring"
  /\ scaling_max_freq' = IF frequencies = <<>> THEN scaling_max_freq ELSE frequencies[1]
  /\ writer' = IF frequencies = <<>> THEN writer ELSE "motorild"
  /\ daemon' = "online"
  /\ UNCHANGED <<frequencies, governor, events, client, cmd, sent, backlog, serving, ret, cpu1>>

\* ring(): the maximum frequency, the last of all that are listed ...
RingFreq ==
  /\ daemon = "ring"
  /\ scaling_max_freq' = IF frequencies = <<>> THEN scaling_max_freq ELSE frequencies[Len(frequencies)]
  /\ writer' = IF frequencies = <<>> THEN writer ELSE "motorild"
  /\ daemon' = "online"
  /\ UNCHANGED <<frequencies, governor, events, client, cmd, sent, backlog, serving, ret, cpu1>>

\* ... and, after the boostpulse, which no state here depends on, cpu1.
RingOnline ==
  /\ daemon = "online"
  /\ cpu1' = TRUE /\ ret' = 0
  /\ daemon' = "answer"
  /\ UNCHANGED <<cpufreq, events, client, cmd, sent, backlog, serving>>

\* write() and close().
Answer ==
  /\ daemon = "answer" /\ client[serving] # "killed"
  /\ client' = Closed(IF ret = 0 THEN "OK" ELSE "KO")
  /\ daemon' = "accept" /\ serving' = NoClient
  /\ UNCHANGED <<cpufreq, events, cmd, sent, backlog, ret, cpu1>>

\* write() to a dead client: the kernel closes the daemon's connections.
Sigpipe ==
  /\ daemon = "answer" /\ client[serving] = "killed"
  /\ daemon' = "dead" /\ serving' = NoClient /\ backlog' = <<>>
  /\ client' = [c \in Clients |-> IF client[c] = "connected" THEN "empty"
                                  ELSE IF client[c] = "killed" THEN "idle" ELSE client[c]]
  /\ UNCHANGED <<cpufreq, events, cmd, sent, ret, cpu1>>

\* init restarts the service.
Restart ==
  /\ daemon = "dead"
  /\ daemon' = "accept"
  /\ UNCHANGED <<cpufreq, events, client, cmd, sent, backlog, serving, ret, cpu1>>

Daemon ==
  Accept \/ ReadCall \/ set_gw \/ RingFreq \/ RingOnline \/ Answer \/ Sigpipe \/ Restart

MotoRildNext ==
  \/ \E c \in Clients : Connect(c) \/ SendCall(c) \/ Killed(c) \/ Exit(c)
  \/ Daemon

\* The processes run; init restarts what died.
MotoRildFairness ==
  /\ \A c \in Clients : WF_<<cpufreq, events, rild>>(SendCall(c) \/ Exit(c))
  /\ WF_<<cpufreq, events, rild>>(Daemon)

-----------------------------------------------------------------------------
(* Properties *)

MotoRildTypeOK ==
  /\ client \in [Clients -> {"idle", "connected", "killed", "OK", "KO", "empty"}]
  /\ cmd \in [Clients -> {"route", "ring"}]
  /\ sent \in [Clients -> BOOLEAN]
  /\ backlog \in Seq(Clients) /\ Len(backlog) <= Backlog
  /\ daemon \in {"accept", "read", "route", "ring", "online", "answer", "dead"}
  /\ serving \in Clients \cup {NoClient}
  /\ ret \in {-1, 0, 1}
  /\ \A c \in Clients :
       client[c] \in {"connected", "killed"} <=> c = serving \/ \E i \in 1..Len(backlog) : backlog[i] = c

\* A motorilc that is connected is answered or sees its connection end, in
\* spite of other clients that are killed and of the daemon dying on them.
CallsEnd == \A c \in Clients : client[c] = "connected" ~> client[c] # "connected"
=============================================================================
