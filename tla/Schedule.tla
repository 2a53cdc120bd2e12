------------------------------ MODULE Schedule ------------------------------
(***************************************************************************)
(* When Discord_UpdateConnection gets to a client: the path scan every     *)
(* PathScanInterval on steady_clock, the connection per path it finds, and *)
(* the attempts to open it, each Backoff::nextDelay() after the last one   *)
(* on system_clock, which may be set while the program runs.               *)
(*                                                                         *)
(* The IO thread rests for one unit of time at most between two ticks      *)
(* (maxWait, or as often as the application calls); a tick takes no time.  *)
(* Clocks are kept as differences: how long ago the last scan was, how     *)
(* long until nextConnect.                                                 *)
(***************************************************************************)
EXTENDS PathScan, Backoff

CONSTANTS
    ScanInterval,       \* PathScanInterval
    MaxSetBack          \* bound: by how much system_clock is set back in all

ASSUME ScheduleAssumption ==
    /\ ScanInterval \in Nat \ {0}
    /\ MaxSetBack \in Nat

VARIABLES
    alive,              \* sockets a client listens on
    phase,              \* where the IO thread is
    sinceScan,          \* steady_clock::now() - LastPathScan, up to ScanInterval
    cached,             \* CachedPathSet
    link,               \* Connections: RpcConnection::state, "none" without one
    stale,              \* open pipes whose client is gone
    delay,              \* Backoff::current of each connection
    untilConnect,       \* nextConnect - system_clock::now(), 0 when it is past
    todo,               \* the connections the loop of this tick has before it
    setBack,            \* by how much system_clock was set back
    waited              \* history: for how long a client has not been connected

clocks == <<sinceScan, delay, untilConnect, setBack, waited>>
tickVars == <<phase, cached, link, todo>>
schedVars == <<alive, stale, clocks, tickVars>>
allVars == <<scanVars, schedVars>>

Links == {"none", "Disconnected", "SentHandshake", "Connected"}

MaxOf(a, b) == IF a >= b THEN a ELSE b
Less(t, d) == MaxOf(t - d, 0)

\* steady_clock may count from the start of the machine: with LastPathScan at
\* its epoch the first scan is due when the clock has run for ScanInterval.
ScheduleInit ==
    /\ ScanInit
    /\ alive \in SUBSET sockets
    /\ phase = "rest"
    /\ sinceScan \in 0 .. ScanInterval
    /\ cached = {}
    /\ link = [s \in Sockets |-> "none"]
    /\ stale = {}
    /\ delay = [s \in Sockets |-> Reset]
    /\ untilConnect = [s \in Sockets |-> 0]
    /\ todo = {}
    /\ setBack = 0
    /\ waited = [s \in Sockets |-> 0]

-----------------------------------------------------------------------------
(***************************************************************************)
(* Time.                                                                   *)
(***************************************************************************)
\* The clients a scan cannot miss.
Watched == {s \in IpcSockets : DirOf[s] \in Certain}

\* Such a client listens, and there is no session with it.
Waits(s) == s \in Watched \cap alive /\ (link[s] = "Connected" => s \in stale)

Elapse ==
    /\ phase = "rest"
    /\ phase' = "due"
    /\ sinceScan' = IF sinceScan < ScanInterval THEN sinceScan + 1 ELSE ScanInterval
    /\ untilConnect' = [s \in Sockets |-> Less(untilConnect[s], 1)]
    /\ waited' = [s \in Sockets |-> IF Waits(s) THEN waited[s] + 1 ELSE 0]
    /\ UNCHANGED <<scanVars, alive, cached, link, stale, delay, todo, setBack>>

\* system_clock is set: ahead, or back.  A nextConnect that is past becomes due
\* again at most.
SetAhead(k) ==
    /\ phase = "rest"
    /\ untilConnect' = [s \in Sockets |-> Less(untilConnect[s], k)]
    /\ UNCHANGED <<scanVars, alive, stale, sinceScan, delay, setBack, waited, tickVars>>

SetBack(k) ==
    /\ phase = "rest"
    /\ setBack + k <= MaxSetBack
    /\ setBack' = setBack + k
    /\ \E past \in 0 .. k :
           untilConnect' = [s \in Sockets |->
               IF untilConnect[s] = 0 THEN k - past ELSE untilConnect[s] + k]
    /\ UNCHANGED <<scanVars, alive, stale, sinceScan, delay, waited, tickVars>>

-----------------------------------------------------------------------------
(***************************************************************************)
(* One tick.                                                               *)
(***************************************************************************)
BeginTick ==
    /\ phase \in {"rest", "due"}
    /\ IF sinceScan >= ScanInterval THEN StartScan /\ phase' = "scan"
                    ELSE UNCHANGED scanVars /\ phase' = "list"
    /\ UNCHANGED <<alive, stale, clocks, cached, link, todo>>

ScanGoesOn ==
    /\ phase = "scan"
    /\ ReadStep \/ EndOfDir \/ OpenNext
    /\ UNCHANGED schedVars

TakeScan ==
    /\ phase = "scan"
    /\ EndScan
    /\ phase' = "list"
    /\ sinceScan' = 0
    /\ cached' = found
    /\ UNCHANGED <<alive, link, stale, delay, untilConnect, todo, setBack, waited>>

Added == {s \in cached : link[s] = "none"}
Removed == {s \in Sockets \ cached : link[s] # "Connected"}

\* AddConnection for new paths; closed connections without a path are erased.
ListConnections ==
    /\ phase = "list"
    /\ phase' = "serve"
    /\ link' = [s \in Sockets |->
           IF s \in Added THEN "Disconnected" ELSE IF s \in Removed THEN "none" ELSE link[s]]
    /\ todo' = {s \in Sockets : link'[s] # "none"}
    /\ stale' = stale \ Removed
    /\ delay' = [s \in Sockets |-> IF s \in Added THEN Reset ELSE delay[s]]
    /\ untilConnect' = [s \in Sockets |-> IF s \in Added THEN 0 ELSE untilConnect[s]]
    /\ UNCHANGED <<scanVars, alive, sinceScan, cached, setBack, waited>>

Turn(s) ==
    /\ phase = "serve"
    /\ s \in todo
    /\ todo' = todo \ {s}
    /\ UNCHANGED <<scanVars, alive, phase, sinceScan, cached, setBack>>

\* The next attempt is fixed before this one is made.
Attempts(s) ==
    /\ link[s] # "Connected"
    /\ untilConnect[s] = 0
    /\ \E d \in NextDelays(delay[s]) :
           /\ delay' = [delay EXCEPT ![s] = d]
           /\ untilConnect' = [untilConnect EXCEPT ![s] = d]

\* nextConnect has not come.
TooEarly(s) ==
    /\ Turn(s)
    /\ link[s] # "Connected" /\ untilConnect[s] > 0
    /\ UNCHANGED <<link, stale, delay, untilConnect, waited>>

\* Open: the pipe and the handshake ...
OpenSendsHandshake(s) ==
    /\ Turn(s)
    /\ Attempts(s)
    /\ link[s] = "Disconnected"
    /\ link' = [link EXCEPT ![s] = IF s \in alive THEN "SentHandshake" ELSE "Disconnected"]
    /\ UNCHANGED <<stale, waited>>

\* onConnect: reconnectTimeMs.reset().
Settles(s) ==
    \E d \in NextDelays(delay[s]) :
        /\ delay' = [delay EXCEPT ![s] = Reset]
        /\ untilConnect' = [untilConnect EXCEPT ![s] = d]

\* ... then READY, which a client has sent by the next attempt, ...
OpenGetsReady(s) ==
    /\ Turn(s)
    /\ link[s] = "SentHandshake" /\ untilConnect[s] = 0
    /\ s \notin stale
    /\ Settles(s)
    /\ link' = [link EXCEPT ![s] = "Connected"]
    /\ waited' = [waited EXCEPT ![s] = 0]
    /\ UNCHANGED stale

\* ... also when that client is gone since, whose end is seen by a later tick, ...
OpenGetsLeftReady(s) ==
    /\ Turn(s)
    /\ link[s] = "SentHandshake" /\ untilConnect[s] = 0
    /\ s \in stale
    /\ Settles(s)
    /\ link' = [link EXCEPT ![s] = "Connected"]
    /\ UNCHANGED <<stale, waited>>

\* ... or the end of the pipe.
OpenFindsEnd(s) ==
    /\ Turn(s)
    /\ Attempts(s)
    /\ link[s] = "SentHandshake"
    /\ s \in stale
    /\ link' = [link EXCEPT ![s] = "Disconnected"]
    /\ stale' = stale \ {s}
    /\ UNCHANGED waited

\* Mutant of ReadsAndWrites: the end of the pipe is taken for "nothing yet".
ReadsAndWritesOn(s) ==
    /\ Turn(s)
    /\ link[s] = "Connected"
    /\ UNCHANGED <<link, stale, delay, untilConnect, waited>>

\* Reads, and what is written: a pipe whose client is gone is closed.
ReadsAndWrites(s) ==
    /\ Turn(s)
    /\ link[s] = "Connected"
    /\ link' = [link EXCEPT ![s] = IF s \in stale THEN "Disconnected" ELSE "Connected"]
    /\ stale' = stale \ {s}
    /\ UNCHANGED <<delay, untilConnect, waited>>

Serve(s) ==
    \/ TooEarly(s) \/ ReadsAndWrites(s)
    \/ OpenSendsHandshake(s) \/ OpenGetsReady(s) \/ OpenGetsLeftReady(s) \/ OpenFindsEnd(s)

EndTick ==
    /\ phase = "serve"
    /\ todo = {}
    /\ phase' = "rest"
    /\ UNCHANGED <<scanVars, alive, stale, clocks, cached, link, todo>>

TickStep ==
    \/ ScanGoesOn \/ TakeScan \/ ListConnections
    \/ \E s \in Sockets : Serve(s)
    \/ EndTick

-----------------------------------------------------------------------------
(***************************************************************************)
(* Clients: one that starts makes its socket (having removed an old one),  *)
(* one that ends removes it, one that crashes leaves it behind.            *)
(***************************************************************************)
Leaves(s) ==
    /\ alive' = alive \ {s}
    /\ stale' = IF s \in alive /\ link[s] \in {"SentHandshake", "Connected"}
                  THEN stale \cup {s} ELSE stale
    /\ waited' = [waited EXCEPT ![s] = 0]
    /\ UNCHANGED <<sinceScan, delay, untilConnect, setBack, tickVars>>

ClientStarts(s) ==
    /\ SocketComes(s)
    /\ alive' = alive \cup {s}
    /\ UNCHANGED <<stale, clocks, tickVars>>

ClientEnds(s) == SocketGoes(s) /\ Leaves(s)

ClientCrashes(s) == s \in alive /\ Leaves(s) /\ UNCHANGED scanVars

ClientStep(s) == ClientStarts(s) \/ ClientEnds(s) \/ ClientCrashes(s)

ClockStep == \E k \in 1 .. MaxSetBack : SetAhead(k) \/ SetBack(k)

ScheduleNext ==
    Elapse \/ ClockStep \/ BeginTick \/ TickStep \/ \E s \in Sockets : ClientStep(s)

\* The IO thread goes on.  readdir gets to every entry of a directory, and to its
\* end: sockets that come and go do not keep a scan in it for ever.
ScheduleFairness ==
    /\ WF_allVars(Elapse \/ BeginTick)
    /\ WF_allVars(TickStep)
    /\ \A d \in Dirs : WF_allVars(phase = "scan" /\ ReadDir(d) /\ UNCHANGED schedVars)
    /\ SF_allVars(phase = "scan" /\ EndOfDir /\ UNCHANGED schedVars)

ScheduleSpec == ScheduleInit /\ [][ScheduleNext]_allVars /\ ScheduleFairness

-----------------------------------------------------------------------------
ScheduleTypeOK ==
    /\ ScanTypeOK
    /\ alive \subseteq sockets
    /\ phase \in {"rest", "due", "scan", "list", "serve"}
    /\ scanning <=> phase = "scan"
    /\ sinceScan \in 0 .. ScanInterval
    /\ cached \subseteq Sockets
    /\ link \in [Sockets -> Links]
    /\ stale \subseteq {s \in Sockets : link[s] \in {"SentHandshake", "Connected"}}
    /\ delay \in [Sockets -> MinAmount .. MaxAmount]
    /\ untilConnect \in [Sockets -> 0 .. MaxAmount + MaxSetBack]
    /\ todo \subseteq {s \in Sockets : link[s] # "none"}
    /\ setBack \in 0 .. MaxSetBack
    /\ waited \in [Sockets -> Nat]

\* How long a client may have to wait: for the next scan, or for the attempt that
\* hears of the previous client and then for one to open the pipe, two ticks later
\* at the earliest if it was that client's READY that was heard first; and then for
\* the attempt that finds READY.
Patience == MaxOf(ScanInterval, MaxAmount + MaxOf(MaxAmount, 2)) + MaxAmount

\* Whoever came and went before, whatever was found, missed, refused or closed,
\* a client that stays is connected in bounded time, to which setting
\* system_clock back adds no more than it was set back by
\* (discord_rpc.cpp:259-265, 309-312, backoff.h:40-46).
ConnectedInTime == \A s \in Watched : waited[s] <= Patience + setBack

\* Every tick comes to its end: the scan gets through its queue, although
\* sockets come and go meanwhile (connection_unix.cpp:160-185).
TicksEnd == (phase = "scan") ~> (phase = "rest")
=============================================================================
