--------------------------- MODULE ScheduleProofs ---------------------------
(***************************************************************************)
(* How long a client waits, for every interval, backoff, tree of           *)
(* directories and number of clients.  The wait is charged to what the     *)
(* client waits for: the next scan while no path to it is known, then the  *)
(* attempt to connect that the backoff allows next.                        *)
(***************************************************************************)
EXTENDS Schedule, PathScanProofs

\* No time passes before s has its turn, unless the tick is over for it.
Rests(s) == phase = "rest" \/ (phase = "serve" /\ s \notin todo)

\* How much time may pass until an attempt to connect to s.
Ahead(s) == IF Rests(s) THEN MaxOf(untilConnect[s], 1) ELSE untilConnect[s]

\* The wait until the pipe is open.
Opening == MaxOf(ScanInterval, MaxAmount + MaxOf(MaxAmount, 2))

\* A session whose client is gone ends in the next tick, and another begins in the
\* one after that at the earliest.
Behind(s) == IF Rests(s) THEN MaxOf(untilConnect[s], 2) ELSE MaxOf(untilConnect[s], 1)

\* A wait is one for somebody who is there, and not connected.
WaitIsReal(s) ==
    /\ s \notin Watched \cap alive => waited[s] = 0
    /\ link[s] = "Connected" /\ s \notin stale => waited[s] = 0

\* Who is not known yet will be by the next scan.
WaitForScan(s) ==
    /\ s \notin cached => waited[s] <= sinceScan
    /\ phase = "scan" /\ s \notin throughout => waited[s] = 0
    /\ s \in cached /\ link[s] = "none" => phase = "list"
    /\ link[s] = "none" => waited[s] <= ScanInterval

\* Who is known will be connected, after the end of an old session is noticed.
WaitForAttempt(s) ==
    /\ link[s] = "Connected" => waited[s] + Behind(s) <= Opening + setBack
    /\ link[s] = "Disconnected" => waited[s] + Ahead(s) <= Opening + setBack
    /\ link[s] = "SentHandshake" =>
           waited[s] + Ahead(s) <= MaxAmount + setBack + IF s \in stale THEN 0 ELSE Opening

\* A scan is never put off.
ScansInTime ==
    /\ phase \in {"list", "serve"} => sinceScan < ScanInterval
    /\ phase = "rest" /\ sinceScan = ScanInterval => \A s \in Sockets : waited[s] = 0

WaitOK(s) ==
    /\ untilConnect[s] <= MaxAmount + setBack
    /\ WaitIsReal(s) /\ WaitForScan(s) /\ WaitForAttempt(s)

TInv == ScheduleTypeOK /\ ScansInTime /\ \A s \in Sockets : WaitOK(s)

-----------------------------------------------------------------------------
\* Facts about the constants.
LEMMA Intervals ==
    /\ ScanInterval \in Nat /\ ScanInterval >= 1 /\ MaxSetBack \in Nat
    /\ MinAmount \in Nat /\ MaxAmount \in Nat /\ MinAmount >= 1 /\ MaxAmount >= MinAmount
    /\ Opening \in Nat /\ Opening >= ScanInterval
    /\ Opening >= 2 * MaxAmount /\ Opening >= MaxAmount + 2
  BY ScheduleAssumption, BackoffAssumption DEF Opening, MaxOf

\* nextDelay() returns a positive amount, never more than the maximum.
LEMMA DelaysAreBounded ==
    ASSUME NEW current \in MinAmount .. MaxAmount, NEW d \in NextDelays(current)
    PROVE  d \in MinAmount .. MaxAmount
  BY Intervals DEF NextDelays, Delays, Capped

LEMMA LessIsLess ==
    ASSUME NEW t \in Nat, NEW k \in Nat
    PROVE  Less(t, k) \in Nat /\ Less(t, k) = IF t >= k THEN t - k ELSE 0
  BY DEF Less, MaxOf

LEMMA Types ==
    ASSUME ScheduleTypeOK, NEW s \in Sockets
    PROVE  /\ untilConnect[s] \in Nat /\ waited[s] \in Nat /\ link[s] \in Links
           /\ delay[s] \in MinAmount .. MaxAmount
           /\ setBack \in Nat /\ sinceScan \in Nat /\ sinceScan <= ScanInterval
  BY Intervals DEF ScheduleTypeOK

-----------------------------------------------------------------------------
LEMMA InitTInv == ASSUME ScheduleInit, IInv PROVE TInv
<1>1. ScheduleTypeOK
  BY Intervals DEF ScheduleInit, ScanInit, ScheduleTypeOK, Links, Reset, IInv
<1>2. ScansInTime
  BY DEF ScheduleInit, ScansInTime
<1>3. ASSUME NEW s \in Sockets PROVE WaitOK(s)
  BY <1>3, Intervals
     DEF ScheduleInit, WaitOK, WaitIsReal, WaitForScan, WaitForAttempt
<1> QED
  BY <1>1, <1>2, <1>3 DEF TInv

LEMMA ElapseTInv == ASSUME TInv, IInv', Elapse PROVE TInv'
<1> USE DEF TInv
<1>1. \A s \in Sockets : Less(untilConnect[s], 1) \in Nat
                          /\ Less(untilConnect[s], 1) = IF untilConnect[s] >= 1 THEN untilConnect[s] - 1 ELSE 0
  BY Types, LessIsLess
<1>2. ScheduleTypeOK'
  <2>1. untilConnect' \in [Sockets -> 0 .. MaxAmount + MaxSetBack]
    BY <1>1, Intervals, Types DEF Elapse, ScheduleTypeOK
  <2>2. waited' \in [Sockets -> Nat]
    BY Types DEF Elapse
  <2> QED
    BY <2>1, <2>2, Intervals DEF Elapse, ScheduleTypeOK, scanVars, IInv
<1>3. ScansInTime'
  BY DEF Elapse, ScansInTime
<1>4. ASSUME NEW s \in Sockets PROVE WaitOK(s)'
  <2>1. /\ untilConnect'[s] = IF untilConnect[s] >= 1 THEN untilConnect[s] - 1 ELSE 0
        /\ waited'[s] = IF Waits(s) THEN waited[s] + 1 ELSE 0
        /\ phase = "rest" /\ phase' = "due"
        /\ UNCHANGED <<alive, cached, link, stale, todo, setBack, throughout>>
        /\ sinceScan' = IF sinceScan < ScanInterval THEN sinceScan + 1 ELSE ScanInterval
    BY <1>1 DEF Elapse, scanVars
  <2>2. WaitOK(s)
    OBVIOUS
  <2>3. WaitIsReal(s)'
    BY <2>1, <2>2, Types DEF WaitOK, WaitIsReal, Waits, Watched
  <2>4. WaitForScan(s)'
    BY <2>1, <2>2, Types, Intervals DEF WaitOK, WaitForScan, ScansInTime
  <2>5. WaitForAttempt(s)'
    BY <2>1, <2>2, Types, Intervals
       DEF WaitOK, WaitForAttempt, WaitIsReal, Ahead, Behind, Rests, MaxOf
  <2> QED
    BY <2>1, <2>2, <2>3, <2>4, <2>5, Types, Intervals DEF WaitOK
<1> QED
  BY <1>2, <1>3, <1>4

LEMMA SetAheadTInv == ASSUME TInv, IInv', NEW k \in Nat, SetAhead(k) PROVE TInv'
<1> USE DEF TInv
<1>1. \A s \in Sockets : Less(untilConnect[s], k) \in Nat
                          /\ Less(untilConnect[s], k) = IF untilConnect[s] >= k THEN untilConnect[s] - k ELSE 0
  BY Types, LessIsLess
<1>2. ScheduleTypeOK'
  <2>1. untilConnect' \in [Sockets -> 0 .. MaxAmount + MaxSetBack]
    BY <1>1, Intervals, Types DEF SetAhead, ScheduleTypeOK
  <2> QED
    BY <2>1 DEF SetAhead, ScheduleTypeOK, scanVars, tickVars, IInv
<1>3. ScansInTime'
  BY DEF SetAhead, ScansInTime, tickVars
<1>4. ASSUME NEW s \in Sockets PROVE WaitOK(s)'
  <2>1. /\ untilConnect'[s] = IF untilConnect[s] >= k THEN untilConnect[s] - k ELSE 0
        /\ UNCHANGED <<phase, alive, cached, link, stale, todo, setBack, throughout, waited, sinceScan>>
    BY <1>1 DEF SetAhead, scanVars, tickVars
  <2>2. WaitOK(s)
    OBVIOUS
  <2>3. WaitIsReal(s)' /\ WaitForScan(s)'
    BY <2>1, <2>2, Types DEF WaitOK, WaitIsReal, WaitForScan, Watched
  <2>4. WaitForAttempt(s)'
    BY <2>1, <2>2, Types, Intervals DEF WaitOK, WaitForAttempt, Ahead, Behind, Rests, MaxOf
  <2> QED
    BY <2>1, <2>2, <2>3, <2>4, Types, Intervals DEF WaitOK
<1> QED
  BY <1>2, <1>3, <1>4

LEMMA SetBackTInv == ASSUME TInv, IInv', NEW k \in Nat \ {0}, SetBack(k) PROVE TInv'
<1> USE DEF TInv
<1>0. PICK past \in 0 .. k :
          untilConnect' = [s \in Sockets |->
              IF untilConnect[s] = 0 THEN k - past ELSE untilConnect[s] + k]
  BY DEF SetBack
<1>1. /\ phase = "rest" /\ setBack' = setBack + k /\ setBack + k <= MaxSetBack
      /\ UNCHANGED <<phase, alive, cached, link, stale, todo, throughout, waited, sinceScan>>
  BY DEF SetBack, scanVars, tickVars
<1>2. \A s \in Sockets : WaitOK(s)
  OBVIOUS
<1>3. ScheduleTypeOK'
  <2>1. untilConnect' \in [Sockets -> 0 .. MaxAmount + MaxSetBack]
    BY <1>0, <1>1, <1>2, Intervals, Types DEF WaitOK
  <2> QED
    BY <1>1, <2>1, Intervals DEF SetBack, ScheduleTypeOK, scanVars, tickVars, IInv
<1>4. ScansInTime'
  BY <1>1 DEF ScansInTime
<1>5. ASSUME NEW s \in Sockets PROVE WaitOK(s)'
  <2>1. untilConnect'[s] = IF untilConnect[s] = 0 THEN k - past ELSE untilConnect[s] + k
    BY <1>0
  <2>2. WaitOK(s)
    OBVIOUS
  <2>3. WaitIsReal(s)' /\ WaitForScan(s)'
    BY <1>1, <2>2, Types DEF WaitOK, WaitIsReal, WaitForScan, Watched
  <2>4. WaitForAttempt(s)'
    BY <1>1, <2>1, <2>2, Types, Intervals DEF WaitOK, WaitForAttempt, Ahead, Behind, Rests, MaxOf
  <2> QED
    BY <1>1, <2>1, <2>2, <2>3, <2>4, Types, Intervals DEF WaitOK
<1> QED
  BY <1>3, <1>4, <1>5

-----------------------------------------------------------------------------
LEMMA BeginTickTInv == ASSUME TInv, IInv', BeginTick PROVE TInv'
<1> USE DEF TInv
<1>1. /\ phase \in {"rest", "due"}
      /\ UNCHANGED <<sockets, alive, stale, sinceScan, delay, untilConnect, setBack, waited,
                     cached, link, todo>>
      /\ \/ phase' = "scan" /\ scanning' = TRUE /\ throughout' = sockets
         \/ phase' = "list" /\ sinceScan < ScanInterval /\ scanning' = scanning
            /\ throughout' = throughout
  BY Intervals DEF BeginTick, StartScan, scanVars, clocks, ScheduleTypeOK
<1>2. ScheduleTypeOK'
  BY <1>1 DEF ScheduleTypeOK, IInv
<1>3. ScansInTime'
  BY <1>1 DEF ScansInTime
<1>4. ASSUME NEW s \in Sockets PROVE WaitOK(s)'
  <2>1. WaitOK(s)
    OBVIOUS
  <2>2. WaitIsReal(s)'
    BY <1>1, <2>1 DEF WaitOK, WaitIsReal, Watched
  <2>3. WaitForScan(s)'
    BY <1>1, <2>1, Types DEF WaitOK, WaitForScan, WaitIsReal, ScheduleTypeOK
  <2>4. WaitForAttempt(s)'
    BY <1>1, <2>1, Types, Intervals DEF WaitOK, WaitForAttempt, Ahead, Behind, Rests, MaxOf
  <2> QED
    BY <1>1, <2>1, <2>2, <2>3, <2>4 DEF WaitOK
<1> QED
  BY <1>2, <1>3, <1>4

LEMMA ScanGoesOnTInv == ASSUME TInv, IInv', ScanGoesOn PROVE TInv'
<1> USE DEF TInv
<1>1. UNCHANGED <<schedVars, sockets, scanning, throughout>>
  BY DEF ScanGoesOn, ReadStep, ReadDir, QueueDir, Ignore, FindSocket, ReadEntry, EndOfDir, OpenNext
<1>2. UNCHANGED <<alive, stale, sinceScan, delay, untilConnect, setBack, waited, phase, cached,
                  link, todo, sockets, scanning, throughout>>
  BY <1>1 DEF schedVars, clocks, tickVars
<1>3. ScheduleTypeOK'
  BY <1>2 DEF ScheduleTypeOK, IInv
<1>4. ScansInTime'
  BY <1>2 DEF ScansInTime
<1>5. ASSUME NEW s \in Sockets PROVE WaitOK(s)'
  BY <1>2 DEF WaitOK, WaitIsReal, WaitForScan, WaitForAttempt, Watched, Ahead, Behind, Rests
<1> QED
  BY <1>3, <1>4, <1>5

\* The scan finds whoever has been there since it began: who is still unknown
\* has not been waiting for longer.
LEMMA TakeScanTInv == ASSUME TInv, IInv', TakeScan PROVE TInv'
<1> USE DEF TInv
<1>1. /\ phase = "scan" /\ phase' = "list" /\ scanning' = FALSE
      /\ sinceScan' = 0 /\ cached' = found /\ found' = found
      /\ UNCHANGED <<sockets, throughout, alive, link, stale, delay, untilConnect, todo, setBack,
                     waited>>
  BY DEF TakeScan, EndScan
<1>2. ScheduleTypeOK'
  BY <1>1, Intervals DEF ScheduleTypeOK, IInv, ScanTypeOK
<1>3. ScansInTime'
  BY <1>1, Intervals DEF ScansInTime
<1>4. ASSUME NEW s \in Sockets PROVE WaitOK(s)'
  <2>1. WaitOK(s)
    OBVIOUS
  <2>2. s \in Watched /\ s \in throughout => s \in cached'
    BY <1>1 DEF IInv, ScanFindsAll, Watched
  <2>3. WaitIsReal(s)'
    BY <1>1, <2>1 DEF WaitOK, WaitIsReal, Watched
  <2>4. WaitForScan(s)'
    BY <1>1, <2>1, <2>2, Types DEF WaitOK, WaitForScan, WaitIsReal
  <2>5. WaitForAttempt(s)'
    BY <1>1, <2>1 DEF WaitOK, WaitForAttempt, Ahead, Behind, Rests
  <2> QED
    BY <1>1, <2>1, <2>3, <2>4, <2>5 DEF WaitOK
<1> QED
  BY <1>2, <1>3, <1>4

LEMMA ListConnectionsTInv == ASSUME TInv, IInv', ListConnections PROVE TInv'
<1> USE DEF TInv
<1>1. /\ phase = "list" /\ phase' = "serve"
      /\ todo' = {s \in Sockets : link'[s] # "none"}
      /\ stale' = stale \ Removed
      /\ UNCHANGED <<sockets, scanning, throughout, alive, sinceScan, cached, setBack, waited>>
  BY DEF ListConnections, scanVars
<1>2. ASSUME NEW s \in Sockets
      PROVE  /\ link'[s] = IF s \in Added THEN "Disconnected"
                           ELSE IF s \in Removed THEN "none" ELSE link[s]
             /\ delay'[s] = IF s \in Added THEN Reset ELSE delay[s]
             /\ untilConnect'[s] = IF s \in Added THEN 0 ELSE untilConnect[s]
  BY DEF ListConnections
<1>3. ScheduleTypeOK'
  <2>1. link' \in [Sockets -> Links] /\ delay' \in [Sockets -> MinAmount .. MaxAmount]
        /\ untilConnect' \in [Sockets -> 0 .. MaxAmount + MaxSetBack]
    BY Intervals DEF ListConnections, ScheduleTypeOK, Links, Reset
  <2>2. stale' \subseteq {s \in Sockets : link'[s] \in {"SentHandshake", "Connected"}}
    BY <1>1, <1>2 DEF ScheduleTypeOK, Added, Removed
  <2> QED
    BY <1>1, <2>1, <2>2 DEF ScheduleTypeOK, IInv
<1>4. ScansInTime'
  BY <1>1 DEF ScansInTime
<1>5. ASSUME NEW s \in Sockets PROVE WaitOK(s)'
  <2>1. WaitOK(s)
    OBVIOUS
  <2>2. link[s] \in Links /\ (s \in stale => link[s] \in {"SentHandshake", "Connected"})
    BY Types DEF ScheduleTypeOK
  <2>3. WaitIsReal(s)'
    BY <1>1, <1>2, <2>1, <2>2 DEF WaitOK, WaitIsReal, Watched, Added, Removed
  <2>4. WaitForScan(s)'
    BY <1>1, <1>2, <2>1, <2>2, Types, Intervals DEF WaitOK, WaitForScan, Added, Removed, Links
  <2>5. WaitForAttempt(s)'
    BY <1>1, <1>2, <2>1, <2>2, Types, Intervals
       DEF WaitOK, WaitForScan, WaitForAttempt, Ahead, Behind, Rests, Added, Removed, Links
  <2> QED
    BY <1>1, <1>2, <2>1, <2>3, <2>4, <2>5, Types, Intervals DEF WaitOK
<1> QED
  BY <1>3, <1>4, <1>5

-----------------------------------------------------------------------------
\* What the turn of s may not change of the others.
OthersAreLeft(s) ==
    \A c \in Sockets \ {s} :
        /\ link'[c] = link[c] /\ untilConnect'[c] = untilConnect[c]
        /\ waited'[c] = waited[c] /\ (c \in stale' <=> c \in stale)

TypesAfter ==
    /\ link' \in [Sockets -> Links]
    /\ stale' \subseteq {c \in Sockets : link'[c] \in {"SentHandshake", "Connected"}}
    /\ delay' \in [Sockets -> MinAmount .. MaxAmount]
    /\ untilConnect' \in [Sockets -> 0 .. MaxAmount + MaxSetBack]
    /\ waited' \in [Sockets -> Nat]

LEMMA TurnTInv ==
    ASSUME TInv, IInv', NEW s \in Sockets, Turn(s), TypesAfter, OthersAreLeft(s),
           link[s] # "none", link'[s] # "none",
           untilConnect'[s] <= MaxAmount + setBack, WaitIsReal(s)', waited'[s] <= waited[s],
           WaitForAttempt(s)'
    PROVE  TInv'
<1> USE DEF TInv
<1>1. /\ phase = "serve" /\ phase' = "serve" /\ todo' = todo \ {s}
      /\ UNCHANGED <<sockets, scanning, throughout, alive, sinceScan, cached, setBack>>
  BY DEF Turn, scanVars
<1>2. ScheduleTypeOK'
  BY <1>1 DEF ScheduleTypeOK, IInv, TypesAfter, OthersAreLeft
<1>3. ScansInTime'
  BY <1>1 DEF ScansInTime
<1>4. ASSUME NEW c \in Sockets \ {s} PROVE WaitOK(c)'
  BY <1>1, <1>4
     DEF WaitOK, WaitIsReal, WaitForScan, WaitForAttempt, Watched, Ahead, Behind, Rests, OthersAreLeft
<1>5. WaitForScan(s)'
  <2>1. waited'[s] \in Nat /\ waited[s] \in Nat
    BY DEF TypesAfter, ScheduleTypeOK
  <2> QED
    BY <1>1, <2>1, Intervals DEF WaitOK, WaitForScan, ScheduleTypeOK
<1> QED
  BY <1>1, <1>2, <1>3, <1>4, <1>5 DEF WaitOK

\* The next attempt is fixed: at once it is due again within the maximum.
LEMMA AttemptsTInv ==
    ASSUME ScheduleTypeOK, NEW s \in Sockets, Attempts(s) \/ Settles(s)
    PROVE  /\ delay' \in [Sockets -> MinAmount .. MaxAmount]
           /\ untilConnect' \in [Sockets -> 0 .. MaxAmount + MaxSetBack]
           /\ untilConnect'[s] \in Nat /\ untilConnect'[s] >= 1 /\ untilConnect'[s] <= MaxAmount
           /\ \A c \in Sockets \ {s} : untilConnect'[c] = untilConnect[c]
<1>1. delay[s] \in MinAmount .. MaxAmount
  BY Types
<1>2. PICK d \in NextDelays(delay[s]) :
          /\ untilConnect' = [untilConnect EXCEPT ![s] = d]
          /\ delay' = [delay EXCEPT ![s] = d] \/ delay' = [delay EXCEPT ![s] = Reset]
  BY DEF Attempts, Settles
<1>3. d \in MinAmount .. MaxAmount
  BY <1>1, DelaysAreBounded
<1> QED
  BY <1>2, <1>3, Intervals DEF ScheduleTypeOK, Reset

LEMMA TooEarlyTInv == ASSUME TInv, IInv', NEW s \in Sockets, TooEarly(s) PROVE TInv'
<1> USE DEF TInv
<1>1. /\ Turn(s) /\ UNCHANGED <<link, stale, delay, untilConnect, waited>>
      /\ untilConnect[s] > 0 /\ link[s] # "Connected" /\ link[s] # "none"
  BY DEF TooEarly, Turn, ScheduleTypeOK
<1>2. TypesAfter /\ OthersAreLeft(s)
  BY <1>1 DEF TypesAfter, OthersAreLeft, ScheduleTypeOK
<1>3. /\ phase = "serve" /\ s \in todo /\ phase' = "serve" /\ s \notin todo'
      /\ UNCHANGED <<alive, cached, setBack>>
  BY <1>1 DEF Turn
<1>4. WaitIsReal(s)' /\ WaitForAttempt(s)'
  BY <1>1, <1>3, Types, Intervals DEF WaitOK, WaitIsReal, WaitForAttempt, Watched, Ahead, Behind, Rests, MaxOf
<1> QED
  BY <1>1, <1>2, <1>3, <1>4, Types, TurnTInv DEF WaitOK

LEMMA ReadsAndWritesTInv ==
    ASSUME TInv, IInv', NEW s \in Sockets, ReadsAndWrites(s) PROVE TInv'
<1> USE DEF TInv
<1>1. /\ Turn(s) /\ UNCHANGED <<delay, untilConnect, waited>> /\ link[s] = "Connected"
      /\ link' = [link EXCEPT ![s] = IF s \in stale THEN "Disconnected" ELSE "Connected"]
      /\ stale' = stale \ {s}
  BY DEF ReadsAndWrites
<1>2. link'[s] = IF s \in stale THEN "Disconnected" ELSE "Connected"
  BY <1>1 DEF ScheduleTypeOK
<1>3. TypesAfter /\ OthersAreLeft(s)
  BY <1>1 DEF TypesAfter, OthersAreLeft, ScheduleTypeOK, Links
<1>4. /\ phase = "serve" /\ s \in todo /\ phase' = "serve" /\ s \notin todo'
      /\ UNCHANGED <<alive, cached, setBack>>
  BY <1>1 DEF Turn
<1>5. WaitIsReal(s)' /\ WaitForAttempt(s)'
  BY <1>1, <1>2, <1>4, Types, Intervals
     DEF WaitOK, WaitIsReal, WaitForAttempt, Watched, Ahead, Behind, Rests, MaxOf
<1> QED
  BY <1>1, <1>2, <1>3, <1>4, <1>5, Types, TurnTInv DEF WaitOK

LEMMA OpenSendsHandshakeTInv ==
    ASSUME TInv, IInv', NEW s \in Sockets, OpenSendsHandshake(s) PROVE TInv'
<1> USE DEF TInv
<1>1. /\ Turn(s) /\ Attempts(s) /\ UNCHANGED <<stale, waited>>
      /\ link[s] = "Disconnected" /\ untilConnect[s] = 0
      /\ link' = [link EXCEPT ![s] = IF s \in alive THEN "SentHandshake" ELSE "Disconnected"]
  BY DEF OpenSendsHandshake, Attempts
<1>2. /\ link'[s] = IF s \in alive THEN "SentHandshake" ELSE "Disconnected"
      /\ s \notin stale
  BY <1>1 DEF ScheduleTypeOK
<1>3. TypesAfter /\ OthersAreLeft(s)
  BY <1>1, AttemptsTInv DEF TypesAfter, OthersAreLeft, ScheduleTypeOK, Links
<1>4. /\ phase = "serve" /\ s \in todo /\ phase' = "serve" /\ s \notin todo'
      /\ UNCHANGED <<alive, cached, setBack>>
  BY <1>1 DEF Turn
<1>5. untilConnect'[s] \in Nat /\ untilConnect'[s] >= 1 /\ untilConnect'[s] <= MaxAmount
  BY <1>1, AttemptsTInv
<1>6. WaitIsReal(s)' /\ WaitForAttempt(s)'
  BY <1>1, <1>2, <1>4, <1>5, Types, Intervals
     DEF WaitOK, WaitIsReal, WaitForAttempt, Watched, Ahead, Behind, Rests, MaxOf
<1> QED
  BY <1>1, <1>2, <1>3, <1>4, <1>5, <1>6, Types, Intervals, TurnTInv DEF WaitOK

LEMMA OpenGetsReadyTInv ==
    ASSUME TInv, IInv', NEW s \in Sockets, OpenGetsReady(s) PROVE TInv'
<1> USE DEF TInv
<1>1. /\ Turn(s) /\ Settles(s) /\ UNCHANGED stale /\ s \notin stale
      /\ link[s] = "SentHandshake"
      /\ link' = [link EXCEPT ![s] = "Connected"]
      /\ waited' = [waited EXCEPT ![s] = 0]
  BY DEF OpenGetsReady
<1>2. link'[s] = "Connected" /\ waited'[s] = 0
  BY <1>1 DEF ScheduleTypeOK
<1>3. TypesAfter /\ OthersAreLeft(s)
  BY <1>1, AttemptsTInv DEF TypesAfter, OthersAreLeft, ScheduleTypeOK, Links
<1>4. UNCHANGED setBack
  BY <1>1 DEF Turn
<1>5. untilConnect'[s] \in Nat /\ untilConnect'[s] <= MaxAmount
  BY <1>1, AttemptsTInv
<1>6. WaitIsReal(s)' /\ WaitForAttempt(s)'
  BY <1>1, <1>2, <1>5, Types, Intervals DEF WaitIsReal, WaitForAttempt, Behind, MaxOf, Turn
<1> QED
  BY <1>1, <1>2, <1>3, <1>4, <1>5, <1>6, Types, Intervals, TurnTInv

LEMMA OpenGetsLeftReadyTInv ==
    ASSUME TInv, IInv', NEW s \in Sockets, OpenGetsLeftReady(s) PROVE TInv'
<1> USE DEF TInv
<1>1. /\ Turn(s) /\ Settles(s) /\ UNCHANGED <<stale, waited>> /\ s \in stale
      /\ link[s] = "SentHandshake" /\ untilConnect[s] = 0
      /\ link' = [link EXCEPT ![s] = "Connected"]
  BY DEF OpenGetsLeftReady
<1>2. link'[s] = "Connected"
  BY <1>1 DEF ScheduleTypeOK
<1>3. TypesAfter /\ OthersAreLeft(s)
  BY <1>1, AttemptsTInv DEF TypesAfter, OthersAreLeft, ScheduleTypeOK, Links
<1>4. /\ phase = "serve" /\ s \in todo /\ phase' = "serve" /\ s \notin todo'
      /\ UNCHANGED <<alive, cached, setBack>>
  BY <1>1 DEF Turn
<1>5. untilConnect'[s] \in Nat /\ untilConnect'[s] >= 1 /\ untilConnect'[s] <= MaxAmount
  BY <1>1, AttemptsTInv
<1>6. WaitIsReal(s)' /\ WaitForAttempt(s)'
  BY <1>1, <1>2, <1>4, <1>5, Types, Intervals
     DEF WaitOK, WaitIsReal, WaitForAttempt, Watched, Ahead, Behind, Rests, MaxOf
<1> QED
  BY <1>1, <1>2, <1>3, <1>4, <1>5, <1>6, Types, Intervals, TurnTInv DEF WaitOK

LEMMA OpenFindsEndTInv ==
    ASSUME TInv, IInv', NEW s \in Sockets, OpenFindsEnd(s) PROVE TInv'
<1> USE DEF TInv
<1>1. /\ Turn(s) /\ Attempts(s) /\ UNCHANGED waited /\ stale' = stale \ {s} /\ s \in stale
      /\ link[s] = "SentHandshake" /\ untilConnect[s] = 0
      /\ link' = [link EXCEPT ![s] = "Disconnected"]
  BY DEF OpenFindsEnd, Attempts
<1>2. link'[s] = "Disconnected"
  BY <1>1 DEF ScheduleTypeOK
<1>3. TypesAfter /\ OthersAreLeft(s)
  BY <1>1, AttemptsTInv DEF TypesAfter, OthersAreLeft, ScheduleTypeOK, Links
<1>4. /\ phase = "serve" /\ s \in todo /\ phase' = "serve" /\ s \notin todo'
      /\ UNCHANGED <<alive, cached, setBack>>
  BY <1>1 DEF Turn
<1>5. untilConnect'[s] \in Nat /\ untilConnect'[s] >= 1 /\ untilConnect'[s] <= MaxAmount
  BY <1>1, AttemptsTInv
<1>6. WaitIsReal(s)' /\ WaitForAttempt(s)'
  BY <1>1, <1>2, <1>4, <1>5, Types, Intervals
     DEF WaitOK, WaitIsReal, WaitForAttempt, Watched, Ahead, Behind, Rests, MaxOf
<1> QED
  BY <1>1, <1>2, <1>3, <1>4, <1>5, <1>6, Types, Intervals, TurnTInv DEF WaitOK

LEMMA EndTickTInv == ASSUME TInv, IInv', EndTick PROVE TInv'
<1> USE DEF TInv
<1>1. /\ phase = "serve" /\ phase' = "rest" /\ todo = {}
      /\ UNCHANGED <<alive, stale, sinceScan, delay, untilConnect, setBack, waited, cached, link,
                     todo, sockets, scanning, throughout>>
  BY DEF EndTick, scanVars, clocks
<1>2. ScheduleTypeOK'
  BY <1>1 DEF ScheduleTypeOK, IInv
<1>3. ScansInTime'
  BY <1>1, Types DEF ScansInTime, ScheduleTypeOK
<1>4. ASSUME NEW s \in Sockets PROVE WaitOK(s)'
  BY <1>1 DEF WaitOK, WaitIsReal, WaitForScan, WaitForAttempt, Watched, Ahead, Behind, Rests
<1> QED
  BY <1>2, <1>3, <1>4

-----------------------------------------------------------------------------
LEMMA ClientStartsTInv ==
    ASSUME TInv, IInv', NEW s \in Sockets, ClientStarts(s) PROVE TInv'
<1> USE DEF TInv
<1>1. /\ s \notin sockets /\ sockets' = sockets \cup {s} /\ alive' = alive \cup {s}
      /\ UNCHANGED <<scanning, throughout, stale, sinceScan, delay, untilConnect, setBack, waited,
                     phase, cached, link, todo>>
  BY DEF ClientStarts, SocketComes, search, clocks, tickVars
<1>2. ScheduleTypeOK'
  BY <1>1 DEF ScheduleTypeOK, IInv
<1>3. ScansInTime'
  BY <1>1 DEF ScansInTime
<1>4. s \notin alive
  BY <1>1 DEF ScheduleTypeOK
<1>5. ASSUME NEW c \in Sockets PROVE WaitOK(c)'
  BY <1>1, <1>4 DEF WaitOK, WaitIsReal, WaitForScan, WaitForAttempt, Watched, Ahead, Behind, Rests
<1> QED
  BY <1>2, <1>3, <1>5

\* A client that leaves is waited for no more; its session is stale.
LEMMA LeavesTInv ==
    ASSUME TInv, IInv', NEW s \in Sockets, Leaves(s), alive' \subseteq sockets',
           scanning' = scanning, throughout' \in {throughout, throughout \ {s}}
    PROVE  TInv'
<1> USE DEF TInv
<1>1. /\ alive' = alive \ {s}
      /\ stale' = IF s \in alive /\ link[s] \in {"SentHandshake", "Connected"}
                    THEN stale \cup {s} ELSE stale
      /\ UNCHANGED <<sinceScan, delay, untilConnect, setBack, phase, cached, link, todo>>
  BY DEF Leaves, tickVars
<1>2. /\ waited' \in [Sockets -> Nat] /\ waited'[s] = 0
      /\ \A c \in Sockets \ {s} : waited'[c] = waited[c]
  BY Types DEF Leaves, ScheduleTypeOK
<1>3. ScheduleTypeOK'
  BY <1>1, <1>2 DEF ScheduleTypeOK, IInv
<1>4. ScansInTime'
  BY <1>1, <1>2 DEF ScansInTime
<1>5. ASSUME NEW c \in Sockets \ {s} PROVE WaitOK(c)'
  BY <1>1, <1>2, <1>5
     DEF WaitOK, WaitIsReal, WaitForScan, WaitForAttempt, Watched, Ahead, Behind, Rests
<1>6. WaitOK(s)'
  <2>1. WaitOK(s)
    OBVIOUS
  <2>2. WaitIsReal(s)' /\ WaitForScan(s)'
    BY <1>1, <1>2, <2>1, Types, Intervals DEF WaitOK, WaitIsReal, WaitForScan
  <2>3. WaitForAttempt(s)'
    BY <1>1, <1>2, <2>1, Types, Intervals DEF WaitOK, WaitForAttempt, Ahead, Behind, Rests, MaxOf
  <2> QED
    BY <1>1, <2>1, <2>2, <2>3 DEF WaitOK
<1> QED
  BY <1>3, <1>4, <1>5, <1>6

LEMMA ClientStepTInv == ASSUME TInv, IInv', NEW s \in Sockets, ClientStep(s) PROVE TInv'
<1>1. CASE ClientStarts(s)
  BY <1>1, ClientStartsTInv
<1>2. CASE ClientEnds(s)
  BY <1>2, LeavesTInv DEF ClientEnds, SocketGoes, Leaves, search, TInv, ScheduleTypeOK
<1>3. CASE ClientCrashes(s)
  BY <1>3, LeavesTInv DEF ClientCrashes, Leaves, scanVars, TInv, ScheduleTypeOK
<1> QED
  BY <1>1, <1>2, <1>3 DEF ClientStep

LEMMA StutterTInv == ASSUME TInv, UNCHANGED allVars PROVE TInv'
<1>1. UNCHANGED <<sockets, scanning, iter, rest, queue, found, throughout, sometime, alive, stale,
                  sinceScan, delay, untilConnect, setBack, waited, phase, cached, link, todo>>
  BY DEF allVars, scanVars, schedVars, clocks, tickVars
<1>2. ScheduleTypeOK' /\ ScansInTime'
  BY <1>1 DEF TInv, ScheduleTypeOK, ScanTypeOK, ScansInTime
<1>3. ASSUME NEW s \in Sockets PROVE WaitOK(s)'
  BY <1>1 DEF TInv, WaitOK, WaitIsReal, WaitForScan, WaitForAttempt, Watched, Ahead, Behind, Rests
<1> QED
  BY <1>2, <1>3 DEF TInv

LEMMA TickStepTInv == ASSUME TInv, IInv', TickStep PROVE TInv'
  BY ScanGoesOnTInv, TakeScanTInv, ListConnectionsTInv, TooEarlyTInv, ReadsAndWritesTInv,
     OpenSendsHandshakeTInv, OpenGetsReadyTInv, OpenGetsLeftReadyTInv, OpenFindsEndTInv,
     EndTickTInv
     DEF TickStep, Serve

LEMMA StepTInv == ASSUME TInv, IInv', [ScheduleNext]_allVars PROVE TInv'
<1>1. CASE ClockStep
  <2>1. PICK k \in Nat \ {0} : SetAhead(k) \/ SetBack(k)
    BY <1>1, Intervals DEF ClockStep
  <2> QED
    BY <2>1, SetAheadTInv, SetBackTInv
<1> QED
  BY <1>1, ElapseTInv, BeginTickTInv, TickStepTInv, ClientStepTInv, StutterTInv DEF ScheduleNext

-----------------------------------------------------------------------------
\* A step of the schedule is one of the scan, of the clients, or none of either.
LEMMA StepIsScanStep == ASSUME [ScheduleNext]_allVars PROVE [ScanNext]_scanVars
<1>1. CASE Elapse \/ ClockStep
  BY <1>1 DEF Elapse, ClockStep, SetAhead, SetBack
<1>2. CASE BeginTick
  BY <1>2 DEF BeginTick, ScanNext
<1>3. CASE TickStep
  BY <1>3 DEF TickStep, ScanGoesOn, TakeScan, ListConnections, Serve, TooEarly, ReadsAndWrites,
              OpenSendsHandshake, OpenGetsReady, OpenGetsLeftReady, OpenFindsEnd, Turn, EndTick,
              ScanNext, ScanStep
<1>4. CASE \E s \in Sockets : ClientStep(s)
  BY <1>4 DEF ClientStep, ClientStarts, ClientEnds, ClientCrashes, ScanNext, SocketStep
<1>5. CASE UNCHANGED allVars
  BY <1>5 DEF allVars
<1> QED
  BY <1>1, <1>2, <1>3, <1>4, <1>5 DEF ScheduleNext

\* The IO thread runs the scan as PathScan describes it, so that what is proved
\* of a scan holds of it (discord_rpc.cpp:259-265).
THEOREM ScansAreScans == ScheduleSpec => ScanSpec
<1>1. ScheduleInit => ScanInit
  BY DEF ScheduleInit
<1>2. [ScheduleNext]_allVars => [ScanNext]_scanVars
  BY StepIsScanStep
<1> QED
  BY <1>1, <1>2, PTL DEF ScheduleSpec, ScanSpec

LEMMA ScheduleInvariant == ScheduleSpec => []TInv
<1>1. ScheduleInit /\ IInv => TInv
  BY InitTInv
<1>2. TInv /\ IInv' /\ [ScheduleNext]_allVars => TInv'
  BY StepTInv
<1> QED
  BY <1>1, <1>2, ScansAreScans, Invariant, PTL DEF ScheduleSpec

\* Types, with the bounds of the backoff and of the clocks (backoff.h:28-46).
THEOREM ScheduleTypes == ScheduleSpec => []ScheduleTypeOK
  BY ScheduleInvariant, PTL DEF TInv

\* A client that stays is connected in bounded time, whatever the intervals, the
\* directories and the other clients (discord_rpc.cpp:259-265, 309-312).
THEOREM IsConnectedInTime == ScheduleSpec => []ConnectedInTime
<1>1. TInv => ConnectedInTime
  <2>1. SUFFICES ASSUME TInv, NEW s \in Watched PROVE waited[s] <= Patience + setBack
    BY DEF ConnectedInTime
  <2>2. s \in Sockets
    BY TreeAssumption DEF Watched
  <2>3. Ahead(s) \in Nat /\ Behind(s) \in Nat
    BY <2>1, <2>2, Types DEF TInv, Ahead, Behind, MaxOf
  <2>4. Patience = Opening + MaxAmount
    BY DEF Patience, Opening
  <2> QED
    BY <2>1, <2>2, <2>3, <2>4, Types, Intervals
       DEF TInv, WaitOK, WaitForScan, WaitForAttempt, Links
<1> QED
  BY <1>1, ScheduleInvariant, PTL
=============================================================================
