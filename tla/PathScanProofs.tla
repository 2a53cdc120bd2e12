--------------------------- MODULE PathScanProofs ---------------------------
(***************************************************************************)
(* What a path scan finds, for every tree of directories and however       *)
(* clients come and go.  The argument is that of graph search: directories *)
(* the scan is done with lead only to such directories, to the one it      *)
(* reads and to those that wait in the queue; when nothing is left to read *)
(* they are closed under descent.                                          *)
(***************************************************************************)
EXTENDS PathScan, TLAPS

\* The directories in the queue, and with the one that is read.
Waiting == {queue[i] : i \in 1 .. Len(queue)}
Pending == Waiting \cup ({iter} \ {NoDir})

Kids(d) == {e \in SubDirs(d) : EntersDir(d, e)}

\* The clients to find in d.
Steady(d) == {s \in throughout \cap IpcSockets : DirOf[s] = d}

\* Where the search is and what it has before it.
SearchOK ==
    /\ ~scanning => iter = NoDir
    /\ iter = NoDir => rest = {}
    /\ iter # NoDir => rest \subseteq Dots(iter) \cup SubDirs(iter) \cup Sockets
    /\ iter # NoDir => \A s \in rest \cap Sockets : DirOf[s] = iter /\ s \in sometime
    /\ scanning => sockets \subseteq sometime

\* The search stays within its bounds.
WithinBounds == Pending \subseteq Possible

\* V are the directories the scan is done with.
Done(V) ==
    /\ Root \in V \cup Pending
    /\ \A d \in V \ Unsure : Steady(d) \subseteq found /\ Kids(d) \subseteq V \cup Pending
    /\ iter # NoDir => /\ Steady(iter) \subseteq found \cup rest
                       /\ Kids(iter) \subseteq V \cup Pending \cup rest
Progress == scanning => \E V \in SUBSET Dirs : Done(V)

IInv == ScanTypeOK /\ SearchOK /\ WithinBounds /\ Progress /\ ScanFindsAll /\ ScanFindsOnly

-----------------------------------------------------------------------------
\* A directory that may be entered from one within bounds is within bounds.
LEMMA PossibleDescends ==
    ASSUME NEW d \in Possible, NEW e \in Kids(d)
    PROVE  e \in Possible
<1> USE DEF Possible, Covered
<1>1. SUFFICES ASSUME NEW S \in SUBSET Dirs, Closed(S, Dirs) PROVE e \in S
  BY DEF Kids, SubDirs
<1>2. d \in S
  BY <1>1
<1> QED
  BY <1>1, <1>2, TreeAssumption DEF Kids, EntersDir, Closed

LEMMA RootIsPossible == Root \in Possible
  BY TreeAssumption DEF Possible, Covered, Closed

\* Directories closed under descent hold all that a scan is sure to search.
LEMMA ClosedHoldsCertain ==
    ASSUME NEW V \in SUBSET Dirs, Root \in V,
           \A d \in V \ Unsure : Kids(d) \subseteq V
    PROVE  Certain \subseteq V
<1>1. Closed(V, Dirs \ Unsure)
  BY TreeAssumption DEF Closed, Kids, EntersDir, SubDirs
<1> QED
  BY <1>1 DEF Certain, Covered

\* Queue operations.
LEMMA WaitingAppends ==
    ASSUME queue \in Seq(Dirs), NEW e \in Dirs, queue' = Append(queue, e)
    PROVE  Waiting' = Waiting \cup {e}
  BY DEF Waiting

LEMMA WaitingPops ==
    ASSUME queue \in Seq(Dirs), queue # <<>>, queue' = Tail(queue)
    PROVE  /\ Head(queue) \in Waiting
           /\ Waiting = Waiting' \cup {Head(queue)}
<1>1. Len(queue) \in Nat /\ Len(queue) > 0 /\ Head(queue) = queue[1]
  OBVIOUS
<1>2. Len(queue') = Len(queue) - 1 /\ \A i \in 1 .. Len(queue') : queue'[i] = queue[i + 1]
  BY <1>1
<1>3. \A i \in 1 .. Len(queue) : i = 1 \/ (i - 1 \in 1 .. Len(queue') /\ queue'[i - 1] = queue[i])
  BY <1>1, <1>2
<1>4. \A i \in 1 .. Len(queue') : i + 1 \in 1 .. Len(queue)
  BY <1>1, <1>2
<1> QED
  BY <1>1, <1>2, <1>3, <1>4 DEF Waiting

-----------------------------------------------------------------------------
LEMMA InitEstablishes == ASSUME ScanInit PROVE IInv
<1>0. <<>> \in Seq(Dirs) /\ FALSE \in BOOLEAN
  OBVIOUS
<1>1. ScanTypeOK /\ SearchOK
  <2>1. ScanTypeOK
    BY <1>0 DEF ScanInit, ScanTypeOK
  <2>2. SearchOK
    BY DEF ScanInit, SearchOK
  <2> QED
    BY <2>1, <2>2
<1>2. Waiting = {}
  BY DEF ScanInit, Waiting
<1>3. WithinBounds /\ Progress /\ ScanFindsAll /\ ScanFindsOnly
  BY <1>2 DEF ScanInit, WithinBounds, Pending, Progress, ScanFindsAll, ScanFindsOnly
<1> QED
  BY <1>1, <1>3 DEF IInv

\* Opening a directory d: what is then known of the iterator.
LEMMA OpensLists ==
    ASSUME IInv, NEW d \in Dirs, Opens(d), sockets' = sockets, throughout' \subseteq sockets
    PROVE  \/ /\ iter' = d /\ iter' # NoDir
              /\ rest' \subseteq Dots(d) \cup SubDirs(d) \cup Sockets
              /\ rest' \subseteq Dirs \cup Sockets
              /\ \A s \in rest' \cap Sockets : DirOf[s] = d /\ s \in sockets
              /\ Steady(d)' \subseteq rest'
              /\ Kids(d) \subseteq rest'
           \/ d \in Unsure /\ iter' = NoDir /\ rest' = {}
  BY TreeAssumption
     DEF IInv, ScanTypeOK, Opens, Listing, Dots, SubDirs, Kids, Steady

LEMMA StartScanPreserves == ASSUME IInv, StartScan PROVE IInv'
<1> USE DEF IInv
<1>1. /\ sockets' = sockets /\ throughout' = sockets /\ sometime' = sockets /\ scanning'
      /\ found' = {} /\ queue' = <<>> /\ Opens(Root)
  BY DEF StartScan
<1>2. Waiting' = {}
  BY <1>1 DEF Waiting
<1>3. Root \in Dirs
  BY TreeAssumption
<1>4. CASE /\ iter' = Root /\ iter' # NoDir
           /\ rest' \subseteq Dots(Root) \cup SubDirs(Root) \cup Sockets
           /\ rest' \subseteq Dirs \cup Sockets
           /\ \A s \in rest' \cap Sockets : DirOf[s] = Root /\ s \in sockets
           /\ Steady(Root)' \subseteq rest'
           /\ Kids(Root) \subseteq rest'
  <2>1. ScanTypeOK' /\ SearchOK'
    BY <1>1, <1>3, <1>4 DEF ScanTypeOK, SearchOK
  <2>2. Pending' = {Root}
    BY <1>2, <1>4 DEF Pending
  <2>3. WithinBounds'
    BY <2>2, RootIsPossible DEF WithinBounds
  <2>4. Done({})'
    BY <1>4, <2>2 DEF Done, Kids
  <2> QED
    BY <1>1, <2>1, <2>3, <2>4 DEF Progress, ScanFindsAll, ScanFindsOnly
<1>5. CASE Root \in Unsure /\ iter' = NoDir /\ rest' = {}
  <2>1. ScanTypeOK' /\ SearchOK'
    BY <1>1, <1>3, <1>5 DEF ScanTypeOK, SearchOK
  <2>2. Pending' = {}
    BY <1>2, <1>5 DEF Pending
  <2>3. Done({Root})'
    BY <1>5, <2>2 DEF Done
  <2> QED
    BY <1>1, <1>3, <2>1, <2>2, <2>3 DEF Progress, ScanFindsAll, ScanFindsOnly, WithinBounds
<1> QED
  BY <1>1, <1>3, <1>4, <1>5, OpensLists

\* An entry leaves `rest`; what of it the steps of ReadStep share.
LEMMA EntryIsOfIter ==
    ASSUME IInv, NEW e, ReadEntry(e)
    PROVE  /\ scanning /\ iter # NoDir /\ iter \in Dirs /\ e \in rest
           /\ e \in Dots(iter) \cup SubDirs(iter) \cup Sockets
           /\ e \in Sockets => DirOf[e] = iter /\ e \in sometime
  BY DEF IInv, ReadEntry, SearchOK, ScanTypeOK

LEMMA QueueDirPreserves == ASSUME IInv, NEW e, QueueDir(e) PROVE IInv'
<1> USE DEF IInv
<1>1. /\ scanning /\ iter # NoDir /\ iter \in Dirs /\ e \in Dirs
      /\ rest' = rest \ {e} /\ queue' = Append(queue, e)
      /\ UNCHANGED <<sockets, scanning, iter, throughout, sometime, found>>
      /\ e \in Kids(iter)
  BY EntryIsOfIter, TreeAssumption DEF QueueDir, ReadEntry, Kids, SubDirs
<1>2. Waiting' = Waiting \cup {e}
  BY <1>1, WaitingAppends DEF ScanTypeOK
<1>3. Pending' = Pending \cup {e}
  BY <1>1, <1>2 DEF Pending
<1>4. iter \in Possible
  BY <1>1 DEF WithinBounds, Pending
<1>5. ScanTypeOK' /\ SearchOK'
  BY <1>1 DEF ScanTypeOK, SearchOK
<1>6. WithinBounds'
  BY <1>1, <1>3, <1>4, PossibleDescends DEF WithinBounds
<1>7. ASSUME NEW V \in SUBSET Dirs, Done(V) PROVE Done(V)'
  BY <1>1, <1>3, <1>7, TreeAssumption DEF Done, Steady, Kids, ScanTypeOK
<1> QED
  BY <1>1, <1>5, <1>6, <1>7 DEF Progress, ScanFindsAll, ScanFindsOnly

LEMMA FindSocketPreserves == ASSUME IInv, NEW e, FindSocket(e) PROVE IInv'
<1> USE DEF IInv
<1>1. /\ scanning /\ iter # NoDir /\ iter \in Dirs /\ e \in IpcSockets
      /\ rest' = rest \ {e} /\ found' = found \cup {e}
      /\ UNCHANGED <<sockets, scanning, iter, throughout, sometime, queue>>
      /\ DirOf[e] = iter /\ e \in sometime
  BY EntryIsOfIter, TreeAssumption DEF FindSocket, ReadEntry
<1>2. Pending' = Pending
  BY <1>1 DEF Pending, Waiting
<1>3. iter \in Possible
  BY <1>1 DEF WithinBounds, Pending
<1>4. ScanTypeOK' /\ SearchOK'
  BY <1>1, TreeAssumption DEF ScanTypeOK, SearchOK
<1>5. ASSUME NEW V \in SUBSET Dirs, Done(V) PROVE Done(V)'
  BY <1>1, <1>2, <1>5, TreeAssumption DEF Done, Steady, Kids, SubDirs
<1> QED
  BY <1>1, <1>2, <1>3, <1>4, <1>5 DEF Progress, ScanFindsAll, ScanFindsOnly, WithinBounds

LEMMA IgnorePreserves == ASSUME IInv, NEW e, Ignore(e) PROVE IInv'
<1> USE DEF IInv
<1>1. /\ scanning /\ iter # NoDir /\ iter \in Dirs
      /\ rest' = rest \ {e}
      /\ UNCHANGED <<sockets, scanning, iter, throughout, sometime, queue, found>>
      /\ e \notin Kids(iter) /\ e \notin IpcSockets
  BY EntryIsOfIter, TreeAssumption, AcyclicAssumption DEF Ignore, ReadEntry, Kids, SubDirs, Dots
<1>2. Pending' = Pending
  BY <1>1 DEF Pending, Waiting
<1>3. ScanTypeOK' /\ SearchOK'
  BY <1>1 DEF ScanTypeOK, SearchOK
<1>4. ASSUME NEW V \in SUBSET Dirs, Done(V) PROVE Done(V)'
  BY <1>1, <1>2, <1>4 DEF Done, Steady
<1> QED
  BY <1>1, <1>2, <1>3, <1>4 DEF Progress, ScanFindsAll, ScanFindsOnly, WithinBounds

LEMMA EndOfDirPreserves == ASSUME IInv, EndOfDir PROVE IInv'
<1> USE DEF IInv
<1>1. /\ scanning /\ iter # NoDir /\ iter \in Dirs /\ rest = {} /\ iter' = NoDir
      /\ UNCHANGED <<sockets, scanning, rest, queue, found, throughout, sometime>>
  BY DEF EndOfDir, ScanTypeOK
<1>2. Pending = Pending' \cup {iter}
  BY <1>1 DEF Pending, Waiting
<1>3. ScanTypeOK' /\ SearchOK' /\ WithinBounds'
  BY <1>1, <1>2 DEF ScanTypeOK, SearchOK, WithinBounds
<1>4. PICK d \in Dirs : d = iter
  BY <1>1
<1>5. ASSUME NEW V \in SUBSET Dirs, Done(V) PROVE Done(V \cup {d})'
  BY <1>1, <1>2, <1>4, <1>5 DEF Done, Steady
<1>6. Progress'
  BY <1>1, <1>5 DEF Progress
<1> QED
  BY <1>1, <1>3, <1>6 DEF ScanFindsAll, ScanFindsOnly

LEMMA OpenNextPreserves == ASSUME IInv, OpenNext PROVE IInv'
<1> USE DEF IInv
<1>0. PICK d \in Dirs : d = Head(queue)
  BY DEF OpenNext, ScanTypeOK
<1>1. /\ scanning /\ iter = NoDir /\ queue # <<>> /\ queue' = Tail(queue) /\ Opens(d)
      /\ UNCHANGED <<sockets, scanning, found, throughout, sometime>>
  BY <1>0 DEF OpenNext, Popped
<1>2. d \in Dirs /\ queue' \in Seq(Dirs)
  BY <1>1 DEF ScanTypeOK
<1>3. d \in Waiting /\ Waiting = Waiting' \cup {d}
  BY <1>0, <1>1, WaitingPops DEF ScanTypeOK
<1>4. CASE /\ iter' = d /\ iter' # NoDir
           /\ rest' \subseteq Dots(d) \cup SubDirs(d) \cup Sockets
           /\ rest' \subseteq Dirs \cup Sockets
           /\ \A s \in rest' \cap Sockets : DirOf[s] = d /\ s \in sockets
           /\ Steady(d)' \subseteq rest'
           /\ Kids(d) \subseteq rest'
  <2>1. Pending' = Pending
    BY <1>1, <1>3, <1>4 DEF Pending
  <2>2. ScanTypeOK' /\ SearchOK' /\ WithinBounds'
    BY <1>1, <1>2, <1>4, <2>1 DEF ScanTypeOK, SearchOK, WithinBounds
  <2>3. ASSUME NEW V \in SUBSET Dirs, Done(V) PROVE Done(V)'
    BY <1>1, <1>4, <2>1, <2>3 DEF Done, Steady
  <2>4. Progress'
    BY <1>1, <2>3 DEF Progress
  <2> QED
    BY <1>1, <2>2, <2>4 DEF ScanFindsAll, ScanFindsOnly
<1>5. CASE d \in Unsure /\ iter' = NoDir /\ rest' = {}
  <2>1. Pending = Pending' \cup {d}
    BY <1>1, <1>2, <1>3, <1>5, TreeAssumption DEF Pending
  <2>2. ScanTypeOK' /\ SearchOK' /\ WithinBounds'
    BY <1>1, <1>2, <1>5, <2>1 DEF ScanTypeOK, SearchOK, WithinBounds
  <2>3. ASSUME NEW V \in SUBSET Dirs, Done(V) PROVE Done(V \cup {d})'
    BY <1>1, <1>5, <2>1, <2>3 DEF Done, Steady
  <2>4. Progress'
    BY <1>1, <2>3 DEF Progress
  <2> QED
    BY <1>1, <2>2, <2>4 DEF ScanFindsAll, ScanFindsOnly
<1>6. throughout' \subseteq sockets
  BY <1>1 DEF ScanTypeOK
<1> QED
  BY <1>1, <1>2, <1>4, <1>5, <1>6, OpensLists

LEMMA EndScanPreserves == ASSUME IInv, EndScan PROVE IInv'
<1> USE DEF IInv
<1>1. /\ scanning /\ iter = NoDir /\ queue = <<>> /\ scanning' = FALSE
      /\ UNCHANGED <<sockets, iter, rest, queue, found, throughout, sometime>>
  BY DEF EndScan, Exhausted, ScanTypeOK
<1>2. Pending = {} /\ Pending' = {}
  BY <1>1 DEF Pending, Waiting
<1>3. ScanTypeOK' /\ SearchOK' /\ WithinBounds' /\ ScanFindsOnly' /\ Progress'
  BY <1>1, <1>2 DEF ScanTypeOK, SearchOK, WithinBounds, ScanFindsOnly, Progress
<1>4. PICK V \in SUBSET Dirs : Done(V)
  BY <1>1 DEF Progress
<1>5. Certain \subseteq V
  BY <1>2, <1>4, ClosedHoldsCertain DEF Done
<1>6. ScanFindsAll'
  BY <1>1, <1>4, <1>5 DEF ScanFindsAll, Done, Steady, Certain
<1> QED
  BY <1>3, <1>6

LEMMA SocketComesPreserves ==
    ASSUME IInv, NEW s \in Sockets, SocketComes(s) PROVE IInv'
<1> USE DEF IInv
<1>1. /\ sockets' = sockets \cup {s}
      /\ rest' = rest \/ (iter = DirOf[s] /\ rest' = rest \cup {s})
      /\ sometime' = IF scanning THEN sometime \cup {s} ELSE sometime
      /\ UNCHANGED <<scanning, iter, queue, found, throughout>>
  BY DEF SocketComes, search
<1>2. Pending' = Pending /\ (iter = DirOf[s] => iter # NoDir)
  BY <1>1, TreeAssumption DEF Pending, Waiting
<1>3. ScanTypeOK'
  BY <1>1 DEF ScanTypeOK
<1>4. SearchOK'
  BY <1>1, <1>2, TreeAssumption DEF SearchOK
<1>5. ASSUME NEW V \in SUBSET Dirs, Done(V) PROVE Done(V)'
  BY <1>1, <1>2, <1>5 DEF Done, Steady
<1>6. Progress'
  BY <1>1, <1>5 DEF Progress
<1> QED
  BY <1>1, <1>2, <1>3, <1>4, <1>6 DEF ScanFindsAll, ScanFindsOnly, WithinBounds

LEMMA SocketGoesPreserves ==
    ASSUME IInv, NEW s \in Sockets, SocketGoes(s) PROVE IInv'
<1> USE DEF IInv
<1>1. /\ sockets' = sockets \ {s}
      /\ rest' = rest \/ rest' = rest \ {s}
      /\ throughout' = throughout \ {s}
      /\ UNCHANGED <<scanning, iter, queue, found, sometime>>
  BY DEF SocketGoes, search
<1>2. Pending' = Pending
  BY <1>1 DEF Pending, Waiting
<1>3. ScanTypeOK' /\ SearchOK'
  BY <1>1 DEF ScanTypeOK, SearchOK
<1>4. ASSUME NEW V \in SUBSET Dirs, Done(V) PROVE Done(V)'
  BY <1>1, <1>2, <1>4, TreeAssumption DEF Done, Steady, Kids, SubDirs
<1> QED
  BY <1>1, <1>2, <1>3, <1>4 DEF Progress, ScanFindsAll, ScanFindsOnly, WithinBounds

LEMMA StutterPreserves == ASSUME IInv, UNCHANGED scanVars PROVE IInv'
<1>1. ScanTypeOK' /\ SearchOK' /\ ScanFindsAll' /\ ScanFindsOnly'
  BY DEF IInv, scanVars, ScanTypeOK, SearchOK, ScanFindsAll, ScanFindsOnly
<1>2. Pending' = Pending
  BY DEF scanVars, Pending, Waiting
<1>3. WithinBounds' /\ Progress'
  BY <1>2 DEF IInv, scanVars, WithinBounds, Progress, Done, Steady
<1> QED
  BY <1>1, <1>3 DEF IInv

LEMMA StepPreserves == ASSUME IInv, [ScanNext]_scanVars PROVE IInv'
  BY StartScanPreserves, QueueDirPreserves, FindSocketPreserves, IgnorePreserves,
     EndOfDirPreserves, OpenNextPreserves, EndScanPreserves, SocketComesPreserves,
     SocketGoesPreserves, StutterPreserves
     DEF ScanNext, ScanStep, ReadStep, ReadDir, SocketStep

LEMMA Invariant == ScanSpec => []IInv
<1>1. ScanInit => IInv
  BY InitEstablishes
<1>2. IInv /\ [ScanNext]_scanVars => IInv'
  BY StepPreserves
<1> QED
  BY <1>1, <1>2, PTL DEF ScanSpec

\* A scan finds every client that is there all the time, in every tree of
\* directories (connection_unix.cpp:160-185, 232-252).
THEOREM FindsAll == ScanSpec => []ScanFindsAll
  BY Invariant, PTL DEF IInv

\* A scan finds only IPC sockets that exist while it runs, and none outside the
\* directories it is meant to search (connection_unix.cpp:115-132).
THEOREM FindsOnly == ScanSpec => []ScanFindsOnly
  BY Invariant, PTL DEF IInv
=============================================================================
