------------------------------ MODULE PathScan ------------------------------
(***************************************************************************)
(* BaseConnection::ScanAvailablePaths of connection_unix.cpp: a search for *)
(* IPC sockets below the temporary directory, while clients come and go.   *)
(*                                                                         *)
(* A directory is read through an iterator, entry by entry; directories    *)
(* met on the way wait in a queue.  Below the root only the directories    *)
(* of sandboxed clients are searched, below these every directory is.      *)
(*                                                                         *)
(* On Windows all pipes are in one flat directory: the same search with    *)
(* Dirs = {Root}.                                                          *)
(***************************************************************************)
EXTENDS Naturals, Sequences, FiniteSets

CONSTANTS
    Dirs, Root,         \* the directories; Root is what GetTempPath returns
    NoDir,              \* an iterator without a stream
    Parent,             \* where each directory but Root is listed
    IpcDirs,            \* those whose name begins with "snap." or ".flatpak"
    Unsure,             \* those opendir may fail on
    Sockets,            \* the sockets clients may create
    DirOf,              \* where each socket is
    IpcSockets          \* those whose name is "discord-ipc-" and a digit

ASSUME TreeAssumption ==
    /\ Root \in Dirs /\ NoDir \notin Dirs
    /\ Parent \in [Dirs \ {Root} -> Dirs]
    /\ DirOf \in [Sockets -> Dirs]
    /\ IpcDirs \subseteq Dirs /\ Unsure \subseteq Dirs
    /\ IpcSockets \subseteq Sockets
    /\ Dirs \cap Sockets = {}

VARIABLES
    sockets,            \* the sockets there are
    scanning,           \* ScanAvailablePaths is running
    iter,               \* the directory the iterator reads
    rest,               \* what readdir has not returned of it
    queue,              \* directory_queue
    found,              \* paths
    \* history
    throughout,         \* the sockets there have been since the scan began
    sometime            \* ... or were at some moment of it

scanVars == <<sockets, scanning, iter, rest, queue, found, throughout, sometime>>
search == <<scanning, iter, queue, found>>

SubDirs(d) == {e \in Dirs \ {Root} : Parent[e] = d}

\* "." and "..".
Dots(d) == {d} \cup (IF d = Root THEN {} ELSE {Parent[d]})

\* No directory is its own, or its parent's, parent.
ASSUME AcyclicAssumption == \A d \in Dirs : Dots(d) \cap SubDirs(d) = {}

Listing(d) == Dots(d) \cup SubDirs(d) \cup {s \in sockets : DirOf[s] = d}

\* Mutants of EntersDir: the predicate holds on every level, and on none.
EntersDirByName(d, e) == e \in IpcDirs
EntersDirAny(d, e) == TRUE
\* discord_ipc_directory_predicate
EntersDir(d, e) == d = Root => e \in IpcDirs

ScanInit ==
    /\ sockets \in SUBSET Sockets
    /\ scanning = FALSE
    /\ iter = NoDir
    /\ rest = {}
    /\ queue = <<>>
    /\ found = {}
    /\ throughout = {}
    /\ sometime = {}

\* opendir, which may fail.
Opens(d) ==
    \/ /\ iter' = d
       /\ rest' = Listing(d)
    \/ /\ d \in Unsure
       /\ iter' = NoDir
       /\ rest' = {}

StartScan ==
    /\ ~scanning
    /\ scanning' = TRUE
    /\ Opens(Root)
    /\ queue' = <<>>
    /\ found' = {}
    /\ throughout' = sockets
    /\ sometime' = sockets
    /\ UNCHANGED sockets

-----------------------------------------------------------------------------
\* readdir returns an entry.
ReadEntry(e) ==
    /\ scanning
    /\ e \in rest
    /\ rest' = rest \ {e}
    /\ UNCHANGED <<sockets, scanning, iter, throughout, sometime>>

QueueDir(e) ==
    /\ ReadEntry(e)
    /\ e \in Dirs \ Dots(iter)
    /\ EntersDir(iter, e)
    /\ queue' = Append(queue, e)
    /\ UNCHANGED found

\* The search returns the path and goes on behind it when it is called again.
FindSocket(e) ==
    /\ ReadEntry(e)
    /\ e \in IpcSockets
    /\ found' = found \cup {e}
    /\ UNCHANGED queue

Ignore(e) ==
    /\ ReadEntry(e)
    /\ \/ e \in Sockets \ IpcSockets
       \/ e \in Dots(iter)
       \/ e \in Dirs /\ ~EntersDir(iter, e)
    /\ UNCHANGED <<queue, found>>

EndOfDir ==
    /\ scanning
    /\ iter # NoDir
    /\ rest = {}
    /\ iter' = NoDir
    /\ UNCHANGED <<sockets, scanning, rest, queue, found, throughout, sometime>>

\* Mutant of Popped: directory_queue.pop() is forgotten.
PoppedNot == queue
Popped == Tail(queue)

\* The next directory of the queue, until one can be opened.
OpenNext ==
    /\ scanning
    /\ iter = NoDir
    /\ queue # <<>>
    /\ Opens(Head(queue))
    /\ queue' = Popped
    /\ UNCHANGED <<sockets, scanning, found, throughout, sometime>>

\* Nothing is open and nothing waits.
Exhausted == iter = NoDir /\ queue = <<>>

EndScan ==
    /\ scanning
    /\ Exhausted
    /\ scanning' = FALSE
    /\ UNCHANGED <<sockets, iter, rest, queue, found, throughout, sometime>>

ReadDir(d) == QueueDir(d) \/ Ignore(d)
ReadStep == \E e \in rest : ReadDir(e) \/ FindSocket(e)

ScanStep == ReadStep \/ EndOfDir \/ OpenNext \/ EndScan

-----------------------------------------------------------------------------
(***************************************************************************)
(* Clients create and remove their sockets.  Whether readdir returns an    *)
(* entry that comes or goes while the directory is open is unspecified.    *)
(***************************************************************************)
SocketComes(s) ==
    /\ s \in Sockets \ sockets
    /\ sockets' = sockets \cup {s}
    /\ rest' \in {rest} \cup (IF iter = DirOf[s] THEN {rest \cup {s}} ELSE {})
    /\ sometime' = IF scanning THEN sometime \cup {s} ELSE sometime
    /\ UNCHANGED <<search, throughout>>

SocketGoes(s) ==
    /\ s \in sockets
    /\ sockets' = sockets \ {s}
    /\ rest' \in {rest, rest \ {s}}
    /\ throughout' = throughout \ {s}
    /\ UNCHANGED <<search, sometime>>

SocketStep == \E s \in Sockets : SocketComes(s) \/ SocketGoes(s)

ScanNext == StartScan \/ ScanStep \/ SocketStep

ScanSpec == ScanInit /\ [][ScanNext]_scanVars

-----------------------------------------------------------------------------
ScanTypeOK ==
    /\ sockets \subseteq Sockets
    /\ scanning \in BOOLEAN
    /\ iter \in Dirs \cup {NoDir}
    /\ rest \subseteq Dirs \cup Sockets
    /\ queue \in Seq(Dirs)
    /\ found \subseteq Sockets
    /\ throughout \subseteq sockets \cap sometime
    /\ sometime \subseteq Sockets

\* The directories below Root that a search covers when those in D open: of the
\* ones right below Root those of sandboxed clients, below these every one.
\* (The least set closed under this.)
Closed(S, D) ==
    /\ Root \in S
    /\ Root \in D => SubDirs(Root) \cap IpcDirs \subseteq S
    /\ \A d \in (S \cap D) \ {Root} : SubDirs(d) \subseteq S

Covered(D) == {d \in Dirs : \A S \in SUBSET Dirs : Closed(S, D) => d \in S}

\* What is searched whichever directories open, and what is if all of them do.
Certain == Covered(Dirs \ Unsure) \ Unsure
Possible == Covered(Dirs)

\* A scan that has ended has found every client that was there all the time,
\* however directories and sockets are listed, come and go, and whichever other
\* directories cannot be opened (connection_unix.cpp:160-185, 232-252).
ScanFindsAll ==
    ~scanning =>
        \A s \in throughout \cap IpcSockets : DirOf[s] \in Certain => s \in found

\* And nothing else: what it found is an IPC socket that existed while the scan
\* ran, in Root or below the directory of a sandboxed client
\* (connection_unix.cpp:115-132).
ScanFindsOnly ==
    \A s \in found : s \in sometime \cap IpcSockets /\ DirOf[s] \in Possible
=============================================================================
