----------------------------- MODULE MCSchedule -----------------------------
EXTENDS Schedule, TLC

\* The temporary directory with two directories of sandboxed clients, one of
\* which has another inside and one of which may be unreadable, and a directory
\* that is not searched.
CONSTANTS root, snap, inner, flatpak, other, noDir, client, stray

MCDirs == {root, snap, inner, flatpak, other}
MCParent == (snap :> root) @@ (inner :> snap) @@ (flatpak :> root) @@ (other :> root)
MCDirOf == (client :> inner) @@ (stray :> other)
=============================================================================
