---------------------------- MODULE MCDiscordRpc ----------------------------
\* Instances of DiscordRpc for TLC: each .cfg chooses the build, the clients and
\* the calls one question needs.
EXTENDS DiscordRpc

CONSTANTS x, y, alice, bob, playing, cleared

\* Handlers of an application that only watches connections, of one that also
\* takes join requests, and of one that takes everything.
Telling == {"ready", "disconnected"}
TellingSets == {Telling}
JoiningSets == {Telling \cup {"joinRequest"}}
FullSets == {HandlerNames}
=============================================================================
