----------------------------- MODULE MCSessions -----------------------------
\* Instances for TLC of DiscordRpc with its connections seen as sessions.
EXTENDS MCDiscordRpc, Sessions
=============================================================================
