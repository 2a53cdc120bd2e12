-------------------------- MODULE MCRpcConnection ---------------------------
\* The instance of RpcConnection TLC checks: a pipe of MaxInbox frames.
EXTENDS RpcConnection, RpcConnectionProofs
=============================================================================
