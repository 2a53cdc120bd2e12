---------------------------- MODULE MCMsgQueue ----------------------------
\* Instances of MsgQueue for TLC: one producer (MCMsgQueue.cfg), and the two
\* producers SendQueue really has (MCMsgQueueTwo.cfg).
EXTENDS MsgQueue

CONSTANTS a, b, app, io
=============================================================================
