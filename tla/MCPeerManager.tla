---------------------------- MODULE MCPeerManager ----------------------------
(* What the threads of PeerManager share, for TLC: the trackers of the     *)
(* seeds, and the compressor behind the packets they send.  The trackers   *)
(* know of a packet only that it is sent, so that they and the envelope    *)
(* are explored one at a time.                                             *)
EXTENDS MCSeedRegistration, MCPacketSecurity

PeerManagerInit == Init /\ MCInit

PeerManagerNext ==
    \/ MCInit /\ Next /\ UNCHANGED <<envelopeVars, lzoVars>>
    \/ Init /\ MCNext /\ UNCHANGED vars

PeerManagerSpec ==
    /\ PeerManagerInit
    /\ [][PeerManagerNext]_<<vars, envelopeVars, lzoVars>>
    /\ Fairness
===============================================================================
