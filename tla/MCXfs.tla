-------------------------------- MODULE MCXfs --------------------------------
(* Four parts of the XFS device service, which share no state: a behaviour is *)
(* about one of them.                                                         *)
EXTENDS ProtectionRecovery, CommandLease, DeviceService, PinPad

CONSTANTS c1, c2, c3, s1, s2

TheGroups == <<"g1", "g2">>
TheServices == (c1 :> s1) @@ (c2 :> s1) @@ (c3 :> s2)
TheDevices == <<"idc", "cdm">>

VARIABLE part

xfsVars == <<part, protVars, leaseVars, serviceVars, pinVars>>

XfsInit ==
  /\ part \in {"protection", "lease", "service", "pin"}
  /\ ProtInit /\ LeaseInit /\ ServiceInit /\ PinInit
  /\ part # "lease" => client

XfsNext ==
  /\ UNCHANGED part
  /\ \/ part = "protection" /\ ProtNext /\ UNCHANGED <<leaseVars, serviceVars, pinVars>>
     \/ part = "lease" /\ LeaseNext /\ UNCHANGED <<protVars, serviceVars, pinVars>>
     \/ part = "service" /\ ServiceNext /\ UNCHANGED <<protVars, leaseVars, pinVars>>
     \/ part = "pin" /\ PinNext /\ UNCHANGED <<protVars, leaseVars, serviceVars>>

\* The steps of a part that a behaviour is not about are never enabled.
XfsFairness == ProtFairness /\ LeaseFairness /\ ServiceFairness /\ PinFairness

XfsSpec == XfsInit /\ [][XfsNext]_xfsVars /\ XfsFairness

\* Nothing waits for ever: recovery ends, so that startup does, every command
\* settles behind whichever failed, every connect() and dispose() ends, and every
\* input gives the port back.
XfsSettles == RecoveryEnds /\ EveryCallSettles /\ ServiceSettles /\ InputsEnd
=============================================================================
