----------------------------- MODULE MCSockets -----------------------------
(* Sockets, and SocketsWin if windows is set, on small instances.  The        *)
(* program has sockets of every kind and starts and closes those in used.     *)
EXTENDS SocketsWin

VARIABLES windows, used

MCInit ==
  /\ SocketInit
  /\ windows \in BOOLEAN
  /\ used \in {Clients \cup Accepted \cup Listeners, Clients \cup Datagrams}

InUse == started' \subseteq used /\ assoc \ used \subseteq assoc'

MCNext == /\ \/ ~windows /\ SocketNext
             \/ windows /\ NextWin
          /\ InUse
          /\ UNCHANGED <<windows, used>>

MCLoop == /\ \/ ~windows /\ (Dispatch \/ Requests)
             \/ windows /\ (DispatchWin \/ RequestsWin)
          /\ UNCHANGED <<windows, used>>

MCWait == /\ wake
          /\ \/ ~windows /\ Poll
             \/ windows /\ WaitWin
          /\ UNCHANGED <<windows, used>>

mcVars == <<socketVars, windows, used>>

MCSpec == MCInit /\ [][MCNext]_mcVars /\ WF_mcVars(MCLoop) /\ WF_mcVars(MCWait)
=============================================================================
