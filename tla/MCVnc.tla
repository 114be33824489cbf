-------------------------------- MODULE MCVnc --------------------------------
(***************************************************************************)
(* The two halves of the VNC server, each on its own: `unit' is the half   *)
(* this behaviour is of.  "updates" has one client, frames of two tiles,   *)
(* two colours and two sizes; "clients" has two clients, one of which may  *)
(* come back as a third.                                                   *)
(***************************************************************************)
EXTENDS VncClients, VncUpdates

VARIABLE unit

\* The half that does not run starts in one of its initial states.
MCInit ==
  /\ Init /\ UpdInit /\ unit \in {"updates", "clients"}
  /\ unit = "clients" => w = NoSize /\ cw = CHOOSE size \in Sizes : TRUE

MCNext ==
  /\ UNCHANGED unit
  /\ \/ unit = "updates" /\ UpdNext /\ UNCHANGED vars
     \/ unit = "clients" /\ Next /\ UNCHANGED updVars

\* The fairness of UpdFairSpec and FairSpec, each for its own half.
Runs(half, A) == unit = half /\ A
MCFair ==
  /\ WF_updVars(Runs("updates", WriterRuns))
  /\ WF_vars(Runs("clients", AcceptNothing)) /\ WF_vars(Runs("clients", ShutdownJoin))
  /\ \A c \in Clients :
       /\ WF_vars(Runs("clients", ReaderThread(c))) /\ WF_vars(Runs("clients", StartReader(c)))
       /\ WF_vars(Runs("clients", WriterRun(c)))
       /\ WF_vars(Runs("clients", ~alive[c] /\ WriterSent(c)))

MCSpec == MCInit /\ [][MCNext]_<<unit, vars, updVars>> /\ MCFair
=============================================================================
