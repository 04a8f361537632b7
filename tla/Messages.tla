------------------------------ MODULE Messages ------------------------------
(***************************************************************************)
(* The process that sends SMS: one-time passwords (Otp) and notices        *)
(* (Notices) share its memory, its shutdown and its end. The other         *)
(* processes of Worker share only the outbox with it.                      *)
(***************************************************************************)
EXTENDS Otp, Notices

CONSTANT Self
ASSUME SelfIsWorker == Self \in Worker

mvars == <<ovars, nvars>>

MInit == OInit /\ NInit

\* Both beforeApplicationShutdown hooks.
ShutDown == "stop" \in Disturbances /\ accepting /\ Stop /\ Close(Self)

\* The hooks have returned: the queue is drained, nothing is being delivered and
\* no notice is being sent.
ShutDownEnds == MayExit /\ batch[Self] = <<>> /\ Reborn /\ Restart(Self)

Crash(w) ==
  /\ "crash" \in Disturbances
  /\ Restart(w)
  /\ IF w = Self THEN Reborn ELSE UNCHANGED ovars

MNext ==
  \/ OStep /\ UNCHANGED nvars
  \/ NStep /\ UNCHANGED ovars
  \/ ShutDown
  \/ ShutDownEnds
  \/ \E w \in Worker : Crash(w)

\* Database calls and the provider's (10 second limit) return, the loop of the
\* shutdown goes on. Nothing is assumed of those who ask for codes or enter them,
\* nor of the ends of processes.
MFairness ==
  /\ \A r \in Request : WF_mvars(IssueStep(r) /\ UNCHANGED nvars)
                        /\ WF_mvars(DeliverStep(r) /\ UNCHANGED nvars)
  /\ WF_mvars(DrainOne /\ UNCHANGED nvars)

MSpec == MInit /\ [][MNext]_mvars /\ MFairness

=============================================================================
