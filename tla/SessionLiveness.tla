--------------------------- MODULE SessionLiveness ---------------------------
(***************************************************************************)
(* What SessionCoordinator eventually does.                                *)
(*                                                                         *)
(* Every call it makes is answered: IAuthenticationClient, ITokenStore and *)
(* ICapabilityProbe promise to call back exactly once, and the network     *)
(* ones carry a timeout.  Nothing obliges the user to do anything but to   *)
(* retry a failed deletion, and a store that is asked again and again to   *)
(* delete a profile's entry does so in the end.                            *)
(***************************************************************************)
EXTENDS SessionCoordinator

FairAnswers ==
  /\ WF_vars(ProbeFinished)
  /\ WF_vars(AuthAnswered)
  /\ WF_vars(WhoAmIAnswered)
  /\ \A p \in Profiles : WF_vars(StoreAnswers(p))

FairRetries ==
  /\ WF_vars(RetryDeletion)
  /\ \A p \in Profiles : SF_vars(DeleteSucceeds(p))

FairSpec == Spec /\ FairAnswers /\ FairRetries

-----------------------------------------------------------------------------

\* Nothing is outstanding anywhere.
AtRest ==
  /\ probe = "none" /\ request = NoRequest
  /\ \A p \in Profiles : fifo[p].ops = << >>
  /\ state \notin Transitional

\* Once nothing but retries comes from the user, every flow ends and every
\* queue empties, however inputs and answers were interleaved before: the
\* session does not loop by itself and leaves no queue undispatched.
ComesToRest == <>[][Answer \/ RetryDeletion]_vars => <>[]AtRest

\* "impossible to silently lose or starve": whatever else fails, restarts or
\* is switched to meanwhile, each stalled deletion is carried out, or the
\* process ends.
EveryStallClears == \A p \in Profiles : IsStalled(p) ~> ~IsStalled(p)
=============================================================================
