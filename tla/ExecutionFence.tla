--------------------------- MODULE ExecutionFence ---------------------------
(***************************************************************************)
(* The Redis mirror of the claim, and the events a run publishes under it. *)
(* A publication is two steps in the code - a read of the row, then a Redis *)
(* script that compares the mirror and appends the event in one go - with  *)
(* one recovery when the script refuses.  Every step of JobLease that      *)
(* touches the mirror is here conjoined with what it does to it; the other *)
(* steps leave it alone.                                                   *)
(***************************************************************************)
EXTENDS JobLease

VARIABLES
  mirror,   \* the fence key: the claim it names and when it expires
  spoken,   \* the claim whose event was written to the job's log last
  pub,      \* per process: how far its current publication has come
  ended     \* history: when the owner cancelled

fenceVars == <<mirror, spoken, pub, ended>>
fvars == <<vars, fenceVars>>

----------------------------------------------------------------------------
NoMirror == [tok |-> 0, until |-> 0]

Live == mirror.until > clock
Names(tok) == Live /\ mirror.tok = tok

\* The operations of the mirror, each one Redis command or script.
Install(tok) == mirror' = [tok |-> tok, until |-> clock + Lease]
Revoke(tok) == mirror' = IF Names(tok) THEN NoMirror ELSE mirror

\* refresh extends our own key, heal (SET NX) fills an empty one; neither
\* displaces another's.
Renew(tok) ==
  mirror' = IF Live /\ mirror.tok # tok THEN mirror
            ELSE [tok |-> tok, until |-> clock + Lease]

Keep == UNCHANGED mirror
BestEffort(operation) == operation \/ (Faults /\ Keep)

Says(w, what) == pub' = [pub EXCEPT ![w] = what]
Quiet(w) == Says(w, "quiet")

FInit == Init /\ mirror = NoMirror /\ spoken = 0 /\ ended = NULL
              /\ pub = [w \in Process |-> "quiet"]

(* What the lease's steps do to the mirror.                                *)

\* A new generation revokes the outgoing claim's mirror under the row lock.
\* A token somebody cleared leaves nothing to name it by.
ClaimMirrored(w) ==
  /\ Claim(w) \/ ClaimUnanswered(w)
  /\ IF row'.gen # row.gen /\ row.token # 0 THEN Revoke(row.token) ELSE Keep
  /\ UNCHANGED <<spoken, pub, ended>>

\* ... and may have done so when the claim is then not committed.
ClaimAborted(w) ==
  /\ Requeue(w) \/ ClaimRaises(w)
  /\ Keep \/ (Claimable(row, clock) /\ row.token # 0 /\ Revoke(row.token))
  /\ UNCHANGED <<spoken, pub, ended>>

\* An unconditional SET, after the claim's commit, for the lease's full length.
FenceSet(w) ==
  /\ FenceInstalled(w) /\ Install(own[w].tok) /\ UNCHANGED <<spoken, pub, ended>>

\* It raised: refused, or taken and the answer lost.
FenceNotSet(w) ==
  /\ FenceUnavailable(w) /\ (Keep \/ Install(own[w].tok))
  /\ UNCHANGED <<spoken, pub, ended>>

BeatMirrored(w) ==
  /\ \/ /\ Heartbeat(w)
        /\ IF BeatAccepted(own[w], row, row.deadline, clock)
           THEN BestEffort(Renew(own[w].tok)) ELSE Keep
     \/ /\ HeartbeatWithProgress(w)
        /\ IF IsCurrentOwner(own[w], row)
           THEN BestEffort(Renew(own[w].tok)) ELSE Keep
  /\ UNCHANGED <<spoken, pub, ended>>

\* The beat's commit fails after the mirror was renewed; it is retried later.
BeatLost(w) ==
  /\ Faults /\ pc[w] \in {"running", "unbeating"}
  /\ BeatAccepted(own[w], row, row.deadline, clock)
  /\ Renew(own[w].tok)
  /\ UNCHANGED <<vars, spoken, pub, ended>>

HandBackMirrored(w) ==
  /\ HandBack(w) /\ BestEffort(Revoke(own[w].tok)) /\ UNCHANGED <<spoken, pub, ended>>

CancelMirrored ==
  /\ Cancel /\ ended' = clock
  /\ IF row.token # 0 THEN BestEffort(Revoke(row.token)) ELSE Keep
  /\ UNCHANGED <<spoken, pub>>

(* Publishing an event, from the graph run.                                *)

\* Mutant of Authorized: any ownership that was ever granted authorizes.
AuthorizedOnce(w) == own[w].tok > 0

Authorized(w) == IsCurrentOwner(own[w], row)

\* The row is read, without a lock: authorized, or refused - also when the
\* read itself fails.
Authorize(w) ==
  /\ pc[w] \in InGraph /\ pub[w] \in {"quiet", "healed"}
  /\ \/ /\ Authorized(w)
        /\ Says(w, IF pub[w] = "quiet" THEN "authorized" ELSE "reauthorized")
     \/ /\ Faults \/ ~Authorized(w)
        /\ Says(w, IF pub[w] = "quiet" THEN "refused" ELSE "stale")
  /\ UNCHANGED <<vars, mirror, spoken, ended>>

\* Mutant of Written: the script does not compare the mirror.
WrittenUnfenced(w) == spoken' = own[w].tok

\* The script: the mirror must name the claim the read authorized.
Written(w) == Names(own[w].tok) /\ spoken' = own[w].tok

Write(w) ==
  /\ pub[w] \in {"authorized", "reauthorized"}
  /\ \/ Written(w) /\ Quiet(w)
     \/ Faults /\ UNCHANGED spoken /\ Quiet(w)      \* best effort: dropped
     \/ /\ ~Names(own[w].tok) /\ UNCHANGED spoken
        /\ Says(w, IF pub[w] = "authorized" THEN "refused" ELSE "stale")
  /\ UNCHANGED <<vars, mirror, ended>>

\* Mutant of HealAllowed: it trusts the deadline the process holds.
HealByDeadline(w) == clock <= own[w].until

HealAllowed(w) == BeatAccepted(own[w], row, row.deadline, clock)

\* reverify_and_heal_fence: a heartbeat of its own, on first refusal only.
Heal(w) ==
  /\ pub[w] = "refused"
  /\ \/ /\ HealAllowed(w)
        /\ row' = [row EXCEPT !.lease = clock + Lease]
        /\ BestEffort(Renew(own[w].tok)) /\ Says(w, "healed")
     \/ /\ Faults \/ ~HealAllowed(w)
        /\ UNCHANGED row /\ Says(w, "stale")
        /\ Keep \/ (HealAllowed(w) /\ Renew(own[w].tok))
  /\ UNCHANGED <<clock, lifeVars, brokerVars, procVars, reaper, spoken, ended>>

\* The refusal that stands is raised out of the graph; other exceptions may
\* come at any time.
CrashSilent(w) == Crash(w) /\ Quiet(w) /\ UNCHANGED <<mirror, spoken, ended>>

\* The graph ends between publications; a drain or a death cuts one short.
GraphEnds(w) ==
  /\ pub[w] = "quiet" /\ StillOwner(w) /\ UNCHANGED fenceVars
GraphCut(w) ==
  /\ Drain(w) \/ Die(w)
  /\ Quiet(w) /\ UNCHANGED <<mirror, spoken, ended>>

----------------------------------------------------------------------------
Mirrored(w) == \/ ClaimMirrored(w) \/ ClaimAborted(w)
               \/ FenceSet(w) \/ FenceNotSet(w)
               \/ BeatMirrored(w) \/ BeatLost(w) \/ HandBackMirrored(w)
Publish(w) == Authorize(w) \/ Write(w) \/ Heal(w)

\* The steps of a process that touch neither the mirror nor a publication.
Elsewhere(w) ==
  /\ \/ Take(w) \/ GuardReads(w) \/ GuardFails(w) \/ ClaimRefused(w)
     \/ Refuse(w) \/ Start(w)
     \/ Register(w) \/ Finalize(w) \/ Return(w) \/ FinalizeCrash(w)
     \/ Relaunch(w) \/ Confirm(w) \/ BrokerReturns(w)
  /\ UNCHANGED fenceVars

Outside ==
  /\ \/ LaunchAccepted \/ LaunchRaises \/ MarkLaunchFailed \/ ApiDies
     \/ Reap \/ ReaperDies \/ Tick
  /\ UNCHANGED fenceVars

FNext == \/ CancelMirrored \/ Outside
         \/ \E w \in Process :
              \/ Mirrored(w) \/ Publish(w) \/ Elsewhere(w)
              \/ CrashSilent(w) \/ GraphEnds(w) \/ GraphCut(w)

FSpec == FInit /\ [][FNext]_fvars

----------------------------------------------------------------------------
Publication == {"quiet", "authorized", "refused", "healed", "reauthorized", "stale"}

\* The mirror, the log and the publications keep the shape the code gives them.
FenceTypeOK ==
  /\ mirror \in [tok : Nat, until : Nat] /\ spoken \in Nat
  /\ pub \in [Process -> Publication]
  /\ ended \in Time

\* The event log never goes back to an earlier claim: once the new owner has
\* been heard, no event of a superseded one follows, however the read of the
\* row, the script, the takeover and the mirror's expiry interleave
\* (execution_publisher's check-then-write, redis._EMIT_LUA).
EventLogOrderedByClaim == [][spoken' >= spoken]_fvars

\* "A mirror that outlives its claim can never be renewed ... so it can only
\* expire" (LeaseRepository.evict_owner): not by a late beat, not by the
\* publish seam's recovery.
OutlivedMirrorOnlyExpires ==
  [][mirror.tok # row.token /\ mirror'.tok = mirror.tok =>
       mirror'.until <= mirror.until]_fvars

\* The owner's cancel silences the run within one lease, even when its revoke
\* was lost and whatever the run had already checked.
CancelledFallsSilent ==
  [][ended # NULL /\ spoken' # spoken => clock < ended + Lease]_fvars

\* The recovery at the publish seam is a heartbeat and nothing more: with the
\* mirror in place the system still makes only the lease's steps.
LeaseProtocol == Spec

(* The strengthening under which these are inductive.                      *)

\* Between the read that authorized it and the script.
Writing(w) == pub[w] \in {"authorized", "reauthorized"}

PublishesFromGraph == \A w \in Process : pub[w] # "quiet" => pc[w] \in InGraph

\* Both heartbeats have ended only where no heartbeat would be accepted again.
UnkeptIsRefused ==
  \A w \in Process : pc[w] = "unkept" => ~BeatAccepted(own[w], row, row.deadline, clock)

MirrorFollowsClaims ==
  /\ mirror.tok <= row.epoch /\ spoken <= row.epoch
  /\ mirror.until <= clock + Lease
  /\ \A w \in Process : pc[w] = "claimed" => mirror.tok # own[w].tok
  /\ \A v, w \in Process : own[v].tok = own[w].tok => v = w \/ own[v].tok = 0

\* A writer the mirror still names has not been overtaken, and after a cancel
\* it lives on the lease it had.
WritersAreLatest ==
  /\ ended # NULL => row.status \in Terminal
  /\ \A w \in Process : Writing(w) /\ Names(own[w].tok) =>
       spoken <= own[w].tok /\ (ended # NULL => mirror.until <= ended + Lease)

FenceInv ==
  /\ FenceTypeOK
  /\ PublishesFromGraph
  /\ UnkeptIsRefused
  /\ MirrorFollowsClaims
  /\ WritersAreLatest
=============================================================================
