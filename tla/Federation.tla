----------------------------- MODULE Federation -----------------------------
(* Delegation between ships (runtime/handler/delegate_executor.go, a2a.go,    *)
(* fleet.go, internal/federation, tool/agent_task_tools.go).  A delegate task *)
(* of this ship hands its work to a peer with one call, pauses, and asks for  *)
(* the status when a callback or the stale sweep wakes it.  A call runs at    *)
(* the peer under the request's context: when the caller stops waiting, the   *)
(* peer can no longer write.                                                  *)
EXTENDS Naturals, Sequences, FiniteSets, SequencesExt

CONSTANTS
    FleetPeers,      \* peers imported by the periodic fleet refresh
    YamlPeers,       \* peers configured by hand, discovered at startup
    Delegates,       \* delegate tasks of this ship
    Addresses,       \* what delegate_to may hold: a peer, by its name or its id
    MaxCalls,        \* calls ever made
    MaxFedFaults,    \* failed refreshes, lost answers and callbacks, crashes
    MaxLiveChildren  \* sub-tasks one parent may have in flight

ASSUME FederationConstants ==
    /\ MaxCalls \in Nat /\ MaxFedFaults \in Nat /\ MaxLiveChildren \in Nat
    /\ FleetPeers \cap YamlPeers = {}
    /\ Addresses \subseteq [to : FleetPeers \cup YamlPeers, byName : BOOLEAN]

VARIABLES
    fdKnown,      \* peers whose tools the registry holds
    fdTask,       \* the delegate tasks
    fdCalls,      \* every call made, oldest first
    fdRows,       \* tasks the peers accepted, oldest first
    fdCallbacks,  \* callbacks on their way back, by row
    fdFaults

federationVars == <<fdKnown, fdTask, fdCalls, fdRows, fdCallbacks, fdFaults>>
NoPeer == "nobody"
MaxSpawnDepth == 1

FedFault == fdFaults < MaxFedFaults /\ fdFaults' = fdFaults + 1
LiveStatus == {"pending", "running", "paused"}
CallOf(t) == {i \in DOMAIN fdCalls : fdCalls[i].from = t /\ fdCalls[i].live}

-----------------------------------------------------------------------------
(* The registry of peers' tools                                               *)

\* The startup walk over configured peers: a failed discovery is skipped.
DiscoverPeers == SUBSET YamlPeers

\* One snapshot of the peers this refresh could search and read replaces the
\* previous one; the peers configured by hand are kept.
RefreshedTools(found) == (fdKnown \cap YamlPeers) \cup found

RefreshPeers ==
    /\ \E found \in SUBSET FleetPeers :
          /\ fdKnown' = RefreshedTools(found)
          /\ IF found = FleetPeers THEN UNCHANGED fdFaults ELSE FedFault
    /\ UNCHANGED <<fdTask, fdCalls, fdRows, fdCallbacks>>

\* The peer's copy of the tool by its name, or the only copy there is.
RemoteHandlerForPeer(task) ==
    IF task.byName /\ task.to \in fdKnown THEN task.to
    ELSE IF Cardinality(fdKnown) = 1 THEN CHOOSE p \in fdKnown : TRUE
    ELSE NoPeer

-----------------------------------------------------------------------------
(* Creating a delegate task: from the chat, or from another task's iteration  *)
(* within the bounds on depth and on live children.                           *)

CountLiveChildren(parent) ==
    Cardinality({t \in Delegates : fdTask[t].parent = parent /\ fdTask[t].status \in LiveStatus})

SpawnGuard(parent) ==
    /\ fdTask[parent].depth + 1 <= MaxSpawnDepth
    /\ CountLiveChildren(parent) < MaxLiveChildren

Created(t, address, parent, depth) ==
    /\ fdTask[t].status = "new"
    /\ fdTask' = [fdTask EXCEPT ![t] = [@ EXCEPT !.status = "pending", !.to = address.to, !.byName = address.byName,
                                                 !.parent = parent, !.depth = depth]]
    /\ UNCHANGED <<fdKnown, fdCalls, fdRows, fdCallbacks, fdFaults>>

CreateFromChat(t) ==
    \E a \in Addresses : Created(t, a, t, 0)

CreateFromTask(t) ==
    \E parent \in Delegates \ {t}, a \in Addresses :
        /\ fdTask[parent].status = "running" /\ SpawnGuard(parent)
        /\ Created(t, a, parent, fdTask[parent].depth + 1)

-----------------------------------------------------------------------------
(* One iteration of the executor                                              *)

ClaimDelegate(t) ==
    /\ fdTask[t].status = "pending"
    /\ fdTask' = [fdTask EXCEPT ![t].status = "running"]
    /\ UNCHANGED <<fdKnown, fdCalls, fdRows, fdCallbacks, fdFaults>>

\* The call row is written before the request leaves; a peer of the fleet is
\* called without one.
Invoke(t, tool, peer) ==
    /\ Len(fdCalls) < MaxCalls
    /\ fdCalls' = Append(fdCalls, [from |-> t, tool |-> tool, ship |-> peer, about |-> fdTask[t].peer,
                                   live |-> TRUE, stage |-> "wire", reply |-> "none", row |-> 0,
                                   out |-> IF peer \in YamlPeers THEN "pending" ELSE "none",
                                   in |-> "none"])
    /\ UNCHANGED <<fdKnown, fdTask, fdRows, fdCallbacks, fdFaults>>

\* No handler for the peer: the iteration fails and is tried again.
IterationFails(t) ==
    /\ fdTask' = [fdTask EXCEPT ![t].status = "pending"]
    /\ UNCHANGED <<fdKnown, fdCalls, fdRows, fdCallbacks, fdFaults>>

\* The first iteration submits the work, the later ones ask for its status.
RunDelegate(t) ==
    /\ fdTask[t].status = "running" /\ CallOf(t) = {}
    /\ LET peer == RemoteHandlerForPeer(fdTask[t])
       IN  IF peer = NoPeer THEN IterationFails(t)
           ELSE Invoke(t, IF fdTask[t].peer = 0 THEN "accept" ELSE "status", peer)

-----------------------------------------------------------------------------
(* The peer's server                                                          *)

\* A request whose token is neither the shared one nor one the validator can
\* check is refused; the validator knows nothing until the fleet is up.
AuthRefuses(i) ==
    /\ fdCalls[i].stage = "wire" /\ FedFault
    /\ fdCalls' = [fdCalls EXCEPT ![i] = [@ EXCEPT !.stage = "over", !.reply = "error"]]
    /\ UNCHANGED <<fdKnown, fdTask, fdRows, fdCallbacks>>

\* Any other request is given a row and starts.
HandleInvoke(i) ==
    /\ fdCalls[i].stage = "wire"
    /\ fdCalls' = [fdCalls EXCEPT ![i] = [@ EXCEPT !.stage = "run", !.in = "running"]]
    /\ UNCHANGED <<fdKnown, fdTask, fdRows, fdCallbacks, fdFaults>>

\* agent_task_accept creates a task of the peer's own, which remembers who it
\* is for, or refuses an unknown tool in the allow-list.
AcceptTask(i) ==
    /\ fdCalls[i].stage = "run" /\ fdCalls[i].tool = "accept"
    /\ \/ /\ fdCalls[i].live
          /\ fdRows' = Append(fdRows, [ship |-> fdCalls[i].ship, origin |-> fdCalls[i].from, status |-> "pending"])
          /\ fdCalls' = [fdCalls EXCEPT ![i] = [@ EXCEPT !.stage = "ran", !.reply = "accepted", !.row = Len(fdRows')]]
       \/ /\ fdCalls' = [fdCalls EXCEPT ![i] = [@ EXCEPT !.stage = "ran", !.reply = "error"]]
          /\ UNCHANGED fdRows
    /\ UNCHANGED <<fdKnown, fdTask, fdCallbacks, fdFaults>>

\* agent_task_status reads the row of this ship with that id.
TaskStatusCall(i) ==
    /\ fdCalls[i].stage = "run" /\ fdCalls[i].tool = "status"
    /\ LET r == fdCalls[i].about
           seen == IF fdCalls[i].live /\ fdRows[r].ship = fdCalls[i].ship THEN fdRows[r].status ELSE "error"
       IN  fdCalls' = [fdCalls EXCEPT ![i] = [@ EXCEPT !.stage = "ran", !.reply = seen]]
    /\ UNCHANGED <<fdKnown, fdTask, fdRows, fdCallbacks, fdFaults>>

\* The outcome goes into the peer's row before the answer; a caller that has
\* gone cancelled the context of that write.
FinishCall(i) ==
    /\ fdCalls[i].stage = "ran"
    /\ LET state == IF fdCalls[i].reply = "error" THEN "failed" ELSE "done"
       IN  fdCalls' = [fdCalls EXCEPT ![i] = [@ EXCEPT !.stage = "over", !.in = IF fdCalls[i].live THEN state ELSE fdCalls[i].in]]
    /\ UNCHANGED <<fdKnown, fdTask, fdRows, fdCallbacks, fdFaults>>

-----------------------------------------------------------------------------
(* The answer, or its absence                                                 *)

Hangup(i, state) ==
    [fdCalls EXCEPT ![i] = [@ EXCEPT !.live = FALSE, !.out = IF fdCalls[i].out = "none" THEN "none" ELSE state]]

\* A submission without an answer fails the iteration; a poll pauses.
NoAnswer(t) ==
    fdTask' = [fdTask EXCEPT ![t].status = IF @ = "canceled" THEN @
                                           ELSE IF fdTask[t].peer = 0 THEN "pending" ELSE "paused"]

AnswerLost(t) ==
    /\ \E i \in CallOf(t) : fdCalls' = Hangup(i, "failed")
    /\ FedFault /\ NoAnswer(t)
    /\ UNCHANGED <<fdKnown, fdRows, fdCallbacks>>

AnswerRefused(t) ==
    /\ \E i \in CallOf(t) :
          fdCalls[i].stage = "over" /\ fdCalls[i].reply = "error" /\ fdCalls' = Hangup(i, "failed")
    /\ NoAnswer(t)
    /\ UNCHANGED <<fdKnown, fdRows, fdCallbacks, fdFaults>>

\* The peer's task id goes into progress with the pause that waits for it.
SubmitAnswered(t) ==
    /\ \E i \in CallOf(t) :
          /\ fdCalls[i].stage = "over" /\ fdCalls[i].reply = "accepted"
          /\ fdCalls' = Hangup(i, "done")
          /\ fdTask' = [fdTask EXCEPT ![t] = IF @.status = "canceled" THEN @
                                             ELSE [@ EXCEPT !.status = "paused", !.peer = fdCalls[i].row]]
    /\ UNCHANGED <<fdKnown, fdRows, fdCallbacks, fdFaults>>

PollIgnoresStatus(status) == "done"                 \* mutant: any answer ends the task

\* A terminal peer ends the task; any other status pauses it again.
PollOutcome(status) == IF status \in {"done", "failed", "canceled"} THEN "done" ELSE "paused"

PollAnswered(t) ==
    /\ \E i \in CallOf(t) :
          /\ fdCalls[i].stage = "over" /\ fdCalls[i].tool = "status" /\ fdCalls[i].reply # "error"
          /\ fdCalls' = Hangup(i, "done")
          /\ fdTask' = [fdTask EXCEPT ![t].status = IF @ = "canceled" THEN @ ELSE PollOutcome(fdCalls[i].reply)]
    /\ UNCHANGED <<fdKnown, fdRows, fdCallbacks, fdFaults>>

\* This ship dies during an iteration: the task is queued again with the
\* progress it had, and the call's row is never closed.
OriginCrash(t) ==
    /\ fdTask[t].status = "running" /\ FedFault
    /\ fdTask' = [fdTask EXCEPT ![t].status = "pending"]
    /\ fdCalls' = [i \in DOMAIN fdCalls |-> IF i \in CallOf(t) THEN [fdCalls[i] EXCEPT !.live = FALSE] ELSE fdCalls[i]]
    /\ UNCHANGED <<fdKnown, fdRows, fdCallbacks>>

-----------------------------------------------------------------------------
(* The peer's task, its callback, and what wakes the delegate                 *)

\* A task that ends by itself fires the callback; a person's cancellation does not.
PeerTaskEnds(r) ==
    /\ fdRows[r].status = "pending"
    /\ \E status \in {"done", "failed", "canceled"} :
          /\ fdRows' = [fdRows EXCEPT ![r].status = status]
          /\ fdCallbacks' = IF status = "canceled" THEN fdCallbacks ELSE fdCallbacks \cup {r}
    /\ UNCHANGED <<fdKnown, fdTask, fdCalls, fdFaults>>

\* The callback wakes the task that is paused on this row, if there is one.
CallbackArrives(r) ==
    /\ r \in fdCallbacks /\ fdCallbacks' = fdCallbacks \ {r}
    /\ fdTask' = [t \in Delegates |-> IF fdTask[t].status = "paused" /\ fdTask[t].peer = r
                                      THEN [fdTask[t] EXCEPT !.status = "pending"] ELSE fdTask[t]]
    /\ UNCHANGED <<fdKnown, fdCalls, fdRows, fdFaults>>

CallbackLost(r) ==
    /\ r \in fdCallbacks /\ fdCallbacks' = fdCallbacks \ {r} /\ FedFault
    /\ UNCHANGED <<fdKnown, fdTask, fdCalls, fdRows>>

WakeStale(t) ==
    /\ fdTask[t].status = "paused" /\ fdTask' = [fdTask EXCEPT ![t].status = "pending"]
    /\ UNCHANGED <<fdKnown, fdCalls, fdRows, fdCallbacks, fdFaults>>

\* Cancelling the delegate tells the peer nothing.
CancelDelegate(t) ==
    /\ fdTask[t].status \in LiveStatus /\ fdTask' = [fdTask EXCEPT ![t].status = "canceled"]
    /\ UNCHANGED <<fdKnown, fdCalls, fdRows, fdCallbacks, fdFaults>>

FederationInit ==
    /\ fdKnown \in DiscoverPeers
    /\ fdTask = [t \in Delegates |-> [status |-> "new", to |-> NoPeer, byName |-> FALSE,
                                      peer |-> 0, parent |-> t, depth |-> 0]]
    /\ fdCalls = <<>> /\ fdRows = <<>> /\ fdCallbacks = {} /\ fdFaults = 0

FederationIdle ==
    (\A t \in Delegates : fdTask[t].status \in {"done", "canceled"}) /\ UNCHANGED federationVars

FederationNext ==
    \/ RefreshPeers
    \/ \E t \in Delegates :
          \/ CreateFromChat(t) \/ CreateFromTask(t) \/ ClaimDelegate(t) \/ RunDelegate(t)
          \/ AnswerLost(t) \/ AnswerRefused(t) \/ SubmitAnswered(t) \/ PollAnswered(t)
          \/ OriginCrash(t) \/ WakeStale(t) \/ CancelDelegate(t)
    \/ \E i \in DOMAIN fdCalls : AuthRefuses(i) \/ HandleInvoke(i) \/ AcceptTask(i) \/ TaskStatusCall(i) \/ FinishCall(i)
    \/ \E r \in DOMAIN fdRows : PeerTaskEnds(r) \/ CallbackArrives(r) \/ CallbackLost(r)
    \/ FederationIdle

FederationSpec == FederationInit /\ [][FederationNext]_federationVars

-----------------------------------------------------------------------------
(* Properties                                                                 *)

\* A delegate that tracks a row tracks one accepted for it, whatever was lost
\* before, and no two delegates follow the same row.
TracksItsOwn ==
    \A t \in Delegates : fdTask[t].peer # 0 => fdRows[fdTask[t].peer].origin = t

\* A delegate is over only when the task it was following is.
EndsWithItsPeer ==
    \A t \in Delegates :
        fdTask[t].status = "done" => fdTask[t].peer # 0 /\ fdRows[fdTask[t].peer].status # "pending"

\* What the two audit trails say of one call: an answer the caller booked as
\* done is done at the peer too, and a row the peer leaves running for ever
\* belongs to a caller that stopped waiting.
AuditsAgree ==
    \A i \in DOMAIN fdCalls :
        /\ fdCalls[i].out = "done" => fdCalls[i].in = "done"
        /\ fdCalls[i].stage = "over" /\ fdCalls[i].in = "running" => ~ fdCalls[i].live

\* What a delegation promises: a delegate follows its own row to the end, and the
\* two ships never disagree about a call that was answered.
FederationSound == TracksItsOwn /\ EndsWithItsPeer /\ AuditsAgree
=============================================================================
