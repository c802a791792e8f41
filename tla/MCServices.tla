----------------------------- MODULE MCServices -----------------------------
(* What tasks and turns lean on: the notification journal, the acceptance     *)
(* review, the peers of the fleet, the token stores and the MCP connections.  *)
(* As in MCRuntime, a behaviour picks one component and runs it from any of   *)
(* its initial states while the others rest.                                  *)
EXTENDS NotificationJournal, AcceptanceReview, Federation, TokenStore, McpManager

CONSTANTS r1, r2, w1, w2

VARIABLE part      \* the component that runs

\* Two refs, every grouping of them, two dispatching goroutines.
MCRef == {r1, r2}
MCGroup == {{r1}, {r2}, {r1, r2}}
MCAutonomous == {{r1}}
MCWorker == {w1, w2}

\* Four pages, two of one organisation.
MCUrlBucket == <<"x", "x", "y", "z">>
MCReviewTasks ==
    {[version |-> 1, required |-> 1, diverse |-> TRUE], [version |-> 2, required |-> 0, diverse |-> TRUE]}
Tally(grounded, partial, hard, recheck) ==
    [grounded |-> grounded, partial |-> partial, hard |-> hard, soft |-> 0, recheck |-> recheck]
MCTallies == {Tally(2, 0, 0, {}), Tally(3, 1, 0, {}), Tally(1, 0, 1, {1}), Tally(0, 0, 0, {})}

\* Tasks for the fleet peer, addressed by its name.
MCAddresses == {[to |-> "a", byName |-> TRUE]}

\* Two callers in one process, one of them the proactive tick, and a second process.
MCCallerHome == [c \in {"request", "tick", "other"} |-> IF c = "other" THEN "q" ELSE "p"]
MCCallerLead == [c \in {"request", "tick", "other"} |-> IF c = "tick" THEN 1 ELSE 0]

\* The second configuration adds a server whose tool has the name of the first's.
MCMcpServers == <<{"a"}, {"a", "b"}>>
MCMcpNames == [s \in {"a", "b"} |-> {"x"}]

-----------------------------------------------------------------------------
ReviewRests == ReviewInit /\ rvTask = CHOOSE t \in ReviewTasks : TRUE
FederationRests == FederationInit /\ fdKnown = CHOOSE k \in DiscoverPeers : TRUE
TokenRests == TokenInit /\ otStore = "codex" /\ otFile = 0

ServicesInit ==
    /\ part \in {"journal", "review", "federation", "token", "mcp"}
    /\ Init
    /\ IF part = "review" THEN ReviewInit ELSE ReviewRests
    /\ IF part = "federation" THEN FederationInit ELSE FederationRests
    /\ IF part = "token" THEN TokenInit ELSE TokenRests
    /\ McpInit

ServicesNext ==
    \/ /\ part = "journal" /\ Next
       /\ UNCHANGED <<part, reviewVars, federationVars, tokenVars, mcpVars>>
    \/ /\ part = "review" /\ ReviewNext
       /\ UNCHANGED <<part, vars, federationVars, tokenVars, mcpVars>>
    \/ /\ part = "federation" /\ FederationNext
       /\ UNCHANGED <<part, vars, reviewVars, tokenVars, mcpVars>>
    \/ /\ part = "token" /\ TokenNext
       /\ UNCHANGED <<part, vars, reviewVars, federationVars, mcpVars>>
    \/ /\ part = "mcp" /\ McpNext
       /\ UNCHANGED <<part, vars, reviewVars, federationVars, tokenVars>>

ServicesSpec ==
    ServicesInit /\ [][ServicesNext]_<<part, vars, reviewVars, federationVars, tokenVars, mcpVars>>
=============================================================================
