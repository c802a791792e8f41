----------------------------- MODULE TokenStore -----------------------------
(* The subscription token stores (internal/provider/anthropicoauth/token.go,  *)
(* internal/provider/openaicodex/token.go).  The refresh token rotates with   *)
(* every exchange and is single-use, several processes may share one file,    *)
(* and an answer that is lost after the rotation ends the chain.  A pair is   *)
(* its generation: pair n+1 is minted by spending the refresh token of n.     *)
EXTENDS Naturals, FiniteSets

CONSTANTS
    Holders,        \* processes that share the token file
    TokenCallers,   \* callers of the stores
    CallerHome,     \* caller -> its process
    CallerLead,     \* caller -> 0 for a request, 1 for the keep-fresh tick
    RefreshRetries, \* backoffs of the anthropic store
    MaxPairs,       \* pairs ever minted
    MaxTokenFaults  \* lost requests and answers, failed writes, crashes

ASSUME TokenConstants ==
    /\ CallerHome \in [TokenCallers -> Holders] /\ CallerLead \in [TokenCallers -> 0 .. 1]
    /\ RefreshRetries \in Nat /\ MaxPairs \in Nat \ {0} /\ MaxTokenFaults \in Nat
    /\ "free" \notin TokenCallers /\ "login" \notin Holders

VARIABLES
    otStore,    \* "anthropic" or "codex": which provider's file and store this is
    otNewest,   \* the pair the endpoint will rotate next
    otMinter,   \* who minted it
    otAge,      \* pair -> 0 fresh, 1 within the tick's lead, 2 within the request's
    otFile,     \* the pair on disk, 0 for none
    otMem,      \* process -> the pair in memory
    otErr,      \* process -> the last refresh error
    otLock,     \* process -> the caller that holds the write lock
    otCall,     \* caller -> where it is, its attempts, whether it reloaded, its token
    otRisk,     \* the newest pair may exist nowhere but at the endpoint
    otFaults

tokenVars == <<otStore, otNewest, otMinter, otAge, otFile, otMem, otErr, otLock, otCall, otRisk, otFaults>>

Unlocked == "free"
Login == "login"
Seed == 1                    \* the refresh token of the configuration

AtRest == [pc |-> "idle", try |-> 0, reloaded |-> FALSE, token |-> 0]
TokenFault == otFaults < MaxTokenFaults /\ otFaults' = otFaults + 1

Mem(c) == otMem[CallerHome[c]]
MoveCaller(c, pc) == otCall' = [otCall EXCEPT ![c].pc = pc]
ReleaseLock(c) == otLock' = [otLock EXCEPT ![CallerHome[c]] = Unlocked]

\* The token in memory outlives the caller's lead.
Usable(c) == Mem(c).access # 0 /\ otAge[Mem(c).access] + CallerLead[c] < 2

-----------------------------------------------------------------------------
(* AccessToken and EnsureFresh                                                *)

\* Under the read lock: a usable token is returned, otherwise the caller
\* queues for the write lock.
NeedsRefresh(c) ==
    /\ otCall[c].pc = "idle" /\ otLock[CallerHome[c]] = Unlocked
    /\ otCall' = [otCall EXCEPT ![c] = IF Usable(c) THEN [AtRest EXCEPT !.token = Mem(c).access]
                                       ELSE [AtRest EXCEPT !.pc = "queue"]]
    /\ UNCHANGED <<otStore, otNewest, otMinter, otAge, otFile, otMem, otErr, otLock, otRisk, otFaults>>

LockAlwaysFree(p) == TRUE            \* mutant: refreshes of one process overlap

LockFree(p) == otLock[p] = Unlocked

\* The second look, under the write lock.
DoubleCheck(c) ==
    /\ otCall[c].pc = "queue" /\ LockFree(CallerHome[c])
    /\ IF Usable(c) THEN /\ otCall' = [otCall EXCEPT ![c] = [AtRest EXCEPT !.token = Mem(c).access]]
                         /\ UNCHANGED otLock
       ELSE /\ MoveCaller(c, "refresh")
            /\ otLock' = [otLock EXCEPT ![CallerHome[c]] = c]
    /\ UNCHANGED <<otStore, otNewest, otMinter, otAge, otFile, otMem, otErr, otRisk, otFaults>>

-----------------------------------------------------------------------------
(* One exchange                                                               *)

\* What a failed attempt leads to: another one after a backoff, unless the
\* endpoint refused the token; then a look at the file, once.
AnthropicAfterFailure(call, rejected) ==
    IF call.reloaded THEN [AtRest EXCEPT !.pc = "failed"]
    ELSE IF ~ rejected /\ call.try < RefreshRetries THEN [call EXCEPT !.try = @ + 1]
    ELSE [call EXCEPT !.pc = "reload"]

\* The codex store makes one attempt and does not tell the refusals apart.
CodexAfterFailure(call) ==
    IF call.reloaded THEN [AtRest EXCEPT !.pc = "failed"] ELSE [call EXCEPT !.pc = "reload"]

AfterFailure(c, rejected) ==
    otCall' = [otCall EXCEPT ![c] = IF otStore = "codex" THEN CodexAfterFailure(@)
                                    ELSE AnthropicAfterFailure(@, rejected)]

\* lastErr is the first series' last error; the attempt after a reload
\* leaves it, and the codex store keeps none.
Failed(c, error) ==
    otErr' = IF otStore = "codex" \/ otCall[c].reloaded THEN otErr
             ELSE [otErr EXCEPT ![CallerHome[c]] = error]

\* The endpoint rotates: the refresh token presented was the newest.
Exchange(c) == Mem(c).refresh = otNewest /\ otNewest < MaxPairs

Minted(c) ==
    /\ otNewest' = otNewest + 1 /\ otMinter' = CallerHome[c]
    /\ otAge' = [otAge EXCEPT ![otNewest + 1] = 0]

RefreshAnswered(c) ==
    /\ otCall[c].pc = "refresh" /\ Exchange(c) /\ Minted(c)
    /\ otMem' = [otMem EXCEPT ![CallerHome[c]] = [refresh |-> otNewest + 1, access |-> otNewest + 1]]
    /\ MoveCaller(c, "save")
    /\ UNCHANGED <<otStore, otFile, otErr, otLock, otRisk, otFaults>>

\* The endpoint rotated and the answer never came.
RefreshAnswerLost(c) ==
    /\ otCall[c].pc = "refresh" /\ Exchange(c) /\ Minted(c) /\ TokenFault
    /\ otRisk' = TRUE
    /\ AfterFailure(c, FALSE) /\ Failed(c, "error")
    /\ UNCHANGED <<otStore, otFile, otMem, otLock>>

\* The request did not get there, or the endpoint was down; for good once
\* it has minted all the pairs of this instance.
RefreshUnreachable(c) ==
    /\ otCall[c].pc = "refresh"
    /\ TokenFault \/ (otNewest = MaxPairs /\ UNCHANGED otFaults)
    /\ AfterFailure(c, FALSE) /\ Failed(c, "error")
    /\ UNCHANGED <<otStore, otNewest, otMinter, otAge, otFile, otMem, otLock, otRisk>>

\* invalid_grant: somebody spent this token before.
RefreshRejected(c) ==
    /\ otCall[c].pc = "refresh" /\ Mem(c).refresh # otNewest
    /\ AfterFailure(c, TRUE) /\ Failed(c, "rejected")
    /\ UNCHANGED <<otStore, otNewest, otMinter, otAge, otFile, otMem, otLock, otRisk, otFaults>>

PersistedLater(pair) == otFile                \* mutant: the write is left to a later moment

\* The rename that replaces the file, before the caller returns.
Persisted(pair) == pair

SaveTokens(c) ==
    /\ otCall[c].pc = "save" /\ ReleaseLock(c)
    /\ \/ otFile' = Persisted(Mem(c).refresh) /\ UNCHANGED <<otRisk, otFaults>>
       \/ TokenFault /\ otRisk' = TRUE /\ UNCHANGED otFile       \* logged and no more
    /\ otErr' = [otErr EXCEPT ![CallerHome[c]] = "none"]
    /\ otCall' = [otCall EXCEPT ![c] = [AtRest EXCEPT !.token = Mem(c).access]]
    /\ UNCHANGED <<otStore, otNewest, otMinter, otAge, otMem>>

\* Another process may have rotated the pair and written it: take it and try
\* once more.  A file that holds the same token changes nothing.
ReloadFromDisk(c) ==
    /\ otCall[c].pc = "reload"
    /\ IF otFile = 0 \/ otFile = Mem(c).refresh
       THEN MoveCaller(c, "failed") /\ UNCHANGED otMem
       ELSE /\ otMem' = [otMem EXCEPT ![CallerHome[c]] = [refresh |-> otFile, access |-> otFile]]
            /\ otCall' = [otCall EXCEPT ![c] = [@ EXCEPT !.pc = "refresh", !.reloaded = TRUE]]
    /\ UNCHANGED <<otStore, otNewest, otMinter, otAge, otFile, otErr, otLock, otRisk, otFaults>>

RefreshFails(c) ==
    /\ otCall[c].pc = "failed" /\ ReleaseLock(c)
    /\ otCall' = [otCall EXCEPT ![c] = AtRest]
    /\ UNCHANGED <<otStore, otNewest, otMinter, otAge, otFile, otMem, otErr, otRisk, otFaults>>

-----------------------------------------------------------------------------
(* Around the store                                                           *)

\* A request is answered 401 with a token the store believed valid: a later
\* pair retired it, and the access token in memory is dropped.
InvalidateToken(c) ==
    /\ otStore = "anthropic"
    /\ otCall[c].pc = "idle" /\ otCall[c].token \in 1 .. otNewest - 1
    /\ otLock[CallerHome[c]] = Unlocked
    /\ otMem' = [otMem EXCEPT ![CallerHome[c]].access = 0]
    /\ otCall' = [otCall EXCEPT ![c].token = 0]
    /\ UNCHANGED <<otStore, otNewest, otMinter, otAge, otFile, otErr, otLock, otRisk, otFaults>>

\* Time passes; the pairs expire in the order they were minted.
TokenAges ==
    /\ \E n \in 1 .. otNewest :
          /\ otAge[n] < 2 /\ \A m \in 1 .. n - 1 : otAge[m] > otAge[n]
          /\ otAge' = [otAge EXCEPT ![n] = @ + 1]
    /\ UNCHANGED <<otStore, otNewest, otMinter, otFile, otMem, otErr, otLock, otCall, otRisk, otFaults>>

\* Load, then the configured refresh token if the file had none.
LoadTokens(file) ==
    IF file # 0 THEN [refresh |-> file, access |-> file] ELSE [refresh |-> Seed, access |-> 0]

\* A deploy: the process dies wherever it is and starts from the file.
RestartHolder(p) ==
    /\ TokenFault
    /\ otMem' = [otMem EXCEPT ![p] = LoadTokens(otFile)]
    /\ otErr' = [otErr EXCEPT ![p] = "none"] /\ otLock' = [otLock EXCEPT ![p] = Unlocked]
    /\ otCall' = [c \in TokenCallers |-> IF CallerHome[c] = p THEN AtRest ELSE otCall[c]]
    /\ otRisk' = (otRisk \/ \E c \in TokenCallers : CallerHome[c] = p /\ otCall[c].pc = "save")
    /\ UNCHANGED <<otStore, otNewest, otMinter, otAge, otFile>>

ChainDead == otFile # otNewest /\ \A p \in Holders : otMem[p].refresh # otNewest

\* A person signs in again: a new pair, written by the login command.
SetTokens ==
    /\ ChainDead /\ otNewest < MaxPairs
    /\ otNewest' = otNewest + 1 /\ otMinter' = Login /\ otAge' = [otAge EXCEPT ![otNewest + 1] = 0]
    /\ otFile' = otNewest + 1 /\ otRisk' = FALSE
    /\ UNCHANGED <<otStore, otMem, otErr, otLock, otCall, otFaults>>

TokenInit ==
    /\ otStore \in {"anthropic", "codex"}
    /\ otNewest = Seed /\ otMinter = Login /\ otAge = [n \in 1 .. MaxPairs |-> 0]
    /\ otFile \in {0, Seed}
    /\ otMem = [p \in Holders |-> LoadTokens(otFile)]
    /\ otErr = [p \in Holders |-> "none"] /\ otLock = [p \in Holders |-> Unlocked]
    /\ otCall = [c \in TokenCallers |-> AtRest] /\ otRisk = FALSE /\ otFaults = 0

TokenNext ==
    \/ \E c \in TokenCallers :
          \/ NeedsRefresh(c) \/ DoubleCheck(c) \/ RefreshAnswered(c) \/ RefreshAnswerLost(c)
          \/ RefreshUnreachable(c) \/ RefreshRejected(c) \/ SaveTokens(c) \/ ReloadFromDisk(c)
          \/ RefreshFails(c) \/ InvalidateToken(c)
    \/ \E p \in Holders : RestartHolder(p)
    \/ TokenAges \/ SetTokens

TokenSpec == TokenInit /\ [][TokenNext]_tokenVars

-----------------------------------------------------------------------------
(* Properties                                                                 *)

\* Unless an answer or a write was lost, the newest pair is on disk whenever
\* no refresh is at the step that writes it: a restart at any other moment
\* finds a token that still works, whoever of the sharers rotated last.
DurableChain ==
    ~ otRisk => \/ otFile = otNewest \/ otNewest = Seed
                \/ \E c \in TokenCallers : otCall[c].pc = "save" /\ Mem(c).refresh = otNewest

\* A process whose status reports a refused refresh did not spend the token itself: the
\* callers of one process never burn each other's single-use token.
RejectedByAnother ==
    \A p \in Holders :
        otErr[p] = "rejected" /\ otLock[p] = Unlocked /\ ~ otRisk => otMinter # p

\* What a rotation promises the processes that share one file.
TokenSound == DurableChain /\ RejectedByAnother
=============================================================================
