-------------------------- MODULE ServiceProofs --------------------------
(* Proofs about the services around the runtime: the OAuth token stores         *)
(* (TokenStore), the MCP connection manager (McpManager), federation            *)
(* (Federation) and the acceptance review (AcceptanceReview), for every value   *)
(* of their constants.                                                          *)
EXTENDS TokenStore, McpManager, Federation, AcceptanceReview, FiniteSetTheorems, TLAPS

-----------------------------------------------------------------------------
(* The component TokenStore                                                   *)

CallerPlaces == {"idle", "queue", "refresh", "save", "reload", "failed"}
CallState == [pc : CallerPlaces, try : Nat, reloaded : BOOLEAN, token : Nat]
Pair == [refresh : Nat, access : Nat]
Holding == {"refresh", "save", "reload", "failed"}

TokenTypeOK ==
    /\ otStore \in {"anthropic", "codex"}
    /\ otNewest \in 1 .. MaxPairs
    /\ otMinter \in Holders \cup {Login}
    /\ otAge \in [1 .. MaxPairs -> 0 .. 2]
    /\ otFile \in Nat
    /\ otMem \in [Holders -> Pair]
    /\ otErr \in [Holders -> {"none", "error", "rejected"}]
    /\ otLock \in [Holders -> TokenCallers \cup {Unlocked}]
    /\ otCall \in [TokenCallers -> CallState]
    /\ otRisk \in BOOLEAN
    /\ otFaults \in Nat

\* Nobody knows a pair that the endpoint has not minted.
Known == otFile <= otNewest /\ \A p \in Holders : otMem[p].refresh <= otNewest

\* Past the second look a caller holds its process's write lock.
LockHeld == \A c \in TokenCallers : otCall[c].pc \in Holding => otLock[CallerHome[c]] = c

\* A pair that is not written yet is known to the process that minted it and
\* to no other, and no other can spend it.
Unwritten ==
    \A c \in TokenCallers : otCall[c].pc = "save" =>
      /\ otMinter = CallerHome[c] /\ Mem(c).refresh = otNewest /\ otFile # otNewest /\ otNewest > Seed
      /\ \A q \in Holders : q # CallerHome[c] => otMem[q].refresh # otNewest

\* A process that minted the newest pair has it in memory, unless it was lost.
MinterKnows ==
    \A p \in Holders : otMinter = p => otNewest > Seed /\ (otRisk \/ otMem[p].refresh = otNewest)

\* It reports a refusal of its own token only while it is writing the new one.
RefusalPasses ==
    \A p \in Holders : otMinter = p /\ otErr[p] = "rejected" =>
      otRisk \/ \E c \in TokenCallers : CallerHome[c] = p /\ otCall[c].pc = "save"

TokenIInv == TokenTypeOK /\ Known /\ LockHeld /\ Unwritten /\ MinterKnows /\ RefusalPasses /\ DurableChain

-----------------------------------------------------------------------------
(* What one caller or one process changes                                     *)

\* Only the caller's own place changes.
LEMMA CallerMoves ==
  ASSUME TokenTypeOK, NEW c \in TokenCallers, NEW r \in CallState, otCall' = [otCall EXCEPT ![c] = r]
  PROVE  /\ otCall' \in [TokenCallers -> CallState] /\ otCall'[c] = r
         /\ \A d \in TokenCallers : d # c => otCall'[d] = otCall[d]
  BY DEF TokenTypeOK

\* Only one process's memory changes.
LEMMA MemoryMoves ==
  ASSUME TokenTypeOK, NEW p \in Holders, NEW r \in Pair, otMem' = [otMem EXCEPT ![p] = r]
  PROVE  /\ otMem' \in [Holders -> Pair] /\ otMem'[p] = r
         /\ \A q \in Holders : q # p => otMem'[q] = otMem[q]
  BY DEF TokenTypeOK

\* The changes of a caller's state.
LEMMA CallStates ==
  ASSUME NEW call \in CallState
  PROVE  /\ call.pc \in CallerPlaces
         /\ \A pc \in CallerPlaces : [call EXCEPT !.pc = pc] \in CallState /\ [call EXCEPT !.pc = pc].pc = pc
         /\ \A pc \in CallerPlaces : /\ [call EXCEPT !.pc = pc, !.reloaded = TRUE] \in CallState
                                     /\ [call EXCEPT !.pc = pc, !.reloaded = TRUE].pc = pc
         /\ [call EXCEPT !.try = @ + 1] \in CallState /\ [call EXCEPT !.try = @ + 1].pc = call.pc
         /\ \A n \in Nat : [call EXCEPT !.token = n] \in CallState /\ [call EXCEPT !.token = n].pc = call.pc
<1>1. call.pc \in CallerPlaces /\ call.try \in Nat BY DEF CallState
<1>2. \A pc \in CallerPlaces : [call EXCEPT !.pc = pc] \in CallState /\ [call EXCEPT !.pc = pc].pc = pc
  BY DEF CallState
<1>3. \A pc \in CallerPlaces : /\ [call EXCEPT !.pc = pc, !.reloaded = TRUE] \in CallState
                              /\ [call EXCEPT !.pc = pc, !.reloaded = TRUE].pc = pc
  BY DEF CallState
<1>4. [call EXCEPT !.try = @ + 1] \in CallState /\ [call EXCEPT !.try = @ + 1].pc = call.pc
  BY DEF CallState
<1>5. \A n \in Nat : [call EXCEPT !.token = n] \in CallState /\ [call EXCEPT !.token = n].pc = call.pc
  BY DEF CallState
<1> QED BY <1>1, <1>2, <1>3, <1>4, <1>5

\* The state of a caller that has nothing under way.
LEMMA RestState ==
  /\ AtRest \in CallState /\ AtRest.pc = "idle"
  /\ \A n \in Nat : [AtRest EXCEPT !.token = n] \in CallState /\ [AtRest EXCEPT !.token = n].pc = "idle"
  /\ \A pc \in CallerPlaces : [AtRest EXCEPT !.pc = pc] \in CallState /\ [AtRest EXCEPT !.pc = pc].pc = pc
<1>1. AtRest \in CallState /\ AtRest.pc = "idle" BY DEF AtRest, CallState, CallerPlaces
<1> QED BY <1>1, CallStates

\* What a caller sees of its process.
LEMMA CallerFacts ==
  ASSUME TokenTypeOK, NEW c \in TokenCallers
  PROVE  /\ CallerHome[c] \in Holders /\ otCall[c] \in CallState /\ Mem(c) \in Pair
         /\ Mem(c).refresh \in Nat /\ Mem(c).access \in Nat /\ c # Unlocked
<1>1. CallerHome[c] \in Holders /\ c # Unlocked BY TokenConstants DEF Unlocked
<1>2. otCall[c] \in CallState /\ Mem(c) \in Pair BY <1>1 DEF TokenTypeOK, Mem
<1>3. Mem(c).refresh \in Nat /\ Mem(c).access \in Nat BY <1>2 DEF Pair
<1> QED BY <1>1, <1>2, <1>3

\* A failed attempt is repeated, leads to the file or to the failure.
LEMMA FailureMoves ==
  ASSUME TokenTypeOK, NEW c \in TokenCallers, NEW rejected \in BOOLEAN, AfterFailure(c, rejected),
         otCall[c].pc = "refresh"
  PROVE  /\ otCall' \in [TokenCallers -> CallState] /\ otCall'[c].pc \in {"refresh", "reload", "failed"}
         /\ \A d \in TokenCallers : d # c => otCall'[d] = otCall[d]
<1> DEFINE call == otCall[c]
           r == IF otStore = "codex" THEN CodexAfterFailure(call) ELSE AnthropicAfterFailure(call, rejected)
<1>1. otCall' = [otCall EXCEPT ![c] = r] BY DEF AfterFailure, TokenTypeOK
<1>2. call \in CallState /\ call.pc = "refresh" BY CallerFacts
<1> HIDE DEF call
<1>3. r \in CallState /\ r.pc \in {"refresh", "reload", "failed"}
  <2>1. [AtRest EXCEPT !.pc = "failed"] \in CallState /\ [AtRest EXCEPT !.pc = "failed"].pc = "failed"
    BY RestState DEF CallerPlaces
  <2>2. /\ [call EXCEPT !.try = @ + 1] \in CallState /\ [call EXCEPT !.try = @ + 1].pc = "refresh"
        /\ [call EXCEPT !.pc = "reload"] \in CallState /\ [call EXCEPT !.pc = "reload"].pc = "reload"
    BY <1>2, CallStates DEF CallerPlaces
  <2> QED BY <2>1, <2>2 DEF CodexAfterFailure, AnthropicAfterFailure
<1> HIDE DEF r
<1> QED BY <1>1, <1>3, CallerMoves

-----------------------------------------------------------------------------
(* One lemma per step                                                         *)

LEMMA NeedsRefreshInv == ASSUME TokenIInv, NEW c \in TokenCallers, NeedsRefresh(c) PROVE TokenIInv'
<1>1. /\ TokenTypeOK /\ CallerHome[c] \in Holders /\ otCall[c] \in CallState /\ Mem(c) \in Pair
      /\ Mem(c).refresh \in Nat /\ Mem(c).access \in Nat /\ c # Unlocked
      /\ \A d \in TokenCallers : CallerHome[d] \in Holders /\ d # Unlocked
  BY CallerFacts DEF TokenIInv
<1>2. /\ otNewest \in Nat /\ otNewest # 0 /\ otNewest <= MaxPairs /\ MaxPairs \in Nat /\ otFile \in Nat
      /\ \A q \in Holders : otMem[q].refresh \in Nat
  BY TokenConstants DEF TokenIInv, TokenTypeOK, Pair
<1>3. /\ otCall' \in [TokenCallers -> CallState] /\ otCall'[c].pc \in {"idle", "queue"}
      /\ \A d \in TokenCallers : d # c => otCall'[d] = otCall[d]
  <2>1. \E r \in CallState : r.pc \in {"idle", "queue"} /\ otCall' = [otCall EXCEPT ![c] = r]
    BY <1>1, RestState DEF NeedsRefresh, CallerPlaces
  <2> QED BY <1>1, <2>1, CallerMoves
<1>4. /\ otCall[c].pc = "idle"
      /\ UNCHANGED <<otStore, otNewest, otMinter, otAge, otFile, otMem, otErr, otLock, otRisk, otFaults>>
  BY DEF NeedsRefresh
<1>5. TokenTypeOK' BY <1>1, <1>2, <1>3, <1>4 DEF TokenIInv, TokenTypeOK
<1>6. Known' BY <1>1, <1>2, <1>3, <1>4 DEF TokenIInv, Known, Mem, Holding, Seed, Login
<1>7. LockHeld' BY <1>1, <1>2, <1>3, <1>4 DEF TokenIInv, LockHeld, Mem, Holding, Seed, Login
<1>8. Unwritten' BY <1>1, <1>2, <1>3, <1>4 DEF TokenIInv, Unwritten, Mem, Holding, Seed, Login
<1>9. MinterKnows' BY <1>1, <1>2, <1>3, <1>4 DEF TokenIInv, MinterKnows, Mem, Holding, Seed, Login
<1>10. RefusalPasses' BY <1>1, <1>2, <1>3, <1>4 DEF TokenIInv, RefusalPasses, Mem, Holding, Seed, Login
<1>11. DurableChain' BY <1>1, <1>2, <1>3, <1>4 DEF TokenIInv, DurableChain, Mem, Holding, Seed, Login
<1> QED BY <1>5, <1>6, <1>7, <1>8, <1>9, <1>10, <1>11 DEF TokenIInv

LEMMA DoubleCheckInv == ASSUME TokenIInv, NEW c \in TokenCallers, DoubleCheck(c) PROVE TokenIInv'
<1>1. /\ TokenTypeOK /\ CallerHome[c] \in Holders /\ otCall[c] \in CallState /\ Mem(c) \in Pair
      /\ Mem(c).refresh \in Nat /\ Mem(c).access \in Nat /\ c # Unlocked
      /\ \A d \in TokenCallers : CallerHome[d] \in Holders /\ d # Unlocked
  BY CallerFacts DEF TokenIInv
<1>2. /\ otNewest \in Nat /\ otNewest # 0 /\ otNewest <= MaxPairs /\ MaxPairs \in Nat /\ otFile \in Nat
      /\ \A q \in Holders : otMem[q].refresh \in Nat
  BY TokenConstants DEF TokenIInv, TokenTypeOK, Pair
<1>3. \/ otCall'[c].pc = "idle" /\ otLock' = otLock
      \/ otCall'[c].pc = "refresh" /\ otLock' = [otLock EXCEPT ![CallerHome[c]] = c]
  <2>1. [AtRest EXCEPT !.token = Mem(c).access] \in CallState /\ [AtRest EXCEPT !.token = Mem(c).access].pc = "idle"
    BY <1>1, RestState
  <2>2. [otCall[c] EXCEPT !.pc = "refresh"] \in CallState /\ [otCall[c] EXCEPT !.pc = "refresh"].pc = "refresh"
    BY <1>1, CallStates DEF CallerPlaces
  <2> QED BY <1>1, <2>1, <2>2, CallerMoves DEF DoubleCheck, MoveCaller, TokenTypeOK
<1>4. /\ otCall' \in [TokenCallers -> CallState]
      /\ \A d \in TokenCallers : d # c => otCall'[d] = otCall[d]
  <2>1. [AtRest EXCEPT !.token = Mem(c).access] \in CallState BY <1>1, RestState
  <2>2. [otCall[c] EXCEPT !.pc = "refresh"] \in CallState BY <1>1, CallStates DEF CallerPlaces
  <2>3. \/ otCall' = [otCall EXCEPT ![c] = [AtRest EXCEPT !.token = Mem(c).access]]
        \/ otCall' = [otCall EXCEPT ![c] = [otCall[c] EXCEPT !.pc = "refresh"]]
    BY <1>1 DEF DoubleCheck, MoveCaller, TokenTypeOK
  <2> QED BY <1>1, <2>1, <2>2, <2>3, CallerMoves
<1>5. \A q \in Holders : otLock'[q] = otLock[q] \/ (q = CallerHome[c] /\ otLock'[q] = c)
  BY <1>1, <1>3 DEF TokenTypeOK
<1>6. otCall'[c].pc \in Holding => otLock'[CallerHome[c]] = c
  BY <1>1, <1>3 DEF TokenTypeOK, Holding
<1>7. /\ otCall[c].pc = "queue" /\ otLock[CallerHome[c]] = Unlocked
      /\ UNCHANGED <<otStore, otNewest, otMinter, otAge, otFile, otMem, otErr, otRisk, otFaults>>
  BY DEF DoubleCheck, LockFree
<1>8. TokenTypeOK'
  <2>1. otLock' \in [Holders -> TokenCallers \cup {Unlocked}] BY <1>1, <1>3 DEF TokenTypeOK
  <2> QED BY <1>1, <1>4, <1>7, <2>1 DEF TokenTypeOK
<1>9. Known' BY <1>1, <1>2, <1>3, <1>4, <1>5, <1>6, <1>7 DEF TokenIInv, Known, Mem, Holding, Seed, Login
<1>10. LockHeld' BY <1>1, <1>2, <1>3, <1>4, <1>5, <1>6, <1>7 DEF TokenIInv, LockHeld, Mem, Holding, Seed, Login
<1>11. Unwritten' BY <1>1, <1>2, <1>3, <1>4, <1>5, <1>6, <1>7 DEF TokenIInv, Unwritten, Mem, Holding, Seed, Login
<1>12. MinterKnows' BY <1>1, <1>2, <1>3, <1>4, <1>5, <1>6, <1>7 DEF TokenIInv, MinterKnows, Mem, Holding, Seed, Login
<1>13. RefusalPasses' BY <1>1, <1>2, <1>3, <1>4, <1>5, <1>6, <1>7 DEF TokenIInv, RefusalPasses, Mem, Holding, Seed, Login
<1>14. DurableChain' BY <1>1, <1>2, <1>3, <1>4, <1>5, <1>6, <1>7 DEF TokenIInv, DurableChain, Mem, Holding, Seed, Login
<1> QED BY <1>8, <1>9, <1>10, <1>11, <1>12, <1>13, <1>14 DEF TokenIInv

LEMMA RefreshAnsweredInv == ASSUME TokenIInv, NEW c \in TokenCallers, RefreshAnswered(c) PROVE TokenIInv'
<1>1. /\ TokenTypeOK /\ CallerHome[c] \in Holders /\ otCall[c] \in CallState /\ Mem(c) \in Pair
      /\ Mem(c).refresh \in Nat /\ Mem(c).access \in Nat /\ c # Unlocked
      /\ \A d \in TokenCallers : CallerHome[d] \in Holders /\ d # Unlocked
  BY CallerFacts DEF TokenIInv
<1>2. /\ otNewest \in Nat /\ otNewest # 0 /\ otNewest <= MaxPairs /\ MaxPairs \in Nat /\ otFile \in Nat
      /\ \A q \in Holders : otMem[q].refresh \in Nat
  BY TokenConstants DEF TokenIInv, TokenTypeOK, Pair
<1>3. /\ otCall' \in [TokenCallers -> CallState] /\ otCall'[c].pc = "save"
      /\ \A d \in TokenCallers : d # c => otCall'[d] = otCall[d]
  <2>1. [otCall[c] EXCEPT !.pc = "save"] \in CallState /\ [otCall[c] EXCEPT !.pc = "save"].pc = "save"
    BY <1>1, CallStates DEF CallerPlaces
  <2>2. otCall' = [otCall EXCEPT ![c] = [otCall[c] EXCEPT !.pc = "save"]]
    BY <1>1 DEF RefreshAnswered, MoveCaller, TokenTypeOK
  <2> QED BY <1>1, <2>1, <2>2, CallerMoves
<1>4. /\ otMem' \in [Holders -> Pair] /\ otMem'[CallerHome[c]].refresh = otNewest + 1
      /\ \A q \in Holders : q # CallerHome[c] => otMem'[q] = otMem[q]
  <2> DEFINE new == [refresh |-> otNewest + 1, access |-> otNewest + 1]
  <2>1. new \in Pair /\ new.refresh = otNewest + 1 BY <1>2 DEF Pair
  <2>2. otMem' = [otMem EXCEPT ![CallerHome[c]] = new] BY DEF RefreshAnswered
  <2> HIDE DEF new
  <2> QED BY <1>1, <2>1, <2>2, MemoryMoves
<1>5. /\ otCall[c].pc = "refresh" /\ Mem(c).refresh = otNewest /\ otNewest < MaxPairs
      /\ otNewest' = otNewest + 1 /\ otMinter' = CallerHome[c] /\ otAge' = [otAge EXCEPT ![otNewest + 1] = 0]
      /\ UNCHANGED <<otStore, otFile, otErr, otLock, otRisk, otFaults>>
  BY DEF RefreshAnswered, Exchange, Minted
<1>6. TokenTypeOK' BY <1>1, <1>2, <1>3, <1>4, <1>5 DEF TokenIInv, TokenTypeOK
<1>7. Known' BY <1>1, <1>2, <1>3, <1>4, <1>5 DEF TokenIInv, Known, Mem, Holding, Seed, Login
<1>8. LockHeld' BY <1>1, <1>2, <1>3, <1>4, <1>5 DEF TokenIInv, LockHeld, Mem, Holding, Seed, Login
<1>9. Unwritten'
  <2>1. \A d \in TokenCallers : otCall[d].pc # "save"
    BY <1>1, <1>5 DEF TokenIInv, Unwritten, LockHeld, Mem, Holding
  <2>2. \A d \in TokenCallers : otCall'[d].pc = "save" => d = c BY <1>3, <2>1
  <2>3. \A q \in Holders : otMem[q].refresh # otNewest + 1 BY <1>2 DEF TokenIInv, Known
  <2>4. otFile # otNewest + 1 BY <1>2 DEF TokenIInv, Known
  <2> QED BY <1>1, <1>2, <1>4, <1>5, <2>2, <2>3, <2>4 DEF Unwritten, Mem, Seed
<1>10. MinterKnows' BY <1>1, <1>2, <1>3, <1>4, <1>5 DEF TokenIInv, MinterKnows, Mem, Holding, Seed, Login
<1>11. RefusalPasses' BY <1>1, <1>2, <1>3, <1>4, <1>5 DEF TokenIInv, RefusalPasses, Mem, Holding, Seed, Login
<1>12. DurableChain' BY <1>1, <1>2, <1>3, <1>4, <1>5 DEF TokenIInv, DurableChain, Mem, Holding, Seed, Login
<1> QED BY <1>6, <1>7, <1>8, <1>9, <1>10, <1>11, <1>12 DEF TokenIInv

LEMMA RefreshAnswerLostInv == ASSUME TokenIInv, NEW c \in TokenCallers, RefreshAnswerLost(c) PROVE TokenIInv'
<1>1. /\ TokenTypeOK /\ CallerHome[c] \in Holders /\ otCall[c] \in CallState /\ Mem(c) \in Pair
      /\ Mem(c).refresh \in Nat /\ Mem(c).access \in Nat /\ c # Unlocked
      /\ \A d \in TokenCallers : CallerHome[d] \in Holders /\ d # Unlocked
  BY CallerFacts DEF TokenIInv
<1>2. /\ otNewest \in Nat /\ otNewest # 0 /\ otNewest <= MaxPairs /\ MaxPairs \in Nat /\ otFile \in Nat
      /\ \A q \in Holders : otMem[q].refresh \in Nat
  BY TokenConstants DEF TokenIInv, TokenTypeOK, Pair
<1>3. /\ otCall' \in [TokenCallers -> CallState] /\ otCall'[c].pc \in {"refresh", "reload", "failed"}
      /\ \A d \in TokenCallers : d # c => otCall'[d] = otCall[d]
  BY <1>1, FailureMoves DEF RefreshAnswerLost
<1>4. /\ otCall[c].pc = "refresh" /\ Mem(c).refresh = otNewest /\ otNewest < MaxPairs /\ otRisk' = TRUE /\ otFaults' = otFaults + 1
      /\ otNewest' = otNewest + 1 /\ otMinter' = CallerHome[c] /\ otAge' = [otAge EXCEPT ![otNewest + 1] = 0]
      /\ UNCHANGED <<otStore, otFile, otMem, otLock>>
  BY DEF RefreshAnswerLost, Exchange, Minted, TokenFault
<1>5. otErr' \in [Holders -> {"none", "error", "rejected"}]
  BY <1>1 DEF RefreshAnswerLost, Failed, TokenTypeOK
<1>6. TokenTypeOK' BY <1>1, <1>2, <1>3, <1>4, <1>5 DEF TokenIInv, TokenTypeOK
<1>7. Known' BY <1>1, <1>2, <1>3, <1>4, <1>5 DEF TokenIInv, Known, Mem, Holding, Seed, Login
<1>8. LockHeld' BY <1>1, <1>2, <1>3, <1>4, <1>5 DEF TokenIInv, LockHeld, Mem, Holding, Seed, Login
<1>9. Unwritten' BY <1>1, <1>2, <1>3, <1>4, <1>5 DEF TokenIInv, Unwritten, LockHeld, Mem, Holding, Seed, Login
<1>10. MinterKnows' BY <1>1, <1>2, <1>3, <1>4, <1>5 DEF TokenIInv, MinterKnows, Mem, Holding, Seed, Login
<1>11. RefusalPasses' BY <1>1, <1>2, <1>3, <1>4, <1>5 DEF TokenIInv, RefusalPasses, Mem, Holding, Seed, Login
<1>12. DurableChain' BY <1>1, <1>2, <1>3, <1>4, <1>5 DEF TokenIInv, DurableChain, Mem, Holding, Seed, Login
<1> QED BY <1>6, <1>7, <1>8, <1>9, <1>10, <1>11, <1>12 DEF TokenIInv

LEMMA RefreshUnreachableInv == ASSUME TokenIInv, NEW c \in TokenCallers, RefreshUnreachable(c) PROVE TokenIInv'
<1>1. /\ TokenTypeOK /\ CallerHome[c] \in Holders /\ otCall[c] \in CallState /\ Mem(c) \in Pair
      /\ Mem(c).refresh \in Nat /\ Mem(c).access \in Nat /\ c # Unlocked
      /\ \A d \in TokenCallers : CallerHome[d] \in Holders /\ d # Unlocked
  BY CallerFacts DEF TokenIInv
<1>2. /\ otNewest \in Nat /\ otNewest # 0 /\ otNewest <= MaxPairs /\ MaxPairs \in Nat /\ otFile \in Nat
      /\ \A q \in Holders : otMem[q].refresh \in Nat
  BY TokenConstants DEF TokenIInv, TokenTypeOK, Pair
<1>3. /\ otCall' \in [TokenCallers -> CallState] /\ otCall'[c].pc \in {"refresh", "reload", "failed"}
      /\ \A d \in TokenCallers : d # c => otCall'[d] = otCall[d]
  BY <1>1, FailureMoves DEF RefreshUnreachable
<1>4. /\ otCall[c].pc = "refresh" /\ otFaults' \in Nat
      /\ UNCHANGED <<otStore, otNewest, otMinter, otAge, otFile, otMem, otLock, otRisk>>
  BY <1>1 DEF RefreshUnreachable, TokenFault, TokenTypeOK
<1>5. /\ otErr' \in [Holders -> {"none", "error", "rejected"}]
      /\ \A p \in Holders : otErr'[p] = "rejected" => otErr[p] = "rejected"
  BY <1>1 DEF RefreshUnreachable, Failed, TokenTypeOK
<1>6. TokenTypeOK' BY <1>1, <1>2, <1>3, <1>4, <1>5 DEF TokenIInv, TokenTypeOK
<1>7. Known' BY <1>1, <1>2, <1>3, <1>4, <1>5 DEF TokenIInv, Known, Mem, Holding, Seed, Login
<1>8. LockHeld' BY <1>1, <1>2, <1>3, <1>4, <1>5 DEF TokenIInv, LockHeld, Mem, Holding, Seed, Login
<1>9. Unwritten' BY <1>1, <1>2, <1>3, <1>4, <1>5 DEF TokenIInv, Unwritten, Mem, Holding, Seed, Login
<1>10. MinterKnows' BY <1>1, <1>2, <1>3, <1>4, <1>5 DEF TokenIInv, MinterKnows, Mem, Holding, Seed, Login
<1>11. RefusalPasses' BY <1>1, <1>2, <1>3, <1>4, <1>5 DEF TokenIInv, RefusalPasses, Mem, Holding, Seed, Login
<1>12. DurableChain' BY <1>1, <1>2, <1>3, <1>4, <1>5 DEF TokenIInv, DurableChain, Mem, Holding, Seed, Login
<1> QED BY <1>6, <1>7, <1>8, <1>9, <1>10, <1>11, <1>12 DEF TokenIInv

LEMMA RefreshRejectedInv == ASSUME TokenIInv, NEW c \in TokenCallers, RefreshRejected(c) PROVE TokenIInv'
<1>1. /\ TokenTypeOK /\ CallerHome[c] \in Holders /\ otCall[c] \in CallState /\ Mem(c) \in Pair
      /\ Mem(c).refresh \in Nat /\ Mem(c).access \in Nat /\ c # Unlocked
      /\ \A d \in TokenCallers : CallerHome[d] \in Holders /\ d # Unlocked
  BY CallerFacts DEF TokenIInv
<1>2. /\ otNewest \in Nat /\ otNewest # 0 /\ otNewest <= MaxPairs /\ MaxPairs \in Nat /\ otFile \in Nat
      /\ \A q \in Holders : otMem[q].refresh \in Nat
  BY TokenConstants DEF TokenIInv, TokenTypeOK, Pair
<1>3. /\ otCall' \in [TokenCallers -> CallState] /\ otCall'[c].pc \in {"refresh", "reload", "failed"}
      /\ \A d \in TokenCallers : d # c => otCall'[d] = otCall[d]
  BY <1>1, FailureMoves DEF RefreshRejected
<1>4. /\ otCall[c].pc = "refresh" /\ Mem(c).refresh # otNewest
      /\ UNCHANGED <<otStore, otNewest, otMinter, otAge, otFile, otMem, otLock, otRisk, otFaults>>
  BY DEF RefreshRejected
<1>5. /\ otErr' \in [Holders -> {"none", "error", "rejected"}]
      /\ \A p \in Holders : p # CallerHome[c] => otErr'[p] = otErr[p]
  BY <1>1 DEF RefreshRejected, Failed, TokenTypeOK
<1>6. TokenTypeOK' BY <1>1, <1>2, <1>3, <1>4, <1>5 DEF TokenIInv, TokenTypeOK
<1>7. Known' BY <1>1, <1>2, <1>3, <1>4, <1>5 DEF TokenIInv, Known, Mem, Holding, Seed, Login
<1>8. LockHeld' BY <1>1, <1>2, <1>3, <1>4, <1>5 DEF TokenIInv, LockHeld, Mem, Holding, Seed, Login
<1>9. Unwritten' BY <1>1, <1>2, <1>3, <1>4, <1>5 DEF TokenIInv, Unwritten, Mem, Holding, Seed, Login
<1>10. MinterKnows' BY <1>1, <1>2, <1>3, <1>4, <1>5 DEF TokenIInv, MinterKnows, Mem, Holding, Seed, Login
<1>11. RefusalPasses' BY <1>1, <1>2, <1>3, <1>4, <1>5 DEF TokenIInv, RefusalPasses, MinterKnows, Mem, Holding, Seed, Login
<1>12. DurableChain' BY <1>1, <1>2, <1>3, <1>4, <1>5 DEF TokenIInv, DurableChain, Mem, Holding, Seed, Login
<1> QED BY <1>6, <1>7, <1>8, <1>9, <1>10, <1>11, <1>12 DEF TokenIInv

LEMMA SaveTokensInv == ASSUME TokenIInv, NEW c \in TokenCallers, SaveTokens(c) PROVE TokenIInv'
<1>1. /\ TokenTypeOK /\ CallerHome[c] \in Holders /\ otCall[c] \in CallState /\ Mem(c) \in Pair
      /\ Mem(c).refresh \in Nat /\ Mem(c).access \in Nat /\ c # Unlocked
      /\ \A d \in TokenCallers : CallerHome[d] \in Holders /\ d # Unlocked
  BY CallerFacts DEF TokenIInv
<1>2. /\ otNewest \in Nat /\ otNewest # 0 /\ otNewest <= MaxPairs /\ MaxPairs \in Nat /\ otFile \in Nat
      /\ \A q \in Holders : otMem[q].refresh \in Nat
  BY TokenConstants DEF TokenIInv, TokenTypeOK, Pair
<1>3. /\ otCall' \in [TokenCallers -> CallState] /\ otCall'[c].pc = "idle"
      /\ \A d \in TokenCallers : d # c => otCall'[d] = otCall[d]
  <2>1. otCall' = [otCall EXCEPT ![c] = [AtRest EXCEPT !.token = Mem(c).access]] BY DEF SaveTokens
  <2> QED BY <1>1, <2>1, RestState, CallerMoves
<1>4. /\ otCall[c].pc = "save" /\ otLock' = [otLock EXCEPT ![CallerHome[c]] = Unlocked]
      /\ \/ otFile' = Mem(c).refresh /\ UNCHANGED <<otRisk, otFaults>>
         \/ otFaults' = otFaults + 1 /\ otRisk' = TRUE /\ UNCHANGED otFile
      /\ otErr' = [otErr EXCEPT ![CallerHome[c]] = "none"]
      /\ UNCHANGED <<otStore, otNewest, otMinter, otAge, otMem>>
  BY DEF SaveTokens, ReleaseLock, Persisted, TokenFault
<1>5. \A d \in TokenCallers : otCall[d].pc = "save" => d = c
  BY <1>1, <1>4 DEF TokenIInv, Unwritten, LockHeld, Holding, Mem
<1>6. otFile' \in Nat /\ otFaults' \in Nat /\ otRisk' \in BOOLEAN
  <2>1. otFaults \in Nat /\ otRisk \in BOOLEAN BY <1>1 DEF TokenTypeOK
  <2>2. otRisk' \in BOOLEAN
    <3>1. otRisk' = otRisk \/ otRisk' = TRUE BY <1>4
    <3> QED BY <2>1, <3>1
  <2>3. otFaults' \in Nat BY <1>4, <2>1
  <2>4. otFile' \in Nat BY <1>1, <1>2, <1>4
  <2> QED BY <2>2, <2>3, <2>4
<1>7. otLock' \in [Holders -> TokenCallers \cup {Unlocked}] /\ \A q \in Holders : q # CallerHome[c] => otLock'[q] = otLock[q]
  BY <1>1, <1>4 DEF TokenTypeOK
<1>8. otErr' \in [Holders -> {"none", "error", "rejected"}] /\ \A q \in Holders : otErr'[q] = IF q = CallerHome[c] THEN "none" ELSE otErr[q]
  BY <1>1, <1>4 DEF TokenTypeOK
<1>9. TokenTypeOK' BY <1>1, <1>2, <1>3, <1>4, <1>5, <1>6, <1>7, <1>8 DEF TokenIInv, TokenTypeOK
<1>10. Known' BY <1>1, <1>2, <1>3, <1>4, <1>5, <1>6, <1>7, <1>8 DEF TokenIInv, Known, Mem, Holding, Seed, Login
<1>11. LockHeld' BY <1>1, <1>2, <1>3, <1>4, <1>5, <1>6, <1>7, <1>8 DEF TokenIInv, LockHeld, Mem, Holding, Seed, Login
<1>12. Unwritten' BY <1>1, <1>2, <1>3, <1>4, <1>5, <1>6, <1>7, <1>8 DEF TokenIInv, Unwritten, Mem, Holding, Seed, Login
<1>13. MinterKnows' BY <1>1, <1>2, <1>3, <1>4, <1>5, <1>6, <1>7, <1>8 DEF TokenIInv, MinterKnows, Mem, Holding, Seed, Login
<1>14. RefusalPasses' BY <1>1, <1>2, <1>3, <1>4, <1>5, <1>6, <1>7, <1>8 DEF TokenIInv, RefusalPasses, Unwritten, Mem, Holding, Seed, Login
<1>15. DurableChain' BY <1>1, <1>2, <1>3, <1>4, <1>5, <1>6, <1>7, <1>8 DEF TokenIInv, DurableChain, Unwritten, Mem, Holding, Seed, Login
<1> QED BY <1>9, <1>10, <1>11, <1>12, <1>13, <1>14, <1>15 DEF TokenIInv

LEMMA ReloadFromDiskInv == ASSUME TokenIInv, NEW c \in TokenCallers, ReloadFromDisk(c) PROVE TokenIInv'
<1>1. /\ TokenTypeOK /\ CallerHome[c] \in Holders /\ otCall[c] \in CallState /\ Mem(c) \in Pair
      /\ Mem(c).refresh \in Nat /\ Mem(c).access \in Nat /\ c # Unlocked
      /\ \A d \in TokenCallers : CallerHome[d] \in Holders /\ d # Unlocked
  BY CallerFacts DEF TokenIInv
<1>2. /\ otNewest \in Nat /\ otNewest # 0 /\ otNewest <= MaxPairs /\ MaxPairs \in Nat /\ otFile \in Nat
      /\ \A q \in Holders : otMem[q].refresh \in Nat
  BY TokenConstants DEF TokenIInv, TokenTypeOK, Pair
<1>3. /\ otCall[c].pc = "reload"
      /\ UNCHANGED <<otStore, otNewest, otMinter, otAge, otFile, otErr, otLock, otRisk, otFaults>>
  BY DEF ReloadFromDisk
<1>4. /\ otCall' \in [TokenCallers -> CallState] /\ otCall'[c].pc \in {"refresh", "failed"}
      /\ \A d \in TokenCallers : d # c => otCall'[d] = otCall[d]
  <2> DEFINE gone == [otCall[c] EXCEPT !.pc = "failed"]
             again == [otCall[c] EXCEPT !.pc = "refresh", !.reloaded = TRUE]
  <2>1. gone \in CallState /\ gone.pc = "failed" /\ again \in CallState /\ again.pc = "refresh"
    BY <1>1, CallStates DEF CallerPlaces
  <2>2. otCall' = [otCall EXCEPT ![c] = gone] \/ otCall' = [otCall EXCEPT ![c] = again]
    BY <1>1 DEF ReloadFromDisk, MoveCaller, TokenTypeOK
  <2> HIDE DEF gone, again
  <2> QED BY <1>1, <2>1, <2>2, CallerMoves
<1>5. \A d \in TokenCallers : otCall[d].pc = "save" => CallerHome[d] # CallerHome[c]
  BY <1>1, <1>3 DEF TokenIInv, LockHeld, Holding
<1>6. /\ otMem' \in [Holders -> Pair] /\ (otMem' = otMem \/ (otMem'[CallerHome[c]].refresh = otFile /\ otFile # 0 /\ otFile # Mem(c).refresh))
      /\ \A q \in Holders : q # CallerHome[c] => otMem'[q] = otMem[q]
  <2> DEFINE new == [refresh |-> otFile, access |-> otFile]
  <2>1. new \in Pair /\ new.refresh = otFile BY <1>2 DEF Pair
  <2>2. CASE otFile = 0 \/ otFile = Mem(c).refresh BY <1>1, <2>2 DEF ReloadFromDisk, TokenTypeOK
  <2>3. CASE ~ (otFile = 0 \/ otFile = Mem(c).refresh)
    <3>1. otMem' = [otMem EXCEPT ![CallerHome[c]] = new] BY <2>3 DEF ReloadFromDisk
    <3> HIDE DEF new
    <3> QED BY <1>1, <2>1, <2>3, <3>1, MemoryMoves
  <2> QED BY <2>2, <2>3
<1>7. TokenTypeOK' BY <1>1, <1>2, <1>3, <1>4, <1>5, <1>6 DEF TokenIInv, TokenTypeOK
<1>8. Known' BY <1>1, <1>2, <1>3, <1>4, <1>5, <1>6 DEF TokenIInv, Known, Mem, Holding, Seed, Login
<1>9. LockHeld' BY <1>1, <1>2, <1>3, <1>4, <1>5, <1>6 DEF TokenIInv, LockHeld, Mem, Holding, Seed, Login
<1>10. Unwritten' BY <1>1, <1>2, <1>3, <1>4, <1>5, <1>6 DEF TokenIInv, Unwritten, Mem, Holding, Seed, Login
<1>11. MinterKnows' BY <1>1, <1>2, <1>3, <1>4, <1>5, <1>6 DEF TokenIInv, MinterKnows, Unwritten, DurableChain, Mem, Holding, Seed, Login
<1>12. RefusalPasses' BY <1>1, <1>2, <1>3, <1>4, <1>5, <1>6 DEF TokenIInv, RefusalPasses, Mem, Holding, Seed, Login
<1>13. DurableChain' BY <1>1, <1>2, <1>3, <1>4, <1>5, <1>6 DEF TokenIInv, DurableChain, Unwritten, Mem, Holding, Seed, Login
<1> QED BY <1>7, <1>8, <1>9, <1>10, <1>11, <1>12, <1>13 DEF TokenIInv

LEMMA RefreshFailsInv == ASSUME TokenIInv, NEW c \in TokenCallers, RefreshFails(c) PROVE TokenIInv'
<1>1. /\ TokenTypeOK /\ CallerHome[c] \in Holders /\ otCall[c] \in CallState /\ Mem(c) \in Pair
      /\ Mem(c).refresh \in Nat /\ Mem(c).access \in Nat /\ c # Unlocked
      /\ \A d \in TokenCallers : CallerHome[d] \in Holders /\ d # Unlocked
  BY CallerFacts DEF TokenIInv
<1>2. /\ otNewest \in Nat /\ otNewest # 0 /\ otNewest <= MaxPairs /\ MaxPairs \in Nat /\ otFile \in Nat
      /\ \A q \in Holders : otMem[q].refresh \in Nat
  BY TokenConstants DEF TokenIInv, TokenTypeOK, Pair
<1>3. /\ otCall' \in [TokenCallers -> CallState] /\ otCall'[c].pc = "idle"
      /\ \A d \in TokenCallers : d # c => otCall'[d] = otCall[d]
  <2>1. otCall' = [otCall EXCEPT ![c] = AtRest] BY DEF RefreshFails
  <2> QED BY <1>1, <2>1, RestState, CallerMoves
<1>4. /\ otCall[c].pc = "failed" /\ otLock' = [otLock EXCEPT ![CallerHome[c]] = Unlocked]
      /\ UNCHANGED <<otStore, otNewest, otMinter, otAge, otFile, otMem, otErr, otRisk, otFaults>>
  BY DEF RefreshFails, ReleaseLock
<1>5. TokenTypeOK' BY <1>1, <1>2, <1>3, <1>4 DEF TokenIInv, TokenTypeOK
<1>6. Known' BY <1>1, <1>2, <1>3, <1>4 DEF TokenIInv, Known, Mem, Holding, Seed, Login
<1>7. LockHeld' BY <1>1, <1>2, <1>3, <1>4 DEF TokenIInv, LockHeld, Mem, Holding, Seed, Login
<1>8. Unwritten' BY <1>1, <1>2, <1>3, <1>4 DEF TokenIInv, Unwritten, Mem, Holding, Seed, Login
<1>9. MinterKnows' BY <1>1, <1>2, <1>3, <1>4 DEF TokenIInv, MinterKnows, Mem, Holding, Seed, Login
<1>10. RefusalPasses' BY <1>1, <1>2, <1>3, <1>4 DEF TokenIInv, RefusalPasses, Mem, Holding, Seed, Login
<1>11. DurableChain' BY <1>1, <1>2, <1>3, <1>4 DEF TokenIInv, DurableChain, Mem, Holding, Seed, Login
<1> QED BY <1>5, <1>6, <1>7, <1>8, <1>9, <1>10, <1>11 DEF TokenIInv

LEMMA InvalidateTokenInv == ASSUME TokenIInv, NEW c \in TokenCallers, InvalidateToken(c) PROVE TokenIInv'
<1>1. /\ TokenTypeOK /\ CallerHome[c] \in Holders /\ otCall[c] \in CallState /\ Mem(c) \in Pair
      /\ Mem(c).refresh \in Nat /\ Mem(c).access \in Nat /\ c # Unlocked
      /\ \A d \in TokenCallers : CallerHome[d] \in Holders /\ d # Unlocked
  BY CallerFacts DEF TokenIInv
<1>2. /\ otNewest \in Nat /\ otNewest # 0 /\ otNewest <= MaxPairs /\ MaxPairs \in Nat /\ otFile \in Nat
      /\ \A q \in Holders : otMem[q].refresh \in Nat
  BY TokenConstants DEF TokenIInv, TokenTypeOK, Pair
<1>3. /\ otCall[c].pc = "idle"
      /\ UNCHANGED <<otStore, otNewest, otMinter, otAge, otFile, otErr, otLock, otRisk, otFaults>>
  BY DEF InvalidateToken
<1>4. /\ otCall' \in [TokenCallers -> CallState] /\ otCall'[c].pc = "idle"
      /\ \A d \in TokenCallers : d # c => otCall'[d] = otCall[d]
  <2>1. otCall' = [otCall EXCEPT ![c] = [otCall[c] EXCEPT !.token = 0]] BY <1>1 DEF InvalidateToken, TokenTypeOK
  <2> QED BY <1>1, <1>3, <2>1, CallStates, CallerMoves, ZenonT(40)
<1>5. otMem' \in [Holders -> Pair] /\ \A q \in Holders : otMem'[q].refresh = otMem[q].refresh
  <2>1. otMem' = [otMem EXCEPT ![CallerHome[c]].access = 0] BY DEF InvalidateToken
  <2> QED BY <1>1, <2>1 DEF TokenTypeOK, Pair
<1>6. TokenTypeOK' BY <1>1, <1>2, <1>3, <1>4, <1>5 DEF TokenIInv, TokenTypeOK
<1>7. Known' BY <1>1, <1>2, <1>3, <1>4, <1>5 DEF TokenIInv, Known, Mem, Holding, Seed, Login
<1>8. LockHeld' BY <1>1, <1>2, <1>3, <1>4, <1>5 DEF TokenIInv, LockHeld, Mem, Holding, Seed, Login
<1>9. Unwritten' BY <1>1, <1>2, <1>3, <1>4, <1>5 DEF TokenIInv, Unwritten, Mem, Holding, Seed, Login
<1>10. MinterKnows' BY <1>1, <1>2, <1>3, <1>4, <1>5 DEF TokenIInv, MinterKnows, Mem, Holding, Seed, Login
<1>11. RefusalPasses' BY <1>1, <1>2, <1>3, <1>4, <1>5 DEF TokenIInv, RefusalPasses, Mem, Holding, Seed, Login
<1>12. DurableChain' BY <1>1, <1>2, <1>3, <1>4, <1>5 DEF TokenIInv, DurableChain, Mem, Holding, Seed, Login
<1> QED BY <1>6, <1>7, <1>8, <1>9, <1>10, <1>11, <1>12 DEF TokenIInv

LEMMA RestartHolderInv == ASSUME TokenIInv, NEW p \in Holders, RestartHolder(p) PROVE TokenIInv'
<1>1. TokenTypeOK /\ \A d \in TokenCallers : CallerHome[d] \in Holders /\ d # Unlocked
  BY CallerFacts DEF TokenIInv
<1>2. /\ otNewest \in Nat /\ otNewest # 0 /\ otNewest <= MaxPairs /\ MaxPairs \in Nat /\ otFile \in Nat
      /\ \A q \in Holders : otMem[q].refresh \in Nat
  BY TokenConstants DEF TokenIInv, TokenTypeOK, Pair
<1>3. /\ otFaults' = otFaults + 1 /\ UNCHANGED <<otStore, otNewest, otMinter, otAge, otFile>>
      /\ otRisk' = (otRisk \/ \E c \in TokenCallers : CallerHome[c] = p /\ otCall[c].pc = "save")
  BY DEF RestartHolder, TokenFault
<1>4. /\ otCall' \in [TokenCallers -> CallState]
      /\ \A d \in TokenCallers : IF CallerHome[d] = p THEN otCall'[d].pc = "idle" ELSE otCall'[d] = otCall[d]
  <2>1. otCall' = [c \in TokenCallers |-> IF CallerHome[c] = p THEN AtRest ELSE otCall[c]]
    BY DEF RestartHolder
  <2> QED BY <1>1, <2>1, RestState DEF TokenTypeOK
<1>5. /\ otMem' \in [Holders -> Pair] /\ otMem'[p].refresh = IF otFile # 0 THEN otFile ELSE Seed
      /\ \A q \in Holders : q # p => otMem'[q] = otMem[q]
  <2>1. LoadTokens(otFile) \in Pair /\ LoadTokens(otFile).refresh = IF otFile # 0 THEN otFile ELSE Seed
    BY <1>2 DEF LoadTokens, Pair, Seed
  <2>2. otMem' = [otMem EXCEPT ![p] = LoadTokens(otFile)] BY DEF RestartHolder
  <2> QED BY <1>1, <2>1, <2>2, MemoryMoves
<1>6. /\ otErr' \in [Holders -> {"none", "error", "rejected"}]
      /\ \A q \in Holders : otErr'[q] = IF q = p THEN "none" ELSE otErr[q]
  BY <1>1 DEF RestartHolder, TokenTypeOK
<1>7. /\ otLock' \in [Holders -> TokenCallers \cup {Unlocked}]
      /\ \A q \in Holders : q # p => otLock'[q] = otLock[q]
  BY <1>1 DEF RestartHolder, TokenTypeOK
<1>8. ~ otRisk' => ~ otRisk /\ \A c \in TokenCallers : CallerHome[c] = p => otCall[c].pc # "save"
  BY <1>3
<1>9. TokenTypeOK'
  <2>1. otRisk' \in BOOLEAN BY <1>3
  <2>2. otFaults' \in Nat BY <1>1, <1>3 DEF TokenTypeOK
  <2> QED BY <1>1, <1>3, <1>4, <1>5, <1>6, <1>7, <2>1, <2>2 DEF TokenTypeOK
<1>10. Known' BY <1>2, <1>3, <1>5 DEF TokenIInv, Known, Seed
<1>11. LockHeld' BY <1>1, <1>4, <1>7 DEF TokenIInv, LockHeld, Holding
<1>12. Unwritten'
  <2> SUFFICES ASSUME NEW c \in TokenCallers, otCall'[c].pc = "save"
               PROVE  /\ otMinter = CallerHome[c] /\ Mem(c)'.refresh = otNewest /\ otFile # otNewest
                      /\ otNewest > Seed
                      /\ \A q \in Holders : q # CallerHome[c] => otMem'[q].refresh # otNewest
    BY <1>3 DEF Unwritten, Mem
  <2>1. CallerHome[c] # p /\ otCall[c].pc = "save" BY <1>4
  <2>2. /\ otMinter = CallerHome[c] /\ Mem(c).refresh = otNewest /\ otFile # otNewest /\ otNewest > Seed
        /\ \A q \in Holders : q # CallerHome[c] => otMem[q].refresh # otNewest
    BY <2>1 DEF TokenIInv, Unwritten
  <2> QED BY <1>1, <1>2, <1>5, <2>1, <2>2 DEF Mem, Seed
<1>13. MinterKnows'
  <2> SUFFICES ASSUME NEW q \in Holders, otMinter = q
               PROVE  otNewest > Seed /\ (otRisk' \/ otMem'[q].refresh = otNewest)
    BY <1>3 DEF MinterKnows
  <2>1. otNewest > Seed /\ (otRisk \/ otMem[q].refresh = otNewest) BY DEF TokenIInv, MinterKnows
  <2>2. CASE q # p BY <1>5, <1>8, <2>1, <2>2
  <2>3. CASE q = p
    <3> SUFFICES ASSUME ~ otRisk' PROVE otFile = otNewest
      BY <1>2, <1>5, <2>1, <2>3
    <3>1. \A c \in TokenCallers : otCall[c].pc # "save"
      BY <1>8, <2>3 DEF TokenIInv, Unwritten
    <3>2. otNewest # Seed BY <1>2, <2>1 DEF Seed
    <3> QED BY <1>8, <3>1, <3>2 DEF TokenIInv, DurableChain
  <2> QED BY <2>2, <2>3
<1>14. RefusalPasses'
  <2> SUFFICES ASSUME NEW q \in Holders, otMinter = q, otErr'[q] = "rejected", ~ otRisk'
               PROVE  \E c \in TokenCallers : CallerHome[c] = q /\ otCall'[c].pc = "save"
    BY <1>3 DEF RefusalPasses
  <2>1. q # p /\ otErr[q] = "rejected" BY <1>6
  <2>2. PICK c \in TokenCallers : CallerHome[c] = q /\ otCall[c].pc = "save"
    BY <1>8, <2>1 DEF TokenIInv, RefusalPasses
  <2> QED BY <1>4, <2>1, <2>2
<1>15. DurableChain'
  <2> SUFFICES ASSUME ~ otRisk', otFile # otNewest, otNewest # Seed
               PROVE  \E c \in TokenCallers : otCall'[c].pc = "save" /\ Mem(c)'.refresh = otNewest
    BY <1>3 DEF DurableChain, Mem
  <2>1. PICK c \in TokenCallers : otCall[c].pc = "save" /\ Mem(c).refresh = otNewest
    BY <1>8 DEF TokenIInv, DurableChain
  <2>2. CallerHome[c] # p BY <1>8, <2>1
  <2> QED BY <1>1, <1>4, <1>5, <2>1, <2>2 DEF Mem
<1> QED BY <1>9, <1>10, <1>11, <1>12, <1>13, <1>14, <1>15 DEF TokenIInv

LEMMA TokenAgesInv == TokenIInv /\ TokenAges => TokenIInv'
<1> SUFFICES ASSUME TokenIInv, TokenAges PROVE TokenIInv' OBVIOUS
<1>1. UNCHANGED <<otStore, otNewest, otMinter, otFile, otMem, otErr, otLock, otCall, otRisk, otFaults>>
  BY DEF TokenAges
<1>2. otAge' \in [1 .. MaxPairs -> 0 .. 2]
  <2>1. PICK n \in 1 .. otNewest : otAge[n] < 2 /\ otAge' = [otAge EXCEPT ![n] = @ + 1] BY DEF TokenAges
  <2>2. n \in 1 .. MaxPairs /\ otAge \in [1 .. MaxPairs -> 0 .. 2] BY TokenConstants DEF TokenIInv, TokenTypeOK
  <2>3. otAge[n] + 1 \in 0 .. 2 BY <2>1, <2>2
  <2> QED BY <2>1, <2>2, <2>3
<1>3. TokenTypeOK' BY <1>1, <1>2 DEF TokenIInv, TokenTypeOK
<1>4. Known' /\ LockHeld' /\ Unwritten' BY <1>1 DEF TokenIInv, Known, LockHeld, Unwritten, Mem
<1>5. MinterKnows' /\ RefusalPasses' BY <1>1 DEF TokenIInv, MinterKnows, RefusalPasses
<1>6. DurableChain' BY <1>1 DEF TokenIInv, DurableChain, Mem
<1> QED BY <1>3, <1>4, <1>5, <1>6 DEF TokenIInv

LEMMA SetTokensInv == TokenIInv /\ SetTokens => TokenIInv'
<1> SUFFICES ASSUME TokenIInv, SetTokens PROVE TokenIInv' OBVIOUS
<1>1. TokenTypeOK /\ \A d \in TokenCallers : CallerHome[d] \in Holders BY CallerFacts DEF TokenIInv
<1>2. /\ otNewest \in Nat /\ otNewest # 0 /\ MaxPairs \in Nat /\ otFile \in Nat
      /\ \A q \in Holders : otMem[q].refresh \in Nat
  BY TokenConstants DEF TokenIInv, TokenTypeOK, Pair
<1>3. /\ otNewest < MaxPairs /\ otNewest' = otNewest + 1 /\ otMinter' = Login
      /\ otAge' = [otAge EXCEPT ![otNewest + 1] = 0] /\ otFile' = otNewest + 1 /\ otRisk' = FALSE
      /\ UNCHANGED <<otStore, otMem, otErr, otLock, otCall, otFaults>>
      /\ \A p \in Holders : otMem[p].refresh # otNewest
  BY DEF SetTokens, ChainDead
<1>4. \A c \in TokenCallers : otCall[c].pc # "save" BY <1>1, <1>3 DEF TokenIInv, Unwritten, Mem
<1>5. Login \notin Holders BY TokenConstants DEF Login
<1>6. TokenTypeOK'
  <2>1. otNewest' \in 1 .. MaxPairs /\ otFile' \in Nat /\ otMinter' \in Holders \cup {Login} BY <1>2, <1>3
  <2>2. otAge' \in [1 .. MaxPairs -> 0 .. 2] BY <1>1, <1>2, <1>3 DEF TokenTypeOK
  <2>3. otRisk' \in BOOLEAN BY <1>3
  <2> QED BY <1>1, <1>3, <2>1, <2>2, <2>3 DEF TokenTypeOK
<1>7. Known' BY <1>2, <1>3 DEF TokenIInv, Known
<1>8. LockHeld' /\ Unwritten' BY <1>3, <1>4 DEF TokenIInv, LockHeld, Unwritten
<1>9. MinterKnows' /\ RefusalPasses' BY <1>3, <1>5 DEF MinterKnows, RefusalPasses
<1>10. DurableChain' BY <1>3 DEF DurableChain
<1> QED BY <1>6, <1>7, <1>8, <1>9, <1>10 DEF TokenIInv

LEMMA TokenInitInv == TokenInit => TokenIInv
<1> SUFFICES ASSUME TokenInit PROVE TokenIInv OBVIOUS
<1>1. otFile \in {0, Seed} /\ LoadTokens(otFile) \in Pair /\ LoadTokens(otFile).refresh = 1
  BY DEF TokenInit, LoadTokens, Pair, Seed
<1>2. /\ otStore \in {"anthropic", "codex"} /\ otNewest = 1 /\ otMinter = Login
      /\ otAge = [n \in 1 .. MaxPairs |-> 0] /\ otMem = [p \in Holders |-> LoadTokens(otFile)]
      /\ otErr = [p \in Holders |-> "none"] /\ otLock = [p \in Holders |-> Unlocked]
      /\ otCall = [c \in TokenCallers |-> AtRest] /\ otRisk = FALSE /\ otFaults = 0
  BY DEF TokenInit, Seed
<1>3. Login \notin Holders BY TokenConstants DEF Login
<1>4. TokenTypeOK
  <2>1. otMem \in [Holders -> Pair] /\ otCall \in [TokenCallers -> CallState] BY <1>1, <1>2, RestState
  <2>2. otNewest \in 1 .. MaxPairs /\ otAge \in [1 .. MaxPairs -> 0 .. 2] BY <1>2, TokenConstants
  <2>3. otFile \in Nat /\ otMinter \in Holders \cup {Login} /\ otFaults \in Nat BY <1>1, <1>2 DEF Seed
  <2>4. otErr \in [Holders -> {"none", "error", "rejected"}] BY <1>2
  <2>5. otLock \in [Holders -> TokenCallers \cup {Unlocked}] BY <1>2
  <2>6. otRisk \in BOOLEAN BY <1>2
  <2> QED BY <1>2, <2>1, <2>2, <2>3, <2>4, <2>5, <2>6 DEF TokenTypeOK
<1>5. Known BY <1>1, <1>2 DEF Known, Seed
<1>6. LockHeld /\ Unwritten BY <1>2, RestState DEF LockHeld, Unwritten, Holding
<1>7. MinterKnows /\ RefusalPasses BY <1>2, <1>3 DEF MinterKnows, RefusalPasses
<1>8. DurableChain BY <1>2 DEF DurableChain, Seed
<1> QED BY <1>4, <1>5, <1>6, <1>7, <1>8 DEF TokenIInv

LEMMA TokenStutter == TokenIInv /\ UNCHANGED tokenVars => TokenIInv'
  BY DEF TokenIInv, TokenTypeOK, Known, LockHeld, Unwritten, MinterKnows, RefusalPasses, DurableChain,
         Mem, tokenVars

-----------------------------------------------------------------------------
(* The theorem                                                                *)

LEMMA TokenInductive == TokenIInv /\ [TokenNext]_tokenVars => TokenIInv'
<1> SUFFICES ASSUME TokenIInv, [TokenNext]_tokenVars PROVE TokenIInv' OBVIOUS
<1> QED BY TokenStutter, NeedsRefreshInv, DoubleCheckInv, RefreshAnsweredInv, RefreshAnswerLostInv,
           RefreshUnreachableInv, RefreshRejectedInv, SaveTokensInv, ReloadFromDiskInv, RefreshFailsInv,
           InvalidateTokenInv, RestartHolderInv, TokenAgesInv, SetTokensInv DEF TokenNext

LEMMA TokenImplies == TokenIInv => TokenSound
<1> SUFFICES ASSUME TokenIInv, NEW p \in Holders, otErr[p] = "rejected", otLock[p] = Unlocked, ~ otRisk,
                    otMinter = p
             PROVE  FALSE
  BY DEF TokenIInv, TokenSound, RejectedByAnother
<1>1. PICK c \in TokenCallers : CallerHome[c] = p /\ otCall[c].pc = "save"
  BY DEF TokenIInv, RefusalPasses
<1>2. otLock[p] = c /\ c # Unlocked BY <1>1, CallerFacts DEF TokenIInv, LockHeld, Holding
<1> QED BY <1>2

\* However many processes share a token file and wherever they crash: unless an
\* answer or a write was lost, the newest pair is on disk or one step away from
\* it, and no process burns its own refresh token (token.go: the second look
\* under the write lock, the write before the lock is released, the reload of
\* the file before giving up).
THEOREM TokensAreSound == TokenSpec => []TokenSound
<1>1. TokenSpec => []TokenIInv BY TokenInitInv, TokenInductive, PTL DEF TokenSpec
<1> QED BY <1>1, TokenImplies, PTL

-----------------------------------------------------------------------------
(* The component McpManager                                                   *)

JobNames == {Background(e) : e \in Nat} \cup {Foreground(c) : c \in McpCallers}
Connection == [job : JobNames, n : Nat, server : DOMAIN McpNames]
Entry == [sig : Nat, tools : Nat, clients : SUBSET Connection,
          stale : BOOLEAN, refreshing : BOOLEAN, blind : BOOLEAN]
Job == [pc : {"list", "dial", "swap", "close"}, entry : Nat, sig : Nat, listed : Nat, n : Nat,
        clients : SUBSET Connection, old : SUBSET Connection]
Call == [pc : {"idle", "sign", "look", "connect", "tools"}, entry : Nat, sig : Nat]

McpTypeOK ==
    /\ mcVersion \in DOMAIN McpServers
    /\ mcEntries \in Seq(Entry)
    /\ mcEntry \in {0} \cup DOMAIN mcEntries
    /\ mcCalls \in [McpCallers -> Call]
    /\ \A c \in McpCallers : mcCalls[c].pc # "idle" => mcCalls[c].entry \in DOMAIN mcEntries
    /\ DOMAIN mcJobs \subseteq JobNames
    /\ \A j \in DOMAIN mcJobs : mcJobs[j] \in Job /\ mcJobs[j].entry \in DOMAIN mcEntries
    /\ mcConnects \in Nat /\ mcErrors \in Nat

\* A signature is never newer than the configuration, nor than the rows a
\* connection reads under it.
SignedBefore ==
    /\ \A c \in McpCallers : mcCalls[c].sig <= mcVersion
    /\ \A j \in DOMAIN mcJobs :
          /\ mcJobs[j].sig <= mcVersion
          /\ mcJobs[j].pc \in {"dial", "swap"} =>
                mcJobs[j].sig <= mcJobs[j].listed /\ mcJobs[j].listed \in DOMAIN McpServers

\* A connection belongs to the run of connectSoul that opened it, which knows it
\* by its number; what the run has not swapped in is in no entry.
RunsApart ==
    /\ \A j \in DOMAIN mcJobs :
          /\ mcJobs[j].n < mcConnects
          /\ \A k \in mcJobs[j].clients : k.n = mcJobs[j].n
          /\ mcJobs[j].pc \in {"list", "dial"} => mcJobs[j].clients = {}
          /\ mcJobs[j].pc # "close" => mcJobs[j].old = {}
          /\ mcJobs[j].pc = "swap" => mcJobs[j].clients \subseteq mcOpen
    /\ \A i, j \in DOMAIN mcJobs : mcJobs[i].n = mcJobs[j].n => i = j

\* Entries share no connection with one another, nor with a run to come.
EntriesApart ==
    /\ \A e \in DOMAIN mcEntries : \A k \in mcEntries[e].clients :
          /\ k.n < mcConnects
          /\ \A j \in DOMAIN mcJobs : mcJobs[j].n = k.n => mcJobs[j].pc = "close"
    /\ \A e, f \in DOMAIN mcEntries : \A k \in mcEntries[e].clients, l \in mcEntries[f].clients :
          k.n = l.n => e = f

\* What a run will close is in no entry and belongs to no run that still swaps.
ReplacedApart ==
    \A i \in DOMAIN mcJobs : \A k \in mcJobs[i].old :
        /\ k.n < mcConnects
        /\ \A e \in DOMAIN mcEntries : \A l \in mcEntries[e].clients : k.n # l.n
        /\ \A j \in DOMAIN mcJobs : mcJobs[j].n = k.n => mcJobs[j].pc = "close"

\* No two connections of a set answer to one tool name.
Unambiguous(K) == \A k, l \in K : k # l => McpNames[k.server] \cap McpNames[l.server] = {}
NamesApart ==
    /\ \A e \in DOMAIN mcEntries : Unambiguous(mcEntries[e].clients)
    /\ \A j \in DOMAIN mcJobs : Unambiguous(mcJobs[j].clients)

McpIInv ==
    /\ McpTypeOK /\ SignedBefore /\ ChangeIsSeen /\ RunsApart /\ EntriesApart /\ ReplacedApart
    /\ ServedAreOpen /\ NamesApart

-----------------------------------------------------------------------------
(* What one step changes                                                      *)

\* One run of connectSoul moves.
LEMMA RunMoves ==
  ASSUME McpTypeOK, NEW j \in DOMAIN mcJobs, NEW r \in Job, mcJobs' = [mcJobs EXCEPT ![j] = r]
  PROVE  /\ DOMAIN mcJobs' = DOMAIN mcJobs /\ mcJobs'[j] = r
         /\ \A i \in DOMAIN mcJobs : i # j => mcJobs'[i] = mcJobs[i]
  OBVIOUS

\* A run of connectSoul ends.
LEMMA RunEnds ==
  ASSUME NEW j \in DOMAIN mcJobs, EndJob(j)
  PROVE  DOMAIN mcJobs' = DOMAIN mcJobs \ {j} /\ \A i \in DOMAIN mcJobs' : mcJobs'[i] = mcJobs[i]
  BY DEF EndJob

\* A run of connectSoul starts.
LEMMA RunStarts ==
  ASSUME McpTypeOK, NEW j \in JobNames, NEW e \in DOMAIN mcEntries, NEW sig \in Nat, StartJob(j, e, sig)
  PROVE  /\ DOMAIN mcJobs' = DOMAIN mcJobs \cup {j} /\ mcJobs'[j] \in Job
         /\ mcJobs'[j].pc = "list" /\ mcJobs'[j].entry = e /\ mcJobs'[j].sig = sig
         /\ mcJobs'[j].n = mcConnects /\ mcJobs'[j].clients = {} /\ mcJobs'[j].old = {}
         /\ \A i \in DOMAIN mcJobs : i # j => mcJobs'[i] = mcJobs[i]
<1> DEFINE r == [pc |-> "list", entry |-> e, sig |-> sig, listed |-> 0, n |-> mcConnects,
                 clients |-> {}, old |-> {}]
<1>1. e \in Nat /\ mcConnects \in Nat BY DEF McpTypeOK
<1>2. /\ r \in Job /\ r.pc = "list" /\ r.entry = e /\ r.sig = sig /\ r.n = mcConnects
      /\ r.clients = {} /\ r.old = {}
  BY <1>1 DEF Job
<1>3. mcJobs' = [k \in DOMAIN mcJobs \cup {j} |-> IF k = j THEN r ELSE mcJobs[k]] BY DEF StartJob
<1> HIDE DEF r
<1> QED BY <1>2, <1>3

\* One entry is written.
LEMMA EntryMoves ==
  ASSUME McpTypeOK, NEW e \in DOMAIN mcEntries, NEW r \in Entry, mcEntries' = [mcEntries EXCEPT ![e] = r]
  PROVE  /\ DOMAIN mcEntries' = DOMAIN mcEntries /\ mcEntries' \in Seq(Entry) /\ mcEntries'[e] = r
         /\ \A f \in DOMAIN mcEntries : f # e => mcEntries'[f] = mcEntries[f]
  BY DEF McpTypeOK

\* A cold entry is added.
LEMMA EntryAdded ==
  ASSUME McpTypeOK, mcEntries' = Append(mcEntries, ColdEntry)
  PROVE  /\ mcEntries' \in Seq(Entry) /\ Len(mcEntries) + 1 \in DOMAIN mcEntries' /\ Len(mcEntries) \in Nat
         /\ DOMAIN mcEntries' = DOMAIN mcEntries \cup {Len(mcEntries) + 1}
         /\ Len(mcEntries) + 1 \notin DOMAIN mcEntries
         /\ mcEntries'[Len(mcEntries) + 1] = ColdEntry
         /\ \A f \in DOMAIN mcEntries : mcEntries'[f] = mcEntries[f]
<1>1. ColdEntry \in Entry BY DEF ColdEntry, Entry
<1>2. mcEntries \in Seq(Entry) BY DEF McpTypeOK
<1> QED BY <1>1, <1>2

LEMMA ColdFacts == ColdEntry.sig = 0 /\ ColdEntry.tools = 0 /\ ColdEntry.clients = {} /\ ColdEntry \in Entry
  BY DEF ColdEntry, Entry

\* One caller moves.
LEMMA CallMoves ==
  ASSUME McpTypeOK, NEW c \in McpCallers, NEW r \in Call, mcCalls' = [mcCalls EXCEPT ![c] = r]
  PROVE  /\ mcCalls' \in [McpCallers -> Call] /\ mcCalls'[c] = r
         /\ \A d \in McpCallers : d # c => mcCalls'[d] = mcCalls[d]
  BY DEF McpTypeOK

\* The types of what a step reads.
LEMMA McpTyped ==
  ASSUME McpTypeOK
  PROVE  /\ mcVersion \in Nat /\ mcVersion <= Len(McpServers) /\ mcVersion > 0 /\ Len(McpServers) \in Nat
         /\ DOMAIN McpServers = 1 .. Len(McpServers)
         /\ \A e \in DOMAIN mcEntries : /\ mcEntries[e] \in Entry /\ e \in Nat \ {0}
                                        /\ mcEntries[e].sig \in Nat /\ mcEntries[e].tools \in Nat
                                        /\ \A k \in mcEntries[e].clients : k.n \in Nat
         /\ \A j \in DOMAIN mcJobs : /\ mcJobs[j] \in Job /\ mcJobs[j].n \in Nat /\ mcJobs[j].sig \in Nat
                                     /\ mcJobs[j].entry \in DOMAIN mcEntries /\ mcJobs[j].listed \in Nat
                                     /\ mcJobs[j].clients \subseteq Connection
                                     /\ \A k \in mcJobs[j].old : k.n \in Nat
         /\ \A c \in McpCallers : mcCalls[c] \in Call /\ mcCalls[c].sig \in Nat
<1>1. /\ mcVersion \in Nat /\ mcVersion <= Len(McpServers) /\ mcVersion > 0 /\ Len(McpServers) \in Nat
      /\ DOMAIN McpServers = 1 .. Len(McpServers)
  BY McpConstants DEF McpTypeOK
<1>2. \A e \in DOMAIN mcEntries : mcEntries[e] \in Entry /\ e \in Nat \ {0} BY DEF McpTypeOK
<1>3. \A k \in Connection : k.n \in Nat BY DEF Connection
<1>4. \A e \in DOMAIN mcEntries : /\ mcEntries[e].sig \in Nat /\ mcEntries[e].tools \in Nat
                                  /\ \A k \in mcEntries[e].clients : k.n \in Nat
  BY <1>2, <1>3 DEF Entry
<1>5. \A j \in DOMAIN mcJobs : mcJobs[j] \in Job /\ mcJobs[j].entry \in DOMAIN mcEntries BY DEF McpTypeOK
<1>6. \A j \in DOMAIN mcJobs : /\ mcJobs[j].n \in Nat /\ mcJobs[j].sig \in Nat /\ mcJobs[j].listed \in Nat
                               /\ mcJobs[j].clients \subseteq Connection
                               /\ \A k \in mcJobs[j].old : k.n \in Nat
  BY <1>3, <1>5 DEF Job
<1>7. \A c \in McpCallers : mcCalls[c] \in Call /\ mcCalls[c].sig \in Nat BY DEF McpTypeOK, Call
<1> QED BY <1>1, <1>2, <1>4, <1>5, <1>6, <1>7

-----------------------------------------------------------------------------
(* One lemma per step                                                         *)

\* A step of a caller that reads and writes nothing but its own state.
LEMMA CallerOnly ==
  ASSUME McpIInv, NEW c \in McpCallers, NEW r \in Call, mcCalls' = [mcCalls EXCEPT ![c] = r],
         r.pc # "idle" => r.entry \in DOMAIN mcEntries, r.sig <= mcVersion,
         UNCHANGED <<mcVersion, mcEntry, mcEntries, mcJobs, mcOpen, mcConnects, mcErrors>>
  PROVE  McpIInv'
<1>1. /\ mcCalls' \in [McpCallers -> Call] /\ mcCalls'[c] = r
      /\ \A d \in McpCallers : d # c => mcCalls'[d] = mcCalls[d]
  BY CallMoves DEF McpIInv
<1>2. McpTypeOK' BY <1>1 DEF McpIInv, McpTypeOK
<1>3. SignedBefore' BY <1>1 DEF McpIInv, SignedBefore
<1>4. ChangeIsSeen' /\ ServedAreOpen' BY DEF McpIInv, ChangeIsSeen, ServedAreOpen
<1>5. RunsApart' /\ EntriesApart' /\ ReplacedApart' BY DEF McpIInv, RunsApart, EntriesApart, ReplacedApart
<1>6. NamesApart' BY DEF McpIInv, NamesApart
<1> QED BY <1>2, <1>3, <1>4, <1>5, <1>6 DEF McpIInv

LEMMA ServersSignatureInv == ASSUME McpIInv, NEW c \in McpCallers, ServersSignature(c) PROVE McpIInv'
<1>1. McpTypeOK /\ mcCalls[c] \in Call /\ mcVersion \in Nat BY McpTyped DEF McpIInv
<1> DEFINE r == [mcCalls[c] EXCEPT !.pc = "look", !.sig = mcVersion]
<1>2. r \in Call /\ r.entry = mcCalls[c].entry /\ r.sig = mcVersion BY <1>1 DEF Call
<1>3. mcCalls[c].entry \in DOMAIN mcEntries BY <1>1 DEF McpTypeOK, ServersSignature
<1>4. mcCalls' = [mcCalls EXCEPT ![c] = r] BY <1>1 DEF ServersSignature, McpTypeOK
<1>5. UNCHANGED <<mcVersion, mcEntry, mcEntries, mcJobs, mcOpen, mcConnects, mcErrors>>
  BY DEF ServersSignature
<1> HIDE DEF r
<1>6. r.sig <= mcVersion BY <1>1, <1>2
<1> QED BY <1>2, <1>3, <1>4, <1>5, <1>6, CallerOnly

LEMMA TakeConnectedInv == ASSUME McpIInv, NEW c \in McpCallers, TakeConnected(c) PROVE McpIInv'
<1>1. McpTypeOK /\ mcCalls[c] \in Call BY McpTyped DEF McpIInv
<1> DEFINE r == [mcCalls[c] EXCEPT !.pc = "tools"]
<1>2. r \in Call /\ r.entry = mcCalls[c].entry /\ r.sig = mcCalls[c].sig BY <1>1 DEF Call
<1>3. mcCalls[c].entry \in DOMAIN mcEntries BY <1>1 DEF McpTypeOK, TakeConnected
<1>4. mcCalls' = [mcCalls EXCEPT ![c] = r] BY <1>1 DEF TakeConnected, McpTypeOK
<1>5. UNCHANGED <<mcVersion, mcEntry, mcEntries, mcJobs, mcOpen, mcConnects, mcErrors>>
  BY DEF TakeConnected
<1> HIDE DEF r
<1>6. r.sig <= mcVersion BY <1>2 DEF McpIInv, SignedBefore
<1> QED BY <1>2, <1>3, <1>4, <1>5, <1>6, CallerOnly

LEMMA IdleFacts == IdleCall \in Call /\ IdleCall.pc = "idle" /\ IdleCall.sig = 0
  BY DEF IdleCall, Call

LEMMA CortexTurnInv == ASSUME McpIInv, NEW c \in McpCallers, CortexTurn(c) PROVE McpIInv'
<1>1. mcCalls' = [mcCalls EXCEPT ![c] = IdleCall] BY DEF CortexTurn
<1>2. UNCHANGED <<mcVersion, mcEntry, mcEntries, mcJobs, mcOpen, mcConnects, mcErrors>> BY DEF CortexTurn
<1>3. IdleCall.sig <= mcVersion BY McpTyped, IdleFacts DEF McpIInv
<1> QED BY <1>1, <1>2, <1>3, IdleFacts, CallerOnly

\* A new cold entry, which the caller goes on with.
LEMMA NewEntry ==
  ASSUME McpIInv, NEW c \in McpCallers, mcEntry' = Len(mcEntries) + 1,
         mcEntries' = Append(mcEntries, ColdEntry),
         mcCalls' = [mcCalls EXCEPT ![c] = [IdleCall EXCEPT !.pc = "sign", !.entry = mcEntry']],
         UNCHANGED <<mcVersion, mcJobs, mcConnects, mcErrors>>
  PROVE  /\ McpTypeOK' /\ SignedBefore' /\ ChangeIsSeen' /\ EntriesApart' /\ ReplacedApart'
         /\ ServedAreOpen' /\ NamesApart'
<1>1. /\ mcEntries' \in Seq(Entry) /\ Len(mcEntries) + 1 \in DOMAIN mcEntries' /\ Len(mcEntries) \in Nat
      /\ DOMAIN mcEntries' = DOMAIN mcEntries \cup {Len(mcEntries) + 1}
      /\ Len(mcEntries) + 1 \notin DOMAIN mcEntries
      /\ mcEntries'[Len(mcEntries) + 1] = ColdEntry
      /\ \A f \in DOMAIN mcEntries : mcEntries'[f] = mcEntries[f]
  BY EntryAdded DEF McpIInv
<1> DEFINE r == [IdleCall EXCEPT !.pc = "sign", !.entry = mcEntry']
<1>2. r \in Call /\ r.entry = mcEntry' /\ r.sig = 0
  <2>1. mcEntry' \in Nat BY <1>1
  <2> QED BY <2>1 DEF IdleCall, Call
<1>3. mcCalls' = [mcCalls EXCEPT ![c] = r] OBVIOUS
<1> HIDE DEF r
<1>4. /\ mcCalls' \in [McpCallers -> Call] /\ mcCalls'[c] = r
      /\ \A d \in McpCallers : d # c => mcCalls'[d] = mcCalls[d]
  BY <1>2, <1>3, CallMoves DEF McpIInv
<1>5. McpTypeOK' BY <1>1, <1>2, <1>4 DEF McpIInv, McpTypeOK
<1>6. SignedBefore'
  <2>1. mcVersion \in Nat BY McpTyped DEF McpIInv
  <2>2. r.sig <= mcVersion BY <1>2, <2>1
  <2> QED BY <1>4, <2>2 DEF McpIInv, SignedBefore
<1>7. ChangeIsSeen' BY <1>1, ColdFacts DEF McpIInv, ChangeIsSeen
<1>8. EntriesApart' BY <1>1, ColdFacts DEF McpIInv, EntriesApart
<1>9. ReplacedApart' BY <1>1, ColdFacts DEF McpIInv, ReplacedApart
<1>10. ServedAreOpen' BY <1>1, ColdFacts DEF ServedAreOpen
<1>11. NamesApart' BY <1>1, ColdFacts DEF McpIInv, NamesApart, Unambiguous
<1> QED BY <1>5, <1>6, <1>7, <1>8, <1>9, <1>10, <1>11

LEMMA TakeEntryInv == ASSUME McpIInv, NEW c \in McpCallers, TakeEntry(c) PROVE McpIInv'
<1>1. CASE mcEntry # 0
  <2> DEFINE r == [IdleCall EXCEPT !.pc = "sign", !.entry = mcEntry']
  <2>1. UNCHANGED <<mcVersion, mcEntry, mcEntries, mcJobs, mcOpen, mcConnects, mcErrors>>
    BY <1>1 DEF TakeEntry
  <2>2. mcEntry \in DOMAIN mcEntries /\ mcEntry \in Nat BY <1>1, McpTyped DEF McpIInv, McpTypeOK
  <2>3. r \in Call /\ r.entry = mcEntry /\ r.sig = 0 BY <2>1, <2>2 DEF IdleCall, Call
  <2>4. mcCalls' = [mcCalls EXCEPT ![c] = r] BY DEF TakeEntry
  <2> HIDE DEF r
  <2>5. r.sig <= mcVersion BY <2>3, McpTyped DEF McpIInv
  <2> QED BY <2>1, <2>2, <2>3, <2>4, <2>5, CallerOnly
<1>2. CASE mcEntry = 0
  <2>1. /\ mcEntry' = Len(mcEntries) + 1 /\ mcEntries' = Append(mcEntries, ColdEntry)
        /\ mcCalls' = [mcCalls EXCEPT ![c] = [IdleCall EXCEPT !.pc = "sign", !.entry = mcEntry']]
        /\ UNCHANGED <<mcVersion, mcJobs, mcOpen, mcConnects, mcErrors>>
    BY <1>2 DEF TakeEntry
  <2>2. /\ McpTypeOK' /\ SignedBefore' /\ ChangeIsSeen' /\ EntriesApart' /\ ReplacedApart'
        /\ ServedAreOpen' /\ NamesApart'
    BY <2>1, NewEntry
  <2>3. RunsApart' BY <2>1 DEF McpIInv, RunsApart
  <2> QED BY <2>2, <2>3 DEF McpIInv
<1> QED BY <1>1, <1>2

LEMMA RefreshMCPInv == ASSUME McpIInv, NEW c \in McpCallers, RefreshMCP(c) PROVE McpIInv'
<1>1. /\ mcEntry # 0 /\ mcEntry' = Len(mcEntries) + 1 /\ mcEntries' = Append(mcEntries, ColdEntry)
      /\ mcCalls' = [mcCalls EXCEPT ![c] = [IdleCall EXCEPT !.pc = "sign", !.entry = mcEntry']]
      /\ mcOpen' = mcOpen \ mcEntries[mcEntry].clients
      /\ UNCHANGED <<mcVersion, mcJobs, mcConnects, mcErrors>>
  BY DEF RefreshMCP
<1>2. /\ McpTypeOK' /\ SignedBefore' /\ ChangeIsSeen' /\ EntriesApart' /\ ReplacedApart'
      /\ ServedAreOpen' /\ NamesApart'
  BY <1>1, NewEntry
<1>3. mcEntry \in DOMAIN mcEntries BY <1>1 DEF McpIInv, McpTypeOK
<1>4. \A j \in DOMAIN mcJobs : mcJobs[j].pc = "swap" => mcJobs[j].clients \cap mcEntries[mcEntry].clients = {}
  BY <1>3 DEF McpIInv, EntriesApart, RunsApart
<1>5. RunsApart' BY <1>1, <1>4 DEF McpIInv, RunsApart
<1> QED BY <1>2, <1>5 DEF McpIInv

\* A flag of an entry changes; what it holds and how it is signed stays.
LEMMA FlagOnly ==
  ASSUME McpIInv, NEW e \in DOMAIN mcEntries, NEW r \in Entry, mcEntries' = [mcEntries EXCEPT ![e] = r],
         r.clients = mcEntries[e].clients, r.sig = mcEntries[e].sig, r.tools = mcEntries[e].tools,
         r.blind = mcEntries[e].blind
  PROVE  /\ DOMAIN mcEntries' = DOMAIN mcEntries /\ mcEntries' \in Seq(Entry)
         /\ \A f \in DOMAIN mcEntries :
               /\ mcEntries'[f].clients = mcEntries[f].clients /\ mcEntries'[f].sig = mcEntries[f].sig
               /\ mcEntries'[f].tools = mcEntries[f].tools /\ mcEntries'[f].blind = mcEntries[f].blind
  BY EntryMoves DEF McpIInv

\* A run that starts has a number of its own and holds nothing.
LEMMA StartInv ==
  ASSUME McpIInv, NEW j \in JobNames, NEW e \in DOMAIN mcEntries, NEW sig \in Nat, StartJob(j, e, sig),
         sig <= mcVersion, mcConnects' = mcConnects + 1,
         mcCalls' \in [McpCallers -> Call],
         \A d \in McpCallers : mcCalls'[d].pc # "idle" => mcCalls'[d].entry \in DOMAIN mcEntries,
         \A d \in McpCallers : mcCalls'[d].sig <= mcVersion,
         mcEntries' \in Seq(Entry), DOMAIN mcEntries' = DOMAIN mcEntries,
         \A f \in DOMAIN mcEntries :
               /\ mcEntries'[f].clients = mcEntries[f].clients /\ mcEntries'[f].sig = mcEntries[f].sig
               /\ mcEntries'[f].tools = mcEntries[f].tools /\ mcEntries'[f].blind = mcEntries[f].blind,
         UNCHANGED <<mcVersion, mcEntry, mcOpen, mcErrors>>
  PROVE  McpIInv'
<1>1. /\ DOMAIN mcJobs' = DOMAIN mcJobs \cup {j} /\ mcJobs'[j] \in Job
      /\ mcJobs'[j].pc = "list" /\ mcJobs'[j].entry = e /\ mcJobs'[j].sig = sig
      /\ mcJobs'[j].n = mcConnects /\ mcJobs'[j].clients = {} /\ mcJobs'[j].old = {}
      /\ \A i \in DOMAIN mcJobs : i # j => mcJobs'[i] = mcJobs[i]
  BY RunStarts DEF McpIInv
<1>2. /\ mcConnects \in Nat
      /\ \A i \in DOMAIN mcJobs : mcJobs[i].n \in Nat /\ mcJobs[i].n < mcConnects
      /\ \A f \in DOMAIN mcEntries : \A k \in mcEntries[f].clients : k.n \in Nat /\ k.n < mcConnects
      /\ \A i \in DOMAIN mcJobs : \A k \in mcJobs[i].old : k.n \in Nat /\ k.n < mcConnects
  BY McpTyped DEF McpIInv, McpTypeOK, RunsApart, EntriesApart, ReplacedApart
<1>3. McpTypeOK' BY <1>1, <1>2 DEF McpIInv, McpTypeOK
<1>4. SignedBefore' BY <1>1 DEF McpIInv, SignedBefore
<1>5. ChangeIsSeen' BY DEF McpIInv, ChangeIsSeen
<1>6. RunsApart'
  <2>1. \A i \in DOMAIN mcJobs' : mcJobs'[i].n < mcConnects' BY <1>1, <1>2
  <2>2. \A i, k \in DOMAIN mcJobs' : mcJobs'[i].n = mcJobs'[k].n => i = k
    BY <1>1, <1>2 DEF McpIInv, RunsApart
  <2> QED BY <1>1, <2>1, <2>2 DEF McpIInv, RunsApart
<1>7. EntriesApart'
  <2>1. EntriesApart BY DEF McpIInv
  <2>2. ASSUME NEW f \in DOMAIN mcEntries, NEW k \in mcEntries[f].clients
        PROVE  /\ k.n < mcConnects'
               /\ \A i \in DOMAIN mcJobs' : mcJobs'[i].n = k.n => mcJobs'[i].pc = "close"
    <3>1. k.n \in Nat /\ k.n < mcConnects BY <1>2
    <3>2. k.n < mcConnects' BY <1>2, <3>1
    <3>3. k.n # mcConnects BY <1>2, <3>1
    <3>4. \A i \in DOMAIN mcJobs : mcJobs[i].n = k.n => mcJobs[i].pc = "close" BY <2>1 DEF EntriesApart
    <3> QED BY <1>1, <3>2, <3>3, <3>4
  <2>3. \A f, g \in DOMAIN mcEntries : \A k \in mcEntries[f].clients, l \in mcEntries[g].clients : k.n = l.n => f = g
    BY <2>1 DEF EntriesApart
  <2> QED BY <2>2, <2>3 DEF EntriesApart
<1>8. ReplacedApart' BY <1>1, <1>2 DEF McpIInv, ReplacedApart
<1>9. ServedAreOpen' BY DEF McpIInv, ServedAreOpen, McpTypeOK
<1>10. NamesApart' BY <1>1 DEF McpIInv, NamesApart, Unambiguous
<1> QED BY <1>3, <1>4, <1>5, <1>6, <1>7, <1>8, <1>9, <1>10 DEF McpIInv

LEMMA LookAtCacheInv == ASSUME McpIInv, NEW c \in McpCallers, LookAtCache(c) PROVE McpIInv'
<1> DEFINE call == mcCalls[c]
           e == mcCalls[c].entry
<1>1. McpTypeOK /\ call \in Call /\ call.sig \in Nat BY McpTyped DEF McpIInv
<1>2. call.pc = "look" /\ UNCHANGED <<mcVersion, mcEntry, mcOpen, mcErrors>> BY DEF LookAtCache
<1>3. e \in DOMAIN mcEntries /\ e \in Nat BY <1>1, <1>2, McpTyped DEF McpTypeOK
<1>4. \A d \in McpCallers : mcCalls[d].sig <= mcVersion BY DEF McpIInv, SignedBefore
<1>5. \A pc \in {"tools", "connect"} :
         LET r == [call EXCEPT !.pc = pc] IN r \in Call /\ r.entry = e /\ r.sig = call.sig
  BY <1>1 DEF Call
<1>6. ASSUME NEW pc \in {"tools", "connect"}, mcCalls' = [mcCalls EXCEPT ![c].pc = pc]
      PROVE  /\ mcCalls' \in [McpCallers -> Call]
             /\ \A d \in McpCallers : mcCalls'[d].pc # "idle" => mcCalls'[d].entry \in DOMAIN mcEntries
             /\ \A d \in McpCallers : mcCalls'[d].sig <= mcVersion
  <2> DEFINE r == [call EXCEPT !.pc = pc]
  <2>1. r \in Call /\ r.entry = e /\ r.sig = call.sig BY <1>5
  <2>2. mcCalls' = [mcCalls EXCEPT ![c] = r] BY <1>1, <1>6 DEF McpTypeOK
  <2> HIDE DEF r
  <2>3. /\ mcCalls' \in [McpCallers -> Call] /\ mcCalls'[c] = r
        /\ \A d \in McpCallers : d # c => mcCalls'[d] = mcCalls[d]
    BY <1>1, <2>1, <2>2, CallMoves
  <2> QED BY <1>1, <1>3, <1>4, <2>1, <2>3 DEF McpTypeOK
<1>7. CASE /\ mcCalls' = [mcCalls EXCEPT ![c].pc = "tools"]
           /\ mcEntries' = [mcEntries EXCEPT ![e].refreshing = TRUE]
           /\ StartJob(Background(e), e, call.sig) /\ mcConnects' = mcConnects + 1
  <2> DEFINE r == [mcEntries[e] EXCEPT !.refreshing = TRUE]
  <2>1. mcEntries[e] \in Entry BY <1>1, <1>3, McpTyped
  <2>2. /\ r \in Entry /\ r.clients = mcEntries[e].clients /\ r.sig = mcEntries[e].sig
        /\ r.tools = mcEntries[e].tools /\ r.blind = mcEntries[e].blind
    BY <2>1 DEF Entry
  <2>3. mcEntries' = [mcEntries EXCEPT ![e] = r] BY <1>3, <1>7
  <2> HIDE DEF r
  <2>4. /\ DOMAIN mcEntries' = DOMAIN mcEntries /\ mcEntries' \in Seq(Entry)
        /\ \A f \in DOMAIN mcEntries :
              /\ mcEntries'[f].clients = mcEntries[f].clients /\ mcEntries'[f].sig = mcEntries[f].sig
              /\ mcEntries'[f].tools = mcEntries[f].tools /\ mcEntries'[f].blind = mcEntries[f].blind
    BY <1>3, <2>2, <2>3, FlagOnly
  <2>5. Background(e) \in JobNames BY <1>3 DEF JobNames
  <2>6. call.sig <= mcVersion BY <1>4
  <2> HIDE DEF call, e
  <2> QED BY <1>1, <1>2, <1>3, <1>6, <1>7, <2>4, <2>5, <2>6, StartInv
<1>8. CASE /\ mcCalls' = [mcCalls EXCEPT ![c].pc = "connect"]
           /\ StartJob(Foreground(c), e, call.sig) /\ mcConnects' = mcConnects + 1 /\ mcEntries' = mcEntries
  <2>1. Foreground(c) \in JobNames BY DEF JobNames
  <2>2. call.sig <= mcVersion BY <1>4
  <2>3. mcEntries' \in Seq(Entry) BY <1>1, <1>8 DEF McpTypeOK
  <2> HIDE DEF call, e
  <2> QED BY <1>1, <1>2, <1>3, <1>6, <1>8, <2>1, <2>2, <2>3, StartInv
<1>9. CASE /\ mcCalls' = [mcCalls EXCEPT ![c].pc = "tools"] \/ mcCalls' = [mcCalls EXCEPT ![c] = IdleCall]
           /\ UNCHANGED <<mcEntries, mcJobs, mcConnects>>
  <2> DEFINE r == [call EXCEPT !.pc = "tools"]
  <2>1. r \in Call /\ r.entry = e /\ r.sig = call.sig BY <1>5
  <2>2. mcCalls' = [mcCalls EXCEPT ![c] = r] \/ mcCalls' = [mcCalls EXCEPT ![c] = IdleCall]
    BY <1>1, <1>9 DEF McpTypeOK
  <2> HIDE DEF r
  <2>3. r.sig <= mcVersion BY <1>4, <2>1
  <2>4. IdleCall.sig <= mcVersion BY <1>1, McpTyped, IdleFacts
  <2>5. UNCHANGED <<mcVersion, mcEntry, mcEntries, mcJobs, mcOpen, mcConnects, mcErrors>> BY <1>2, <1>9
  <2>6. CASE mcCalls' = [mcCalls EXCEPT ![c] = r] BY <1>3, <2>1, <2>3, <2>5, <2>6, CallerOnly
  <2>7. CASE mcCalls' = [mcCalls EXCEPT ![c] = IdleCall] BY <2>4, <2>5, <2>7, IdleFacts, CallerOnly
  <2> QED BY <2>2, <2>6, <2>7
<1> QED BY <1>7, <1>8, <1>9 DEF LookAtCache


LEMMA ListServersInv == ASSUME McpIInv, NEW j \in DOMAIN mcJobs, ListServers(j) PROVE McpIInv'
<1>1. McpTypeOK /\ mcJobs[j] \in Job /\ mcVersion \in Nat BY McpTyped DEF McpIInv
<1> DEFINE r == [mcJobs[j] EXCEPT !.pc = "dial", !.listed = mcVersion]
<1>2. /\ r \in Job /\ r.pc = "dial" /\ r.listed = mcVersion /\ r.entry = mcJobs[j].entry
      /\ r.sig = mcJobs[j].sig /\ r.n = mcJobs[j].n /\ r.clients = mcJobs[j].clients /\ r.old = mcJobs[j].old
  BY <1>1 DEF Job
<1>3. mcJobs' = [mcJobs EXCEPT ![j] = r] BY DEF ListServers
<1>4. /\ mcJobs[j].pc = "list"
      /\ UNCHANGED <<mcVersion, mcEntry, mcEntries, mcCalls, mcOpen, mcConnects, mcErrors>>
  BY DEF ListServers
<1> HIDE DEF r
<1>5. /\ DOMAIN mcJobs' = DOMAIN mcJobs /\ mcJobs'[j] = r
      /\ \A i \in DOMAIN mcJobs : i # j => mcJobs'[i] = mcJobs[i]
  BY <1>1, <1>2, <1>3, RunMoves
<1>6. McpTypeOK' BY <1>2, <1>4, <1>5 DEF McpIInv, McpTypeOK
<1>7. SignedBefore' BY <1>1, <1>2, <1>4, <1>5 DEF McpIInv, SignedBefore, McpTypeOK
<1>8. ChangeIsSeen' /\ ServedAreOpen' BY <1>4 DEF McpIInv, ChangeIsSeen, ServedAreOpen
<1>9. RunsApart' BY <1>2, <1>4, <1>5 DEF McpIInv, RunsApart
<1>10. EntriesApart' BY <1>2, <1>4, <1>5 DEF McpIInv, EntriesApart
<1>11. ReplacedApart' BY <1>2, <1>4, <1>5 DEF McpIInv, ReplacedApart
<1>12. NamesApart' BY <1>2, <1>4, <1>5 DEF McpIInv, NamesApart
<1> QED BY <1>6, <1>7, <1>8, <1>9, <1>10, <1>11, <1>12 DEF McpIInv

LEMMA ListServersFailsInv == ASSUME McpIInv, NEW j \in DOMAIN mcJobs, ListServersFails(j) PROVE McpIInv'
<1> DEFINE e == mcJobs[j].entry
           r == [mcEntries[e] EXCEPT !.sig = mcJobs[j].sig, !.stale = FALSE, !.blind = TRUE,
                                     !.refreshing = @ /\ j # Background(e)]
<1>1. McpTypeOK /\ e \in DOMAIN mcEntries /\ mcEntries[e] \in Entry /\ mcJobs[j].sig \in Nat
  BY McpTyped DEF McpIInv
<1>2. r \in Entry /\ r.clients = mcEntries[e].clients /\ r.blind = TRUE BY <1>1 DEF Entry
<1>3. mcEntries' = [mcEntries EXCEPT ![e] = r] BY <1>1 DEF ListServersFails
<1>4. /\ EndJob(j) /\ mcErrors' = mcErrors + 1
      /\ UNCHANGED <<mcVersion, mcEntry, mcCalls, mcOpen, mcConnects>>
  BY DEF ListServersFails, StoreError
<1> HIDE DEF e, r
<1>5. /\ DOMAIN mcEntries' = DOMAIN mcEntries /\ mcEntries' \in Seq(Entry) /\ mcEntries'[e] = r
      /\ \A f \in DOMAIN mcEntries : f # e => mcEntries'[f] = mcEntries[f]
  BY <1>1, <1>2, <1>3, EntryMoves
<1>6. \A f \in DOMAIN mcEntries : mcEntries'[f].clients = mcEntries[f].clients BY <1>2, <1>5
<1>7. DOMAIN mcJobs' = DOMAIN mcJobs \ {j} /\ \A i \in DOMAIN mcJobs' : mcJobs'[i] = mcJobs[i]
  BY <1>4, RunEnds
<1>8. McpTypeOK' BY <1>4, <1>5, <1>7 DEF McpIInv, McpTypeOK
<1>9. SignedBefore' BY <1>4, <1>7 DEF McpIInv, SignedBefore
<1>10. ChangeIsSeen' BY <1>2, <1>5 DEF McpIInv, ChangeIsSeen
<1>11. RunsApart' BY <1>4, <1>7 DEF McpIInv, RunsApart
<1>12. EntriesApart' BY <1>4, <1>5, <1>6, <1>7 DEF McpIInv, EntriesApart
<1>13. ReplacedApart' BY <1>4, <1>5, <1>6, <1>7 DEF McpIInv, ReplacedApart
<1>14. ServedAreOpen' BY <1>4, <1>6 DEF McpIInv, ServedAreOpen, McpTypeOK
<1>15. NamesApart' BY <1>5, <1>6, <1>7 DEF McpIInv, NamesApart
<1> QED BY <1>8, <1>9, <1>10, <1>11, <1>12, <1>13, <1>14, <1>15 DEF McpIInv

LEMMA ConnectServersInv == ASSUME McpIInv, NEW j \in DOMAIN mcJobs, ConnectServers(j) PROVE McpIInv'
<1>1. PICK up \in SUBSET McpServers[mcJobs[j].listed] :
         LET kept == {[job |-> j, n |-> mcJobs[j].n, server |-> s] : s \in up \ Conflicted(up)} IN
         mcJobs' = [mcJobs EXCEPT ![j].pc = "swap", ![j].clients = kept] /\ mcOpen' = mcOpen \cup kept
  BY DEF ConnectServers
<1> DEFINE kept == {[job |-> j, n |-> mcJobs[j].n, server |-> s] : s \in up \ Conflicted(up)}
           r == [mcJobs[j] EXCEPT !.pc = "swap", !.clients = kept]
<1>2. /\ mcJobs[j].pc = "dial"
      /\ UNCHANGED <<mcVersion, mcEntry, mcEntries, mcCalls, mcConnects, mcErrors>>
  BY DEF ConnectServers
<1>3. McpTypeOK /\ mcJobs[j] \in Job /\ mcJobs[j].n \in Nat /\ j \in JobNames BY McpTyped DEF McpIInv, McpTypeOK
<1>4. up \subseteq DOMAIN McpNames
  <2>1. mcJobs[j].listed \in DOMAIN McpServers BY <1>2 DEF McpIInv, SignedBefore
  <2> QED BY <2>1, McpConstants
<1>5. kept \subseteq Connection BY <1>3, <1>4 DEF Connection
<1>6. \A k \in kept : k.n = mcJobs[j].n /\ k.server \in up \ Conflicted(up) OBVIOUS
<1>7. \A k, l \in kept : k.server = l.server => k = l OBVIOUS
<1>8. mcJobs' = [mcJobs EXCEPT ![j] = r] /\ mcOpen' = mcOpen \cup kept BY <1>1
<1> HIDE DEF kept
<1>9. Unambiguous(kept)
  <2> SUFFICES ASSUME NEW k \in kept, NEW l \in kept, k # l
               PROVE  McpNames[k.server] \cap McpNames[l.server] = {}
    BY DEF Unambiguous
  <2>1. k.server # l.server /\ k.server \in up \ Conflicted(up) /\ l.server \in up BY <1>6, <1>7
  <2> QED BY <2>1 DEF Conflicted
<1>10. /\ r \in Job /\ r.pc = "swap" /\ r.clients = kept /\ r.entry = mcJobs[j].entry /\ r.sig = mcJobs[j].sig
       /\ r.n = mcJobs[j].n /\ r.old = mcJobs[j].old /\ r.listed = mcJobs[j].listed
  BY <1>3, <1>5 DEF Job
<1> HIDE DEF r
<1>11. /\ DOMAIN mcJobs' = DOMAIN mcJobs /\ mcJobs'[j] = r
       /\ \A i \in DOMAIN mcJobs : i # j => mcJobs'[i] = mcJobs[i]
  BY <1>3, <1>8, <1>10, RunMoves
<1>12. McpTypeOK' BY <1>2, <1>10, <1>11 DEF McpIInv, McpTypeOK
<1>13. SignedBefore' BY <1>2, <1>10, <1>11 DEF McpIInv, SignedBefore
<1>14. ChangeIsSeen' /\ ServedAreOpen' BY <1>2, <1>8 DEF McpIInv, ChangeIsSeen, ServedAreOpen
<1>15. RunsApart' BY <1>2, <1>6, <1>8, <1>10, <1>11 DEF McpIInv, RunsApart
<1>16. EntriesApart' BY <1>2, <1>10, <1>11 DEF McpIInv, EntriesApart
<1>17. ReplacedApart' BY <1>2, <1>10, <1>11 DEF McpIInv, ReplacedApart
<1>18. NamesApart' BY <1>2, <1>9, <1>10, <1>11 DEF McpIInv, NamesApart
<1> QED BY <1>12, <1>13, <1>14, <1>15, <1>16, <1>17, <1>18 DEF McpIInv

LEMMA SwapConnectionsInv == ASSUME McpIInv, NEW j \in DOMAIN mcJobs, SwapConnections(j) PROVE McpIInv'
<1> DEFINE e == mcJobs[j].entry
           entry == Swapped(mcJobs[j], e)
           r == [mcJobs[j] EXCEPT !.pc = "close", !.old = mcEntries[e].clients]
<1>1. /\ McpTypeOK /\ e \in DOMAIN mcEntries /\ mcEntries[e] \in Entry /\ mcJobs[j] \in Job
      /\ mcJobs[j].sig \in Nat /\ mcJobs[j].listed \in Nat /\ mcJobs[j].clients \subseteq Connection
  BY McpTyped DEF McpIInv
<1>2. /\ mcJobs[j].pc = "swap" /\ mcEntries' = [mcEntries EXCEPT ![e] = entry]
      /\ mcJobs' = [mcJobs EXCEPT ![j] = r]
      /\ UNCHANGED <<mcVersion, mcEntry, mcCalls, mcOpen, mcConnects, mcErrors>>
  BY DEF SwapConnections
<1>3. mcEntries[e].clients \subseteq Connection /\ mcEntries[e].refreshing \in BOOLEAN BY <1>1 DEF Entry
<1>4. /\ entry \in Entry /\ entry.clients = mcJobs[j].clients /\ entry.sig = mcJobs[j].sig
      /\ entry.tools = mcJobs[j].listed
  BY <1>1, <1>3 DEF Swapped, ColdEntry, Entry
<1>5. /\ r \in Job /\ r.pc = "close" /\ r.clients = mcJobs[j].clients /\ r.entry = mcJobs[j].entry
      /\ r.sig = mcJobs[j].sig /\ r.n = mcJobs[j].n /\ r.old = mcEntries[e].clients
  BY <1>1, <1>3 DEF Job
<1> HIDE DEF e, entry, r
<1>6. /\ DOMAIN mcEntries' = DOMAIN mcEntries /\ mcEntries' \in Seq(Entry) /\ mcEntries'[e] = entry
      /\ \A f \in DOMAIN mcEntries : f # e => mcEntries'[f] = mcEntries[f]
  BY <1>1, <1>2, <1>4, EntryMoves
<1>7. /\ DOMAIN mcJobs' = DOMAIN mcJobs /\ mcJobs'[j] = r
      /\ \A i \in DOMAIN mcJobs : i # j => mcJobs'[i] = mcJobs[i]
  BY <1>1, <1>2, <1>5, RunMoves
<1>8. /\ \A i \in DOMAIN mcJobs : mcJobs'[i].n = mcJobs[i].n
      /\ \A i \in DOMAIN mcJobs : mcJobs[i].pc = "close" => mcJobs'[i].pc = "close"
  BY <1>5, <1>7
<1>9. McpTypeOK' BY <1>2, <1>5, <1>6, <1>7 DEF McpIInv, McpTypeOK
<1>10. SignedBefore' BY <1>2, <1>5, <1>7 DEF McpIInv, SignedBefore
<1>11. ChangeIsSeen'
  <2>1. mcJobs[j].sig <= mcJobs[j].listed BY <1>2 DEF McpIInv, SignedBefore
  <2> QED BY <1>4, <1>6, <2>1 DEF McpIInv, ChangeIsSeen
<1>12. RunsApart' BY <1>2, <1>5, <1>7 DEF McpIInv, RunsApart
<1>13. \A k \in mcJobs[j].clients : k.n = mcJobs[j].n /\ k.n < mcConnects BY DEF McpIInv, RunsApart
<1>14. \A i \in DOMAIN mcJobs : mcJobs[i].n = mcJobs[j].n => i = j BY DEF McpIInv, RunsApart
<1>15. \A f \in DOMAIN mcEntries : \A k \in mcEntries[f].clients : k.n # mcJobs[j].n
  BY <1>2 DEF McpIInv, EntriesApart
<1>16. EntriesApart'
  <2>1. \A f \in DOMAIN mcEntries : \A k \in mcEntries'[f].clients :
           /\ k.n < mcConnects
           /\ \A i \in DOMAIN mcJobs : mcJobs[i].n = k.n => mcJobs'[i].pc = "close"
    BY <1>4, <1>5, <1>6, <1>7, <1>8, <1>13, <1>14 DEF McpIInv, EntriesApart
  <2>2. \A f, g \in DOMAIN mcEntries : \A k \in mcEntries'[f].clients, l \in mcEntries'[g].clients :
           k.n = l.n => f = g
    BY <1>4, <1>6, <1>13, <1>15 DEF McpIInv, EntriesApart
  <2> QED BY <1>2, <1>6, <1>7, <1>8, <2>1, <2>2 DEF EntriesApart
<1>17. ReplacedApart'
  <2> SUFFICES ASSUME NEW i \in DOMAIN mcJobs, NEW k \in mcJobs'[i].old
               PROVE  /\ k.n < mcConnects
                      /\ \A f \in DOMAIN mcEntries : \A l \in mcEntries'[f].clients : k.n # l.n
                      /\ \A h \in DOMAIN mcJobs : mcJobs[h].n = k.n => mcJobs'[h].pc = "close"
    BY <1>2, <1>6, <1>7, <1>8 DEF ReplacedApart
  <2>1. CASE i = j
    <3>1. k \in mcEntries[e].clients BY <1>5, <1>7, <2>1
    <3>2. k.n < mcConnects /\ \A h \in DOMAIN mcJobs : mcJobs[h].n = k.n => mcJobs'[h].pc = "close"
      BY <1>1, <1>8, <3>1 DEF McpIInv, EntriesApart
    <3>3. \A f \in DOMAIN mcEntries : \A l \in mcEntries'[f].clients : k.n # l.n
      BY <1>1, <1>4, <1>6, <1>13, <1>15, <3>1 DEF McpIInv, EntriesApart
    <3> QED BY <3>2, <3>3
  <2>2. CASE i # j
    <3>1. k \in mcJobs[i].old BY <1>7, <2>2
    <3>2. /\ k.n < mcConnects
          /\ \A f \in DOMAIN mcEntries : \A l \in mcEntries[f].clients : k.n # l.n
          /\ \A h \in DOMAIN mcJobs : mcJobs[h].n = k.n => mcJobs[h].pc = "close"
      BY <3>1 DEF McpIInv, ReplacedApart
    <3>3. k.n # mcJobs[j].n BY <1>2, <3>2
    <3> QED BY <1>4, <1>6, <1>8, <1>13, <3>2, <3>3
  <2> QED BY <2>1, <2>2
<1>18. ServedAreOpen'
  <2>1. mcJobs[j].clients \subseteq mcOpen BY <1>2 DEF McpIInv, RunsApart
  <2> QED BY <1>2, <1>4, <1>6, <2>1 DEF McpIInv, ServedAreOpen, McpTypeOK
<1>19. NamesApart' BY <1>4, <1>5, <1>6, <1>7 DEF McpIInv, NamesApart
<1> QED BY <1>9, <1>10, <1>11, <1>12, <1>16, <1>17, <1>18, <1>19 DEF McpIInv

LEMMA CloseReplacedInv == ASSUME McpIInv, NEW j \in DOMAIN mcJobs, CloseReplaced(j) PROVE McpIInv'
<1> DEFINE e == mcJobs[j].entry
           r == [mcEntries[e] EXCEPT !.refreshing = @ /\ j # Background(e)]
<1>1. McpTypeOK /\ e \in DOMAIN mcEntries /\ mcEntries[e] \in Entry BY McpTyped DEF McpIInv
<1>2. /\ r \in Entry /\ r.clients = mcEntries[e].clients /\ r.sig = mcEntries[e].sig
      /\ r.tools = mcEntries[e].tools /\ r.blind = mcEntries[e].blind
  BY <1>1 DEF Entry
<1>3. mcEntries' = [mcEntries EXCEPT ![e] = r] BY <1>1 DEF CloseReplaced
<1>4. /\ EndJob(j) /\ mcOpen' = mcOpen \ mcJobs[j].old
      /\ UNCHANGED <<mcVersion, mcEntry, mcCalls, mcConnects, mcErrors>>
  BY DEF CloseReplaced
<1> HIDE DEF e, r
<1>5. /\ DOMAIN mcEntries' = DOMAIN mcEntries /\ mcEntries' \in Seq(Entry)
      /\ \A f \in DOMAIN mcEntries :
            /\ mcEntries'[f].clients = mcEntries[f].clients /\ mcEntries'[f].sig = mcEntries[f].sig
            /\ mcEntries'[f].tools = mcEntries[f].tools /\ mcEntries'[f].blind = mcEntries[f].blind
  BY <1>1, <1>2, <1>3, FlagOnly
<1>6. DOMAIN mcJobs' = DOMAIN mcJobs \ {j} /\ \A i \in DOMAIN mcJobs' : mcJobs'[i] = mcJobs[i]
  BY <1>4, RunEnds
<1>7. \A f \in DOMAIN mcEntries : mcEntries[f].clients \cap mcJobs[j].old = {}
  BY DEF McpIInv, ReplacedApart
<1>8. \A i \in DOMAIN mcJobs : mcJobs[i].pc = "swap" => mcJobs[i].clients \cap mcJobs[j].old = {}
  BY DEF McpIInv, ReplacedApart, RunsApart
<1>9. McpTypeOK' BY <1>4, <1>5, <1>6 DEF McpIInv, McpTypeOK
<1>10. SignedBefore' BY <1>4, <1>6 DEF McpIInv, SignedBefore
<1>11. ChangeIsSeen' BY <1>5 DEF McpIInv, ChangeIsSeen
<1>12. RunsApart' BY <1>4, <1>6, <1>8 DEF McpIInv, RunsApart
<1>13. EntriesApart' BY <1>4, <1>5, <1>6 DEF McpIInv, EntriesApart
<1>14. ReplacedApart' BY <1>4, <1>5, <1>6 DEF McpIInv, ReplacedApart
<1>15. ServedAreOpen' BY <1>4, <1>5, <1>7 DEF McpIInv, ServedAreOpen, McpTypeOK
<1>16. NamesApart' BY <1>5, <1>6 DEF McpIInv, NamesApart
<1> QED BY <1>9, <1>10, <1>11, <1>12, <1>13, <1>14, <1>15, <1>16 DEF McpIInv

LEMMA ConfigChangesInv == McpIInv /\ ConfigChanges => McpIInv'
<1> SUFFICES ASSUME McpIInv, ConfigChanges PROVE McpIInv' OBVIOUS
<1>1. /\ mcVersion < Len(McpServers) /\ mcVersion' = mcVersion + 1
      /\ UNCHANGED <<mcEntry, mcEntries, mcCalls, mcJobs, mcOpen, mcConnects, mcErrors>>
  BY DEF ConfigChanges
<1>2. /\ mcVersion \in Nat /\ Len(McpServers) \in Nat /\ DOMAIN McpServers = 1 .. Len(McpServers)
      /\ \A j \in DOMAIN mcJobs : mcJobs[j].sig \in Nat
      /\ \A c \in McpCallers : mcCalls[c].sig \in Nat
  BY McpTyped DEF McpIInv
<1>3. mcVersion' \in DOMAIN McpServers BY <1>1, <1>2
<1>4. McpTypeOK' BY <1>1, <1>3 DEF McpIInv, McpTypeOK
<1>5. SignedBefore'
  <2>1. \A c \in McpCallers : mcCalls[c].sig <= mcVersion + 1 BY <1>2 DEF McpIInv, SignedBefore
  <2>2. \A j \in DOMAIN mcJobs : mcJobs[j].sig <= mcVersion + 1 BY <1>2 DEF McpIInv, SignedBefore
  <2> QED BY <1>1, <2>1, <2>2 DEF McpIInv, SignedBefore
<1>6. ChangeIsSeen' /\ ServedAreOpen' BY <1>1 DEF McpIInv, ChangeIsSeen, ServedAreOpen
<1>7. RunsApart' /\ EntriesApart' /\ ReplacedApart' BY <1>1 DEF McpIInv, RunsApart, EntriesApart, ReplacedApart
<1>8. NamesApart' BY <1>1 DEF McpIInv, NamesApart
<1> QED BY <1>4, <1>5, <1>6, <1>7, <1>8 DEF McpIInv

LEMMA CacheAgesInv == McpIInv /\ CacheAges => McpIInv'
<1> SUFFICES ASSUME McpIInv, CacheAges PROVE McpIInv' OBVIOUS
<1> DEFINE r == [mcEntries[mcEntry] EXCEPT !.stale = TRUE]
<1>1. McpTypeOK /\ mcEntry \in DOMAIN mcEntries /\ mcEntries[mcEntry] \in Entry
  BY McpTyped DEF McpIInv, CacheAges, McpTypeOK
<1>2. /\ r \in Entry /\ r.clients = mcEntries[mcEntry].clients /\ r.sig = mcEntries[mcEntry].sig
      /\ r.tools = mcEntries[mcEntry].tools /\ r.blind = mcEntries[mcEntry].blind
  BY <1>1 DEF Entry
<1>3. mcEntries' = [mcEntries EXCEPT ![mcEntry] = r] BY <1>1 DEF CacheAges
<1>4. UNCHANGED <<mcVersion, mcEntry, mcCalls, mcJobs, mcOpen, mcConnects, mcErrors>> BY DEF CacheAges
<1> HIDE DEF r
<1>5. /\ DOMAIN mcEntries' = DOMAIN mcEntries /\ mcEntries' \in Seq(Entry)
      /\ \A f \in DOMAIN mcEntries :
            /\ mcEntries'[f].clients = mcEntries[f].clients /\ mcEntries'[f].sig = mcEntries[f].sig
            /\ mcEntries'[f].tools = mcEntries[f].tools /\ mcEntries'[f].blind = mcEntries[f].blind
  BY <1>1, <1>2, <1>3, FlagOnly
<1>6. McpTypeOK' BY <1>4, <1>5 DEF McpIInv, McpTypeOK
<1>7. SignedBefore' /\ RunsApart' BY <1>4 DEF McpIInv, SignedBefore, RunsApart
<1>8. ChangeIsSeen' BY <1>5 DEF McpIInv, ChangeIsSeen
<1>9. EntriesApart' BY <1>4, <1>5 DEF McpIInv, EntriesApart
<1>10. ReplacedApart' BY <1>4, <1>5 DEF McpIInv, ReplacedApart
<1>11. ServedAreOpen' BY <1>1, <1>4, <1>5 DEF McpIInv, ServedAreOpen
<1>12. NamesApart' BY <1>4, <1>5 DEF McpIInv, NamesApart
<1> QED BY <1>6, <1>7, <1>8, <1>9, <1>10, <1>11, <1>12 DEF McpIInv

LEMMA McpInitInv == McpInit => McpIInv
<1> SUFFICES ASSUME McpInit PROVE McpIInv OBVIOUS
<1>1. /\ mcVersion = 1 /\ mcEntry = 0 /\ mcEntries = <<>> /\ mcCalls = [c \in McpCallers |-> IdleCall]
      /\ mcJobs = <<>> /\ mcOpen = {} /\ mcConnects = 0 /\ mcErrors = 0
  BY DEF McpInit
<1>2. DOMAIN mcJobs = {} /\ DOMAIN mcEntries = {} /\ mcEntries \in Seq(Entry) BY <1>1
<1>3. mcVersion \in DOMAIN McpServers BY <1>1, McpConstants
<1>4. McpTypeOK BY <1>1, <1>2, <1>3, IdleFacts DEF McpTypeOK
<1>5. SignedBefore BY <1>1, <1>2, IdleFacts DEF SignedBefore
<1>6. ChangeIsSeen /\ ServedAreOpen /\ RunsApart /\ EntriesApart /\ ReplacedApart /\ NamesApart
  BY <1>1, <1>2 DEF ChangeIsSeen, ServedAreOpen, RunsApart, EntriesApart, ReplacedApart, NamesApart
<1> QED BY <1>4, <1>5, <1>6 DEF McpIInv

LEMMA McpStutter == McpIInv /\ UNCHANGED mcpVars => McpIInv'
  BY DEF McpIInv, McpTypeOK, SignedBefore, ChangeIsSeen, ServedAreOpen, RunsApart, EntriesApart,
         ReplacedApart, NamesApart, mcpVars

-----------------------------------------------------------------------------
(* The theorem                                                                *)

LEMMA McpInductive == McpIInv /\ [McpNext]_mcpVars => McpIInv'
<1> SUFFICES ASSUME McpIInv, [McpNext]_mcpVars PROVE McpIInv' OBVIOUS
<1> QED BY McpStutter, TakeEntryInv, ServersSignatureInv, LookAtCacheInv, TakeConnectedInv, CortexTurnInv,
           RefreshMCPInv, ListServersInv, ListServersFailsInv, ConnectServersInv, SwapConnectionsInv,
           CloseReplacedInv, ConfigChangesInv, CacheAgesInv DEF McpNext

\* However the turns, the cabinet's refreshes and the background connections of
\* a soul interleave: the tools of an entry are never older than its signature
\* says, the connections that are served are open, and a tool name means one
\* server (manager.go: the signature read before the rows, the swap before the
\* close, the gate on name collisions).
THEOREM McpIsSound == McpSpec => []McpSound
<1>1. McpSpec => []McpIInv BY McpInitInv, McpInductive, PTL DEF McpSpec
<1>2. McpIInv => McpSound BY DEF McpIInv, McpSound, NamesApart, NamesUnambiguous, Unambiguous
<1> QED BY <1>1, <1>2, PTL

-----------------------------------------------------------------------------
(* The component Federation                                                   *)

Peers == FleetPeers \cup YamlPeers
DelegateTask == [status : {"new", "pending", "running", "paused", "done", "canceled"},
                 to : Peers \cup {NoPeer}, byName : BOOLEAN, peer : Nat, parent : Delegates, depth : Nat]
RowStatus == {"pending", "done", "failed", "canceled"}
PeerRow == [ship : Peers, origin : Delegates, status : RowStatus]
FedCall == [from : Delegates, tool : {"accept", "status"}, ship : Peers, about : Nat, live : BOOLEAN,
            stage : {"wire", "run", "ran", "over"}, reply : RowStatus \cup {"none", "error", "accepted"},
            row : Nat, out : {"none", "pending", "failed", "done"},
            in : {"none", "running", "failed", "done"}]

FederationTypeOK ==
    /\ fdKnown \subseteq Peers
    /\ fdTask \in [Delegates -> DelegateTask]
    /\ fdCalls \in Seq(FedCall)
    /\ fdRows \in Seq(PeerRow)
    /\ fdCallbacks \subseteq Nat
    /\ fdFaults \in Nat

\* What is true of a call at every stage: an acceptance names a row of the
\* caller's own, a status was read from the row the caller follows, and the two
\* audit rows agree about an answer that arrived.
CallSound(call, rows, tasks) ==
    /\ call.reply = "accepted" =>
          call.tool = "accept" /\ call.row \in DOMAIN rows /\ rows[call.row].origin = call.from
    /\ call.tool = "status" => call.about \in DOMAIN rows
    /\ call.tool = "status" /\ call.live => call.about = tasks[call.from].peer
    /\ call.tool = "status" /\ call.reply \in RowStatus \ {"pending"} => rows[call.about].status # "pending"
    /\ call.stage = "wire" => call.in = "none"
    /\ call.out = "done" => call.stage = "over" /\ call.in = "done"
    /\ call.stage = "over" /\ call.live /\ call.reply # "error" => call.in = "done"
    /\ call.stage = "over" /\ call.in = "running" => ~ call.live

CallsSound == \A i \in DOMAIN fdCalls : CallSound(fdCalls[i], fdRows, fdTask)

\* A task waits for one call at a time.
OneCall ==
    \A i, j \in DOMAIN fdCalls :
        fdCalls[i].live /\ fdCalls[j].live /\ fdCalls[i].from = fdCalls[j].from => i = j

\* The row a delegate follows exists.
Follows == \A t \in Delegates : fdTask[t].peer # 0 => fdTask[t].peer \in DOMAIN fdRows

FederationIInv ==
    FederationTypeOK /\ CallsSound /\ OneCall /\ Follows /\ TracksItsOwn /\ EndsWithItsPeer

-----------------------------------------------------------------------------
(* What one step changes                                                      *)

\* One call moves.
LEMMA OneCallMoves ==
  ASSUME FederationTypeOK, NEW i \in DOMAIN fdCalls, NEW r \in FedCall, fdCalls' = [fdCalls EXCEPT ![i] = r]
  PROVE  /\ DOMAIN fdCalls' = DOMAIN fdCalls /\ fdCalls' \in Seq(FedCall) /\ fdCalls'[i] = r
         /\ \A j \in DOMAIN fdCalls : j # i => fdCalls'[j] = fdCalls[j]
  BY DEF FederationTypeOK

\* One delegate moves.
LEMMA OneTaskMoves ==
  ASSUME FederationTypeOK, NEW t \in Delegates, NEW r \in DelegateTask, fdTask' = [fdTask EXCEPT ![t] = r]
  PROVE  /\ fdTask' \in [Delegates -> DelegateTask] /\ fdTask'[t] = r
         /\ \A u \in Delegates : u # t => fdTask'[u] = fdTask[u]
  BY DEF FederationTypeOK

\* The types of what a step reads.
LEMMA FedTyped ==
  ASSUME FederationTypeOK
  PROVE  /\ \A i \in DOMAIN fdCalls : fdCalls[i] \in FedCall /\ fdCalls[i].from \in Delegates
         /\ \A t \in Delegates : fdTask[t] \in DelegateTask /\ fdTask[t].peer \in Nat
         /\ \A r \in DOMAIN fdRows : fdRows[r] \in PeerRow /\ r \in Nat \ {0}
<1>1. \A i \in DOMAIN fdCalls : fdCalls[i] \in FedCall BY DEF FederationTypeOK
<1>2. \A t \in Delegates : fdTask[t] \in DelegateTask BY DEF FederationTypeOK
<1>3. \A r \in DOMAIN fdRows : fdRows[r] \in PeerRow /\ r \in Nat \ {0} BY DEF FederationTypeOK
<1>4. \A i \in DOMAIN fdCalls : fdCalls[i].from \in Delegates BY <1>1 DEF FedCall
<1>5. \A t \in Delegates : fdTask[t].peer \in Nat BY <1>2 DEF DelegateTask
<1> QED BY <1>1, <1>2, <1>3, <1>4, <1>5

\* The peers' rows only grow and only end, and no delegate turns to another row.
PeerSettled ==
    /\ DOMAIN fdRows \subseteq DOMAIN fdRows'
    /\ \A r \in DOMAIN fdRows : /\ fdRows'[r].origin = fdRows[r].origin
                                /\ fdRows[r].status # "pending" => fdRows'[r].status # "pending"
    /\ \A t \in Delegates : fdTask'[t].peer = fdTask[t].peer

\* Then what is true of a call stays true of it.
LEMMA CallStays ==
  ASSUME FederationTypeOK, PeerSettled, NEW call \in FedCall, CallSound(call, fdRows, fdTask)
  PROVE  CallSound(call, fdRows', fdTask')
<1>1. call.from \in Delegates BY DEF FedCall
<1> QED BY <1>1 DEF CallSound, PeerSettled

\* A step that touches no call, ends no delegate and turns none to another row.
LEMMA CallsUntouched ==
  ASSUME FederationIInv, PeerSettled, fdCalls' = fdCalls,
         \A t \in Delegates : fdTask'[t].status = "done" => fdTask[t].status = "done"
  PROVE  CallsSound' /\ OneCall' /\ Follows' /\ TracksItsOwn' /\ EndsWithItsPeer'
<1>1. FederationTypeOK BY DEF FederationIInv
<1>2. CallsSound' BY <1>1, FedTyped, CallStays DEF FederationIInv, CallsSound
<1>3. OneCall' BY DEF FederationIInv, OneCall
<1>4. Follows' BY DEF FederationIInv, Follows, PeerSettled
<1>5. TracksItsOwn' BY DEF FederationIInv, Follows, TracksItsOwn, PeerSettled
<1>6. EndsWithItsPeer' BY DEF FederationIInv, Follows, EndsWithItsPeer, PeerSettled
<1> QED BY <1>2, <1>3, <1>4, <1>5, <1>6

\* One call moves, to a state that is sound, and no call comes alive.
LEMMA CallTouched ==
  ASSUME FederationIInv, PeerSettled, NEW i \in DOMAIN fdCalls, NEW r \in FedCall, fdCalls' = [fdCalls EXCEPT ![i] = r],
         CallSound(r, fdRows', fdTask'), r.live => fdCalls[i].live, r.from = fdCalls[i].from,
         \A t \in Delegates : fdTask'[t].status = "done" => fdTask[t].status = "done"
  PROVE  fdCalls' \in Seq(FedCall) /\ CallsSound' /\ OneCall' /\ Follows' /\ TracksItsOwn' /\ EndsWithItsPeer'
<1>1. FederationTypeOK BY DEF FederationIInv
<1>2. /\ DOMAIN fdCalls' = DOMAIN fdCalls /\ fdCalls' \in Seq(FedCall) /\ fdCalls'[i] = r
      /\ \A j \in DOMAIN fdCalls : j # i => fdCalls'[j] = fdCalls[j]
  BY <1>1, OneCallMoves
<1>3. \A j \in DOMAIN fdCalls : CallSound(fdCalls[j], fdRows', fdTask')
  BY <1>1, FedTyped, CallStays DEF FederationIInv, CallsSound
<1>4. CallsSound' BY <1>2, <1>3 DEF CallsSound
<1>5. OneCall' BY <1>2 DEF FederationIInv, OneCall
<1>6. Follows' BY DEF FederationIInv, Follows, PeerSettled
<1>7. TracksItsOwn' BY DEF FederationIInv, Follows, TracksItsOwn, PeerSettled
<1>8. EndsWithItsPeer' BY DEF FederationIInv, Follows, EndsWithItsPeer, PeerSettled
<1> QED BY <1>2, <1>4, <1>5, <1>6, <1>7, <1>8

\* A delegate gets another status.
LEMMA StatusMoves ==
  ASSUME FederationTypeOK, NEW t \in Delegates, NEW s \in {"pending", "running", "paused", "canceled"},
         fdTask' = [fdTask EXCEPT ![t].status = s], fdRows' = fdRows
  PROVE  /\ fdTask' \in [Delegates -> DelegateTask] /\ PeerSettled
         /\ \A u \in Delegates : fdTask'[u].status = "done" => fdTask[u].status = "done"
<1> DEFINE r == [fdTask[t] EXCEPT !.status = s]
<1>1. fdTask[t] \in DelegateTask BY FedTyped
<1>2. r \in DelegateTask /\ r.peer = fdTask[t].peer /\ r.status = s BY <1>1 DEF DelegateTask
<1>3. fdTask' = [fdTask EXCEPT ![t] = r] OBVIOUS
<1> HIDE DEF r
<1>4. /\ fdTask' \in [Delegates -> DelegateTask] /\ fdTask'[t] = r
      /\ \A u \in Delegates : u # t => fdTask'[u] = fdTask[u]
  BY <1>2, <1>3, OneTaskMoves
<1> QED BY <1>2, <1>4 DEF PeerSettled

LEMMA RefreshPeersInv == FederationIInv /\ RefreshPeers => FederationIInv'
<1> SUFFICES ASSUME FederationIInv, RefreshPeers PROVE FederationIInv' OBVIOUS
<1>1. UNCHANGED <<fdTask, fdCalls, fdRows, fdCallbacks>> BY DEF RefreshPeers
<1>2. fdKnown' \subseteq Peers /\ fdFaults' \in Nat
  BY DEF RefreshPeers, RefreshedTools, FedFault, Peers, FederationIInv, FederationTypeOK
<1>3. FederationTypeOK' BY <1>1, <1>2 DEF FederationIInv, FederationTypeOK
<1>4. PeerSettled BY <1>1 DEF PeerSettled
<1> QED BY <1>1, <1>3, <1>4, CallsUntouched DEF FederationIInv

LEMMA CreatedInv ==
  ASSUME FederationIInv, NEW t \in Delegates, NEW a \in Addresses, NEW parent \in Delegates, NEW depth \in Nat,
         Created(t, a, parent, depth)
  PROVE  FederationIInv'
<1> DEFINE r == [fdTask[t] EXCEPT !.status = "pending", !.to = a.to, !.byName = a.byName,
                                  !.parent = parent, !.depth = depth]
<1>1. FederationTypeOK /\ fdTask[t] \in DelegateTask BY FedTyped DEF FederationIInv
<1>2. a.to \in Peers /\ a.byName \in BOOLEAN BY FederationConstants DEF Peers
<1>3. r \in DelegateTask /\ r.peer = fdTask[t].peer /\ r.status = "pending" BY <1>1, <1>2 DEF DelegateTask
<1>4. fdTask' = [fdTask EXCEPT ![t] = r] /\ UNCHANGED <<fdKnown, fdCalls, fdRows, fdCallbacks, fdFaults>>
  BY DEF Created
<1> HIDE DEF r
<1>5. /\ fdTask' \in [Delegates -> DelegateTask] /\ fdTask'[t] = r
      /\ \A u \in Delegates : u # t => fdTask'[u] = fdTask[u]
  BY <1>1, <1>3, <1>4, OneTaskMoves
<1>6. PeerSettled /\ \A u \in Delegates : fdTask'[u].status = "done" => fdTask[u].status = "done"
  BY <1>3, <1>4, <1>5 DEF PeerSettled
<1>7. FederationTypeOK' BY <1>4, <1>5 DEF FederationIInv, FederationTypeOK
<1> QED BY <1>4, <1>6, <1>7, CallsUntouched DEF FederationIInv

LEMMA CreateInv ==
  ASSUME FederationIInv, NEW t \in Delegates, CreateFromChat(t) \/ CreateFromTask(t) PROVE FederationIInv'
<1>1. CASE CreateFromChat(t) BY <1>1, CreatedInv DEF CreateFromChat
<1>2. CASE CreateFromTask(t)
  <2>1. PICK parent \in Delegates, a \in Addresses : Created(t, a, parent, fdTask[parent].depth + 1)
    BY <1>2 DEF CreateFromTask
  <2>2. fdTask[parent].depth + 1 \in Nat
    <3>1. fdTask[parent] \in DelegateTask BY FedTyped DEF FederationIInv
    <3> QED BY <3>1 DEF DelegateTask
  <2> QED BY <2>1, <2>2, CreatedInv
<1> QED BY <1>1, <1>2

\* A step that gives a delegate another status and does nothing else.
LEMMA StatusOnly ==
  ASSUME FederationIInv, NEW t \in Delegates, NEW s \in {"pending", "running", "paused", "canceled"},
         fdTask' = [fdTask EXCEPT ![t].status = s], UNCHANGED <<fdKnown, fdCalls, fdRows, fdCallbacks, fdFaults>>
  PROVE  FederationIInv'
<1>1. /\ fdTask' \in [Delegates -> DelegateTask] /\ PeerSettled
      /\ \A u \in Delegates : fdTask'[u].status = "done" => fdTask[u].status = "done"
  BY StatusMoves DEF FederationIInv
<1>2. FederationTypeOK' BY <1>1 DEF FederationIInv, FederationTypeOK
<1> QED BY <1>1, <1>2, CallsUntouched DEF FederationIInv

LEMMA StatusSteps ==
  ASSUME FederationIInv, NEW t \in Delegates,
         ClaimDelegate(t) \/ IterationFails(t) \/ WakeStale(t) \/ CancelDelegate(t)
  PROVE  FederationIInv'
<1>1. CASE ClaimDelegate(t) BY <1>1, StatusOnly DEF ClaimDelegate
<1>2. CASE IterationFails(t) BY <1>2, StatusOnly DEF IterationFails
<1>3. CASE WakeStale(t) BY <1>3, StatusOnly DEF WakeStale
<1>4. CASE CancelDelegate(t) BY <1>4, StatusOnly DEF CancelDelegate
<1> QED BY <1>1, <1>2, <1>3, <1>4

LEMMA InvokeInv ==
  ASSUME FederationIInv, NEW t \in Delegates, CallOf(t) = {}, NEW peer \in Peers,
         NEW tool \in {"accept", "status"}, tool = "status" => fdTask[t].peer # 0, Invoke(t, tool, peer)
  PROVE  FederationIInv'
<1> DEFINE new == [from |-> t, tool |-> tool, ship |-> peer, about |-> fdTask[t].peer,
                   live |-> TRUE, stage |-> "wire", reply |-> "none", row |-> 0,
                   out |-> IF peer \in YamlPeers THEN "pending" ELSE "none", in |-> "none"]
<1>1. FederationTypeOK /\ fdTask[t].peer \in Nat BY FedTyped DEF FederationIInv
<1>2. /\ new \in FedCall /\ new.from = t /\ new.tool = tool /\ new.about = fdTask[t].peer /\ new.live = TRUE
      /\ new.stage = "wire" /\ new.reply = "none" /\ new.out # "done" /\ new.in = "none"
  BY <1>1 DEF FedCall
<1>3. fdCalls' = Append(fdCalls, new) /\ UNCHANGED <<fdKnown, fdTask, fdRows, fdCallbacks, fdFaults>>
  BY DEF Invoke
<1> HIDE DEF new
<1>4. /\ fdCalls' \in Seq(FedCall) /\ Len(fdCalls) \in Nat /\ DOMAIN fdCalls = 1 .. Len(fdCalls)
      /\ DOMAIN fdCalls' = 1 .. Len(fdCalls) + 1
      /\ fdCalls'[Len(fdCalls) + 1] = new /\ \A i \in DOMAIN fdCalls : fdCalls'[i] = fdCalls[i]
  BY <1>1, <1>2, <1>3 DEF FederationTypeOK
<1>5. \A i \in DOMAIN fdCalls' : i \in DOMAIN fdCalls \/ i = Len(fdCalls) + 1 BY <1>4
<1>6. CallSound(new, fdRows, fdTask) BY <1>2 DEF CallSound, FederationIInv, Follows, RowStatus
<1>7. FederationTypeOK' BY <1>3, <1>4 DEF FederationIInv, FederationTypeOK
<1>8. CallsSound' BY <1>3, <1>4, <1>5, <1>6 DEF FederationIInv, CallsSound
<1>9. \A i \in DOMAIN fdCalls : fdCalls[i].live => fdCalls[i].from # t BY DEF CallOf
<1>10. OneCall' BY <1>2, <1>4, <1>5, <1>9 DEF FederationIInv, OneCall
<1>11. Follows' /\ TracksItsOwn' /\ EndsWithItsPeer'
  BY <1>3 DEF FederationIInv, Follows, TracksItsOwn, EndsWithItsPeer
<1> QED BY <1>7, <1>8, <1>10, <1>11 DEF FederationIInv

LEMMA RunDelegateInv == ASSUME FederationIInv, NEW t \in Delegates, RunDelegate(t) PROVE FederationIInv'
<1> DEFINE peer == RemoteHandlerForPeer(fdTask[t])
<1>1. CallOf(t) = {} BY DEF RunDelegate
<1>2. CASE peer = NoPeer BY <1>2, StatusSteps DEF RunDelegate
<1>3. CASE peer # NoPeer
  <2>1. peer \in fdKnown
    <3>1. Cardinality(fdKnown) = 1 => fdKnown # {} BY FS_EmptySet
    <3> QED BY <1>3, <3>1 DEF RemoteHandlerForPeer
  <2>2. peer \in Peers BY <2>1 DEF FederationIInv, FederationTypeOK
  <2>3. CASE fdTask[t].peer = 0
    <3>1. Invoke(t, "accept", peer) BY <1>3, <2>3 DEF RunDelegate
    <3> HIDE DEF peer
    <3> QED BY <1>1, <2>2, <3>1, InvokeInv
  <2>4. CASE fdTask[t].peer # 0
    <3>1. Invoke(t, "status", peer) BY <1>3, <2>4 DEF RunDelegate
    <3> HIDE DEF peer
    <3> QED BY <1>1, <2>2, <2>4, <3>1, InvokeInv
  <2> QED BY <2>3, <2>4
<1> QED BY <1>2, <1>3

-----------------------------------------------------------------------------
(* The peer's server                                                          *)

\* A step of the server moves one call and leaves the delegates alone.
LEMMA ServerStep ==
  ASSUME FederationIInv, NEW i \in DOMAIN fdCalls, NEW r \in FedCall, fdCalls' = [fdCalls EXCEPT ![i] = r],
         CallSound(r, fdRows, fdTask), r.live => fdCalls[i].live, r.from = fdCalls[i].from,
         fdFaults' \in Nat, UNCHANGED <<fdKnown, fdTask, fdRows, fdCallbacks>>
  PROVE  FederationIInv'
<1>1. PeerSettled BY DEF PeerSettled
<1>2. fdCalls' \in Seq(FedCall) /\ CallsSound' /\ OneCall' /\ Follows' /\ TracksItsOwn' /\ EndsWithItsPeer'
  BY <1>1, CallTouched
<1>3. FederationTypeOK' BY <1>2 DEF FederationIInv, FederationTypeOK
<1> QED BY <1>2, <1>3 DEF FederationIInv

LEMMA AuthRefusesInv == ASSUME FederationIInv, NEW i \in DOMAIN fdCalls, AuthRefuses(i) PROVE FederationIInv'
<1> DEFINE r == [fdCalls[i] EXCEPT !.stage = "over", !.reply = "error"]
<1>1. /\ fdCalls[i] \in FedCall /\ CallSound(fdCalls[i], fdRows, fdTask) /\ fdCalls[i].stage = "wire"
      /\ fdFaults \in Nat
  BY FedTyped DEF FederationIInv, CallsSound, AuthRefuses, FederationTypeOK
<1>2. /\ fdCalls' = [fdCalls EXCEPT ![i] = r] /\ UNCHANGED <<fdKnown, fdTask, fdRows, fdCallbacks>>
      /\ fdFaults' \in Nat
  BY <1>1 DEF AuthRefuses, FedFault
<1>3. /\ r \in FedCall /\ r.from = fdCalls[i].from /\ r.live = fdCalls[i].live /\ r.stage = "over"
      /\ r.reply = "error" /\ r.tool = fdCalls[i].tool /\ r.about = fdCalls[i].about
      /\ r.out = fdCalls[i].out /\ r.in = fdCalls[i].in
  BY <1>1 DEF FedCall
<1> HIDE DEF r
<1>4. CallSound(r, fdRows, fdTask) BY <1>1, <1>3 DEF CallSound, RowStatus
<1> QED BY <1>2, <1>3, <1>4, ServerStep

LEMMA HandleInvokeInv == ASSUME FederationIInv, NEW i \in DOMAIN fdCalls, HandleInvoke(i) PROVE FederationIInv'
<1> DEFINE r == [fdCalls[i] EXCEPT !.stage = "run", !.in = "running"]
<1>1. /\ fdCalls[i] \in FedCall /\ CallSound(fdCalls[i], fdRows, fdTask) /\ fdCalls[i].stage = "wire"
      /\ fdFaults \in Nat
  BY FedTyped DEF FederationIInv, CallsSound, HandleInvoke, FederationTypeOK
<1>2. /\ fdCalls' = [fdCalls EXCEPT ![i] = r] /\ UNCHANGED <<fdKnown, fdTask, fdRows, fdCallbacks>>
      /\ fdFaults' \in Nat
  BY <1>1 DEF HandleInvoke
<1>3. /\ r \in FedCall /\ r.from = fdCalls[i].from /\ r.live = fdCalls[i].live /\ r.stage = "run"
      /\ r.reply = fdCalls[i].reply /\ r.tool = fdCalls[i].tool /\ r.about = fdCalls[i].about
      /\ r.out = fdCalls[i].out /\ r.in = "running" /\ r.row = fdCalls[i].row
  BY <1>1 DEF FedCall
<1> HIDE DEF r
<1>4. CallSound(r, fdRows, fdTask) BY <1>1, <1>3 DEF CallSound
<1> QED BY <1>2, <1>3, <1>4, ServerStep

LEMMA TaskStatusCallInv == ASSUME FederationIInv, NEW i \in DOMAIN fdCalls, TaskStatusCall(i) PROVE FederationIInv'
<1> DEFINE row == fdRows[fdCalls[i].about]
           seen == IF fdCalls[i].live /\ row.ship = fdCalls[i].ship THEN row.status ELSE "error"
           r == [fdCalls[i] EXCEPT !.stage = "ran", !.reply = seen]
<1>1. /\ fdCalls[i] \in FedCall /\ CallSound(fdCalls[i], fdRows, fdTask) /\ fdCalls[i].stage = "run"
      /\ fdCalls[i].tool = "status" /\ fdFaults \in Nat
  BY FedTyped DEF FederationIInv, CallsSound, TaskStatusCall, FederationTypeOK
<1>2. /\ fdCalls' = [fdCalls EXCEPT ![i] = r] /\ UNCHANGED <<fdKnown, fdTask, fdRows, fdCallbacks>>
      /\ fdFaults' \in Nat
  BY <1>1 DEF TaskStatusCall
<1>3. fdCalls[i].about \in DOMAIN fdRows /\ row \in PeerRow
  BY <1>1, FedTyped DEF CallSound, FederationIInv
<1>4. row.status \in RowStatus BY <1>3 DEF PeerRow
<1>5. seen \in RowStatus \cup {"error"} /\ (seen \in RowStatus => seen = row.status) BY <1>4 DEF RowStatus
<1> HIDE DEF seen
<1>6. /\ r \in FedCall /\ r.from = fdCalls[i].from /\ r.live = fdCalls[i].live /\ r.stage = "ran"
      /\ r.reply = seen /\ r.tool = fdCalls[i].tool /\ r.about = fdCalls[i].about
      /\ r.out = fdCalls[i].out /\ r.in = fdCalls[i].in
  BY <1>1, <1>5 DEF FedCall
<1> HIDE DEF r
<1>7. seen # "accepted" BY <1>5 DEF RowStatus
<1>8. CallSound(r, fdRows, fdTask) BY <1>1, <1>3, <1>5, <1>6, <1>7 DEF CallSound
<1> QED BY <1>2, <1>6, <1>8, ServerStep

LEMMA FinishCallInv == ASSUME FederationIInv, NEW i \in DOMAIN fdCalls, FinishCall(i) PROVE FederationIInv'
<1> DEFINE state == IF fdCalls[i].reply = "error" THEN "failed" ELSE "done"
           in == IF fdCalls[i].live THEN state ELSE fdCalls[i].in
           r == [fdCalls[i] EXCEPT !.stage = "over", !.in = IF fdCalls[i].live THEN state ELSE fdCalls[i].in]
<1>1. /\ fdCalls[i] \in FedCall /\ CallSound(fdCalls[i], fdRows, fdTask) /\ fdCalls[i].stage = "ran"
      /\ fdFaults \in Nat
  BY FedTyped DEF FederationIInv, CallsSound, FinishCall, FederationTypeOK
<1>2. /\ fdCalls' = [fdCalls EXCEPT ![i] = r] /\ UNCHANGED <<fdKnown, fdTask, fdRows, fdCallbacks>>
      /\ fdFaults' \in Nat
  <2>1. fdCalls' = [fdCalls EXCEPT ![i] = r] BY DEF FinishCall
  <2> QED BY <1>1, <2>1 DEF FinishCall
<1>3. /\ r \in FedCall /\ r.from = fdCalls[i].from /\ r.live = fdCalls[i].live /\ r.stage = "over"
      /\ r.reply = fdCalls[i].reply /\ r.tool = fdCalls[i].tool /\ r.about = fdCalls[i].about
      /\ r.out = fdCalls[i].out /\ r.in = in /\ r.row = fdCalls[i].row
  BY <1>1 DEF FedCall
<1>4. fdCalls[i].live => in = state BY DEF in
<1>5. in = "running" => ~ fdCalls[i].live BY DEF in, state
<1> HIDE DEF r, in
<1>6. CallSound(r, fdRows, fdTask) BY <1>1, <1>3, <1>4, <1>5 DEF CallSound
<1> QED BY <1>2, <1>3, <1>6, ServerStep

\* A new row: the call that asked for it names it, and nobody else is disturbed.
LEMMA AcceptTaskInv == ASSUME FederationIInv, NEW i \in DOMAIN fdCalls, AcceptTask(i) PROVE FederationIInv'
<1> DEFINE c == fdCalls[i]
           n == Len(fdRows) + 1
           new == [ship |-> c.ship, origin |-> c.from, status |-> "pending"]
<1>1. /\ c \in FedCall /\ CallSound(c, fdRows, fdTask) /\ c.stage = "run" /\ c.tool = "accept"
      /\ fdFaults \in Nat
  BY FedTyped DEF FederationIInv, CallsSound, AcceptTask, FederationTypeOK
<1>2. CASE fdCalls' = [fdCalls EXCEPT ![i] = [@ EXCEPT !.stage = "ran", !.reply = "error"]] /\ UNCHANGED fdRows
  <2> DEFINE r == [c EXCEPT !.stage = "ran", !.reply = "error"]
  <2>1. /\ fdCalls' = [fdCalls EXCEPT ![i] = r] /\ UNCHANGED <<fdKnown, fdTask, fdRows, fdCallbacks>>
        /\ fdFaults' \in Nat
    BY <1>1, <1>2 DEF AcceptTask
  <2>2. /\ r \in FedCall /\ r.from = c.from /\ r.live = c.live /\ r.stage = "ran" /\ r.reply = "error"
        /\ r.tool = c.tool /\ r.about = c.about /\ r.out = c.out /\ r.in = c.in
    BY <1>1 DEF FedCall
  <2> HIDE DEF r
  <2>3. CallSound(r, fdRows, fdTask) BY <1>1, <2>2 DEF CallSound
  <2> QED BY <2>1, <2>2, <2>3, ServerStep
<1>3. CASE /\ fdRows' = Append(fdRows, new)
           /\ fdCalls' = [fdCalls EXCEPT ![i] = [@ EXCEPT !.stage = "ran", !.reply = "accepted", !.row = Len(fdRows')]]
  <2> DEFINE r == [c EXCEPT !.stage = "ran", !.reply = "accepted", !.row = n]
  <2>1. new \in PeerRow /\ new.origin = c.from BY <1>1 DEF FedCall, PeerRow, RowStatus
  <2> HIDE DEF new
  <2>2. /\ fdRows' \in Seq(PeerRow) /\ Len(fdRows') = n /\ n \in Nat /\ DOMAIN fdRows = 1 .. Len(fdRows)
        /\ DOMAIN fdRows' = 1 .. n /\ fdRows'[n] = new /\ \A k \in DOMAIN fdRows : fdRows'[k] = fdRows[k]
    BY <1>3, <2>1 DEF FederationIInv, FederationTypeOK
  <2>3. fdCalls' = [fdCalls EXCEPT ![i] = r] /\ UNCHANGED <<fdKnown, fdTask, fdCallbacks, fdFaults>>
    BY <1>3, <2>2 DEF AcceptTask
  <2>4. DOMAIN fdRows \subseteq DOMAIN fdRows' /\ n \in DOMAIN fdRows' BY <2>2 DEF FederationIInv, FederationTypeOK
  <2> HIDE DEF n
  <2>5. PeerSettled BY <2>2, <2>3, <2>4 DEF PeerSettled
  <2>6. /\ r \in FedCall /\ r.from = c.from /\ r.live = c.live /\ r.stage = "ran" /\ r.reply = "accepted"
        /\ r.row = n /\ r.tool = c.tool /\ r.about = c.about /\ r.out = c.out /\ r.in = c.in
    BY <1>1, <2>2 DEF FedCall
  <2> HIDE DEF r
  <2>7. CallSound(c, fdRows', fdTask') BY <1>1, <2>5, CallStays DEF FederationIInv
  <2>8. CallSound(r, fdRows', fdTask') BY <1>1, <2>1, <2>2, <2>4, <2>6, <2>7 DEF CallSound
  <2> HIDE DEF c
  <2>9. fdCalls' \in Seq(FedCall) /\ CallsSound' /\ OneCall' /\ Follows' /\ TracksItsOwn' /\ EndsWithItsPeer'
    BY <2>3, <2>5, <2>6, <2>8, CallTouched DEF c
  <2>10. FederationTypeOK' BY <2>2, <2>3, <2>9 DEF FederationIInv, FederationTypeOK
  <2> QED BY <2>9, <2>10 DEF FederationIInv
<1> QED BY <1>2, <1>3 DEF AcceptTask

-----------------------------------------------------------------------------
(* The answer, or its absence                                                 *)

\* A hangup ends the wait: it closes the caller's own audit row, and books an
\* answer as done only when the peer's row says done.
LEMMA HangupMoves ==
  ASSUME FederationIInv, NEW i \in DOMAIN fdCalls, NEW state \in {"failed", "done"}, fdCalls' = Hangup(i, state),
         state = "done" => fdCalls[i].stage = "over" /\ fdCalls[i].live /\ fdCalls[i].reply # "error",
         fdRows' = fdRows
  PROVE  \E r \in FedCall : /\ fdCalls' = [fdCalls EXCEPT ![i] = r] /\ r.from = fdCalls[i].from /\ ~ r.live
                            /\ CallSound(r, fdRows', fdTask')
<1> DEFINE c == fdCalls[i]
           out == IF c.out = "none" THEN "none" ELSE state
           r == [c EXCEPT !.live = FALSE, !.out = out]
<1>1. c \in FedCall /\ CallSound(c, fdRows, fdTask) BY FedTyped DEF FederationIInv, CallsSound
<1>2. fdCalls' = [fdCalls EXCEPT ![i] = r] BY DEF Hangup
<1>3. /\ r \in FedCall /\ r.from = c.from /\ r.live = FALSE /\ r.stage = c.stage /\ r.reply = c.reply
      /\ r.row = c.row /\ r.tool = c.tool /\ r.about = c.about /\ r.out = out /\ r.in = c.in
  BY <1>1 DEF FedCall
<1>4. out = "done" => state = "done" OBVIOUS
<1> HIDE DEF r, out
<1>5. CallSound(r, fdRows', fdTask') BY <1>1, <1>3, <1>4 DEF CallSound
<1> QED BY <1>2, <1>3, <1>5

\* The status of a call that got no answer.
LEMMA NoAnswerMoves ==
  ASSUME FederationIInv, NEW t \in Delegates, NoAnswer(t), fdRows' = fdRows
  PROVE  /\ fdTask' \in [Delegates -> DelegateTask] /\ PeerSettled
         /\ \A u \in Delegates : fdTask'[u].status = "done" => fdTask[u].status = "done"
<1> DEFINE s == IF fdTask[t].status = "canceled" THEN fdTask[t].status
                ELSE IF fdTask[t].peer = 0 THEN "pending" ELSE "paused"
<1>1. s \in {"pending", "running", "paused", "canceled"} OBVIOUS
<1>2. fdTask' = [fdTask EXCEPT ![t].status = s]
  BY DEF NoAnswer
<1> HIDE DEF s
<1> QED BY <1>1, <1>2, StatusMoves DEF FederationIInv

LEMMA NoAnswerInv == ASSUME FederationIInv, NEW t \in Delegates, AnswerLost(t) \/ AnswerRefused(t) PROVE FederationIInv'
<1>1. /\ NoAnswer(t) /\ UNCHANGED <<fdKnown, fdRows, fdCallbacks>> /\ fdFaults' \in Nat
  BY DEF AnswerLost, AnswerRefused, FedFault, FederationIInv, FederationTypeOK
<1>2. PICK i \in CallOf(t) : fdCalls' = Hangup(i, "failed") BY DEF AnswerLost, AnswerRefused
<1>3. i \in DOMAIN fdCalls BY DEF CallOf
<1>4. PICK r \in FedCall : /\ fdCalls' = [fdCalls EXCEPT ![i] = r] /\ r.from = fdCalls[i].from /\ ~ r.live
                           /\ CallSound(r, fdRows', fdTask')
  BY <1>1, <1>2, <1>3, HangupMoves
<1>5. /\ fdTask' \in [Delegates -> DelegateTask] /\ PeerSettled
      /\ \A u \in Delegates : fdTask'[u].status = "done" => fdTask[u].status = "done"
  BY <1>1, NoAnswerMoves
<1>6. fdCalls' \in Seq(FedCall) /\ CallsSound' /\ OneCall' /\ Follows' /\ TracksItsOwn' /\ EndsWithItsPeer'
  BY <1>3, <1>4, <1>5, CallTouched
<1>7. FederationTypeOK' BY <1>1, <1>5, <1>6 DEF FederationIInv, FederationTypeOK
<1> QED BY <1>6, <1>7 DEF FederationIInv

\* The delegate that was answered moves with its call.
LEMMA AnsweredMoves ==
  ASSUME FederationIInv, NEW t \in Delegates, NEW i \in CallOf(t), NEW task \in DelegateTask,
         fdTask' = [fdTask EXCEPT ![t] = task], fdCalls' = Hangup(i, "done"),
         fdCalls[i].stage = "over", fdCalls[i].reply # "error",
         task.peer # 0 => task.peer \in DOMAIN fdRows /\ fdRows[task.peer].origin = t,
         task.status = "done" => task.peer # 0 /\ fdRows[task.peer].status # "pending",
         UNCHANGED <<fdKnown, fdRows, fdCallbacks, fdFaults>>
  PROVE  FederationIInv'
<1>1. i \in DOMAIN fdCalls /\ fdCalls[i].live /\ fdCalls[i].from = t /\ FederationTypeOK BY DEF CallOf, FederationIInv
<1>2. PICK r \in FedCall : /\ fdCalls' = [fdCalls EXCEPT ![i] = r] /\ r.from = fdCalls[i].from /\ ~ r.live
                           /\ CallSound(r, fdRows', fdTask')
  BY <1>1, HangupMoves
<1>3. /\ DOMAIN fdCalls' = DOMAIN fdCalls /\ fdCalls' \in Seq(FedCall) /\ fdCalls'[i] = r
      /\ \A j \in DOMAIN fdCalls : j # i => fdCalls'[j] = fdCalls[j]
  BY <1>1, <1>2, OneCallMoves
<1>4. /\ fdTask' \in [Delegates -> DelegateTask] /\ fdTask'[t] = task
      /\ \A u \in Delegates : u # t => fdTask'[u] = fdTask[u]
  BY <1>1, OneTaskMoves
<1>5. \A j \in DOMAIN fdCalls : j # i /\ fdCalls[j].live => fdCalls[j].from # t
  BY <1>1 DEF FederationIInv, OneCall
<1>6. \A j \in DOMAIN fdCalls : j # i => CallSound(fdCalls[j], fdRows', fdTask')
  <2> TAKE j \in DOMAIN fdCalls
  <2> HAVE j # i
  <2>1. CallSound(fdCalls[j], fdRows, fdTask) /\ fdCalls[j].from \in Delegates
    BY <1>1, FedTyped DEF FederationIInv, CallsSound
  <2>2. fdCalls[j].live => fdTask'[fdCalls[j].from] = fdTask[fdCalls[j].from] BY <1>4, <1>5, <2>1
  <2> QED BY <2>1, <2>2 DEF CallSound
<1>7. CallsSound' BY <1>2, <1>3, <1>6 DEF CallsSound
<1>8. OneCall' BY <1>2, <1>3 DEF FederationIInv, OneCall
<1>9. Follows' BY <1>4 DEF FederationIInv, Follows
<1>10. TracksItsOwn' BY <1>4 DEF FederationIInv, TracksItsOwn
<1>11. EndsWithItsPeer' BY <1>4 DEF FederationIInv, EndsWithItsPeer
<1>12. FederationTypeOK' BY <1>3, <1>4 DEF FederationIInv, FederationTypeOK
<1> QED BY <1>7, <1>8, <1>9, <1>10, <1>11, <1>12 DEF FederationIInv

\* What the invariant says of the delegate itself.
LEMMA OwnTask ==
  ASSUME FederationIInv, NEW t \in Delegates
  PROVE  /\ fdTask[t] \in DelegateTask
         /\ fdTask[t].peer # 0 => fdTask[t].peer \in DOMAIN fdRows /\ fdRows[fdTask[t].peer].origin = t
         /\ fdTask[t].status = "done" => fdTask[t].peer # 0 /\ fdRows[fdTask[t].peer].status # "pending"
BY FedTyped DEF FederationIInv, Follows, TracksItsOwn, EndsWithItsPeer

LEMMA SubmitAnsweredInv == ASSUME FederationIInv, NEW t \in Delegates, SubmitAnswered(t) PROVE FederationIInv'
<1>1. PICK i \in CallOf(t) :
          /\ fdCalls[i].stage = "over" /\ fdCalls[i].reply = "accepted"
          /\ fdCalls' = Hangup(i, "done")
          /\ fdTask' = [fdTask EXCEPT ![t] = IF @.status = "canceled" THEN @
                                             ELSE [@ EXCEPT !.status = "paused", !.peer = fdCalls[i].row]]
  BY DEF SubmitAnswered
<1>2. UNCHANGED <<fdKnown, fdRows, fdCallbacks, fdFaults>> BY DEF SubmitAnswered
<1>3. /\ i \in DOMAIN fdCalls /\ fdCalls[i].from = t /\ CallSound(fdCalls[i], fdRows, fdTask)
      /\ fdCalls[i] \in FedCall
  BY FedTyped DEF CallOf, FederationIInv, CallsSound
<1>4. fdCalls[i].row \in DOMAIN fdRows /\ fdRows[fdCalls[i].row].origin = t /\ fdCalls[i].row \in Nat
  BY <1>1, <1>3 DEF CallSound, FedCall
<1>5. CASE fdTask[t].status = "canceled"
  <2>1. fdTask' = [fdTask EXCEPT ![t] = fdTask[t]] BY <1>1, <1>5
  <2> QED BY <1>1, <1>2, <2>1, OwnTask, AnsweredMoves, ZenonT(40)
<1>6. CASE fdTask[t].status # "canceled"
  <2> DEFINE n == [fdTask[t] EXCEPT !.status = "paused", !.peer = fdCalls[i].row]
  <2>1. fdTask' = [fdTask EXCEPT ![t] = n] BY <1>1, <1>6
  <2>2. n \in DelegateTask /\ n.status = "paused" /\ n.peer = fdCalls[i].row 
    <3>1. fdTask[t] \in DelegateTask BY OwnTask
    <3> QED BY <1>4, <3>1 DEF DelegateTask
  <2> HIDE DEF n
  <2> QED BY <1>1, <1>2, <1>4, <2>1, <2>2, AnsweredMoves
<1> QED BY <1>5, <1>6

LEMMA PollAnsweredInv == ASSUME FederationIInv, NEW t \in Delegates, PollAnswered(t) PROVE FederationIInv'
<1>1. PICK i \in CallOf(t) :
          /\ fdCalls[i].stage = "over" /\ fdCalls[i].tool = "status" /\ fdCalls[i].reply # "error"
          /\ fdCalls' = Hangup(i, "done")
          /\ fdTask' = [fdTask EXCEPT ![t].status = IF @ = "canceled" THEN @ ELSE PollOutcome(fdCalls[i].reply)]
  BY DEF PollAnswered
<1>2. UNCHANGED <<fdKnown, fdRows, fdCallbacks, fdFaults>> BY DEF PollAnswered
<1>3. /\ i \in DOMAIN fdCalls /\ fdCalls[i].from = t /\ fdCalls[i].live /\ CallSound(fdCalls[i], fdRows, fdTask)
  BY DEF CallOf, FederationIInv, CallsSound
<1>4. /\ fdCalls[i].about = fdTask[t].peer /\ fdCalls[i].about \in DOMAIN fdRows
      /\ fdCalls[i].reply \in RowStatus \ {"pending"} => fdRows[fdTask[t].peer].status # "pending"
  BY <1>1, <1>3 DEF CallSound
<1>5. fdTask[t].peer # 0 BY <1>4, FedTyped DEF FederationIInv
<1> DEFINE s == IF fdTask[t].status = "canceled" THEN fdTask[t].status ELSE PollOutcome(fdCalls[i].reply)
           n == [fdTask[t] EXCEPT !.status = s]
<1>6. s \in {"canceled", "paused", "done"} BY DEF PollOutcome
<1>7. s = "done" => fdRows[fdTask[t].peer].status # "pending"
  BY <1>4 DEF PollOutcome, RowStatus
<1>8. fdTask' = [fdTask EXCEPT ![t] = n] BY <1>1
<1> HIDE DEF s
<1>9. n \in DelegateTask /\ n.status = s /\ n.peer = fdTask[t].peer BY <1>6, OwnTask DEF DelegateTask
<1> HIDE DEF n
<1>10. n.peer # 0 => n.peer \in DOMAIN fdRows /\ fdRows[n.peer].origin = t BY <1>9, OwnTask
<1>11. n.status = "done" => n.peer # 0 /\ fdRows[n.peer].status # "pending" BY <1>5, <1>7, <1>9
<1> QED BY <1>1, <1>2, <1>8, <1>9, <1>10, <1>11, AnsweredMoves

\* A crash ends the waits of one task: nothing else of its calls changes.
LEMMA OriginCrashInv == ASSUME FederationIInv, NEW t \in Delegates, OriginCrash(t) PROVE FederationIInv'
<1>1. /\ UNCHANGED <<fdKnown, fdRows, fdCallbacks>> /\ fdFaults' \in Nat
      /\ fdTask' = [fdTask EXCEPT ![t].status = "pending"]
  BY DEF OriginCrash, FedFault, FederationIInv, FederationTypeOK
<1>2. /\ fdTask' \in [Delegates -> DelegateTask] /\ PeerSettled
      /\ \A u \in Delegates : fdTask'[u].status = "done" => fdTask[u].status = "done"
  BY <1>1, StatusMoves DEF FederationIInv
<1>3. fdCalls' = [i \in DOMAIN fdCalls |-> IF i \in CallOf(t) THEN [fdCalls[i] EXCEPT !.live = FALSE] ELSE fdCalls[i]]
  BY DEF OriginCrash
<1>4. DOMAIN fdCalls' = DOMAIN fdCalls BY <1>3
<1>5. \A i \in DOMAIN fdCalls :
          /\ fdCalls'[i] \in FedCall /\ CallSound(fdCalls'[i], fdRows', fdTask')
          /\ fdCalls'[i].from = fdCalls[i].from /\ (fdCalls'[i].live => fdCalls[i].live)
  <2> TAKE i \in DOMAIN fdCalls
  <2>1. fdCalls[i] \in FedCall /\ CallSound(fdCalls[i], fdRows', fdTask')
    BY <1>2, FedTyped, CallStays DEF FederationIInv, CallsSound
  <2>2. CASE i \notin CallOf(t) BY <1>3, <2>1, <2>2
  <2>3. CASE i \in CallOf(t)
    <3> DEFINE c == fdCalls[i]
               r == [c EXCEPT !.live = FALSE]
    <3>1. /\ r \in FedCall /\ r.from = c.from /\ r.live = FALSE /\ r.stage = c.stage /\ r.reply = c.reply
          /\ r.row = c.row /\ r.tool = c.tool /\ r.about = c.about /\ r.out = c.out /\ r.in = c.in
      BY <2>1 DEF FedCall
    <3>2. fdCalls'[i] = r BY <1>3, <2>3
    <3> HIDE DEF r
    <3>3. CallSound(r, fdRows', fdTask') BY <2>1, <3>1 DEF CallSound
    <3> QED BY <3>1, <3>2, <3>3
  <2> QED BY <2>2, <2>3
<1>6. fdCalls' \in Seq(FedCall)
  <2>1. DOMAIN fdCalls = 1 .. Len(fdCalls) /\ Len(fdCalls) \in Nat BY DEF FederationIInv, FederationTypeOK
  <2>2. fdCalls' = [i \in 1 .. Len(fdCalls) |-> fdCalls'[i]] BY <1>3, <1>4, <2>1
  <2> QED BY <1>5, <2>1, <2>2
<1>7. CallsSound' BY <1>4, <1>5 DEF CallsSound
<1>8. OneCall'
  <2>1. \A i \in DOMAIN fdCalls : fdCalls'[i].from = fdCalls[i].from /\ (fdCalls'[i].live => fdCalls[i].live) BY <1>5
  <2> QED BY <1>4, <2>1 DEF FederationIInv, OneCall
<1>9. Follows' BY <1>2 DEF FederationIInv, Follows, PeerSettled
<1>10. TracksItsOwn' BY <1>2 DEF FederationIInv, Follows, TracksItsOwn, PeerSettled
<1>11. EndsWithItsPeer' BY <1>2 DEF FederationIInv, Follows, EndsWithItsPeer, PeerSettled
<1>12. FederationTypeOK' BY <1>1, <1>2, <1>6 DEF FederationIInv, FederationTypeOK
<1> QED BY <1>7, <1>8, <1>9, <1>10, <1>11, <1>12 DEF FederationIInv

-----------------------------------------------------------------------------
(* The peer's task and its callback                                           *)

LEMMA PeerTaskEndsInv == ASSUME FederationIInv, NEW r \in DOMAIN fdRows, PeerTaskEnds(r) PROVE FederationIInv'
<1>1. PICK s \in {"done", "failed", "canceled"} :
          /\ fdRows' = [fdRows EXCEPT ![r].status = s]
          /\ fdCallbacks' = IF s = "canceled" THEN fdCallbacks ELSE fdCallbacks \cup {r}
  BY DEF PeerTaskEnds
<1>2. UNCHANGED <<fdKnown, fdTask, fdCalls, fdFaults>> BY DEF PeerTaskEnds
<1> DEFINE n == [fdRows[r] EXCEPT !.status = s]
<1>3. fdRows' = [fdRows EXCEPT ![r] = n] BY <1>1
<1>4. fdRows[r] \in PeerRow /\ r \in Nat BY FedTyped DEF FederationIInv
<1>5. n \in PeerRow /\ n.origin = fdRows[r].origin /\ n.status = s BY <1>4 DEF PeerRow, RowStatus
<1> HIDE DEF n
<1>6. /\ fdRows' \in Seq(PeerRow) /\ DOMAIN fdRows' = DOMAIN fdRows /\ fdRows'[r] = n
      /\ \A k \in DOMAIN fdRows : k # r => fdRows'[k] = fdRows[k]
  BY <1>3, <1>5 DEF FederationIInv, FederationTypeOK
<1>7. PeerSettled BY <1>2, <1>5, <1>6 DEF PeerSettled
<1>8. FederationTypeOK' BY <1>1, <1>2, <1>4, <1>6 DEF FederationIInv, FederationTypeOK
<1> QED BY <1>2, <1>7, <1>8, CallsUntouched DEF FederationIInv

LEMMA CallbackArrivesInv == ASSUME FederationIInv, NEW r \in DOMAIN fdRows, CallbackArrives(r) PROVE FederationIInv'
<1>1. /\ fdCallbacks' = fdCallbacks \ {r} /\ UNCHANGED <<fdKnown, fdCalls, fdRows, fdFaults>>
      /\ fdTask' = [t \in Delegates |-> IF fdTask[t].status = "paused" /\ fdTask[t].peer = r
                                        THEN [fdTask[t] EXCEPT !.status = "pending"] ELSE fdTask[t]]
  BY DEF CallbackArrives
<1>2. \A t \in Delegates : /\ fdTask'[t] \in DelegateTask /\ fdTask'[t].peer = fdTask[t].peer
                           /\ fdTask'[t].status = "done" => fdTask[t].status = "done"
  <2> TAKE t \in Delegates
  <2> DEFINE n == [fdTask[t] EXCEPT !.status = "pending"]
  <2>1. fdTask[t] \in DelegateTask BY FedTyped DEF FederationIInv
  <2>2. n \in DelegateTask /\ n.status = "pending" /\ n.peer = fdTask[t].peer BY <2>1 DEF DelegateTask
  <2>3. fdTask'[t] = n \/ fdTask'[t] = fdTask[t] BY <1>1
  <2> HIDE DEF n
  <2> QED BY <2>1, <2>2, <2>3
<1>3. fdTask' \in [Delegates -> DelegateTask]
  <2>1. fdTask' = [t \in Delegates |-> fdTask'[t]] BY <1>1
  <2> QED BY <1>2, <2>1
<1>4. PeerSettled BY <1>1, <1>2 DEF PeerSettled
<1>5. FederationTypeOK' BY <1>1, <1>3 DEF FederationIInv, FederationTypeOK
<1> QED BY <1>1, <1>2, <1>4, <1>5, CallsUntouched DEF FederationIInv

LEMMA CallbackLostInv == ASSUME FederationIInv, NEW r \in DOMAIN fdRows, CallbackLost(r) PROVE FederationIInv'
<1>1. UNCHANGED <<fdKnown, fdTask, fdCalls, fdRows>> BY DEF CallbackLost
<1>2. PeerSettled BY <1>1 DEF PeerSettled
<1>3. fdFaults' \in Nat /\ fdCallbacks' \subseteq Nat
  <2>1. fdFaults \in Nat /\ fdCallbacks \subseteq Nat BY DEF FederationIInv, FederationTypeOK
  <2>2. fdFaults' = fdFaults + 1 /\ fdCallbacks' = fdCallbacks \ {r} BY DEF CallbackLost, FedFault
  <2>3. fdFaults' \in Nat BY <2>1, <2>2
  <2>4. fdCallbacks' \subseteq Nat BY <2>1, <2>2
  <2> QED BY <2>3, <2>4
<1>4. FederationTypeOK' BY <1>1, <1>3 DEF FederationIInv, FederationTypeOK
<1> QED BY <1>1, <1>2, <1>4, CallsUntouched DEF FederationIInv

-----------------------------------------------------------------------------
(* The theorem                                                                *)

\* This ship starts with no calls, no rows and nothing followed.
LEMMA FederationInitInv == FederationInit => FederationIInv
<1> SUFFICES ASSUME FederationInit PROVE FederationIInv OBVIOUS
<1>1. fdCalls = <<>> /\ fdRows = <<>> BY DEF FederationInit
<1>2. \A t \in Delegates : fdTask[t] \in DelegateTask /\ fdTask[t].peer = 0 /\ fdTask[t].status = "new"
  BY DEF FederationInit, DelegateTask, NoPeer
<1>3. fdTask \in [Delegates -> DelegateTask]
  <2>1. fdTask = [t \in Delegates |-> fdTask[t]] BY DEF FederationInit
  <2> QED BY <1>2, <2>1
<1>4. FederationTypeOK BY <1>1, <1>3 DEF FederationInit, FederationTypeOK, DiscoverPeers, Peers
<1>5. CallsSound /\ OneCall BY <1>1 DEF CallsSound, OneCall
<1>6. Follows /\ TracksItsOwn /\ EndsWithItsPeer BY <1>2 DEF Follows, TracksItsOwn, EndsWithItsPeer
<1> QED BY <1>4, <1>5, <1>6 DEF FederationIInv

LEMMA FederationInductive == FederationIInv /\ [FederationNext]_federationVars => FederationIInv'
<1> SUFFICES ASSUME FederationIInv, [FederationNext]_federationVars PROVE FederationIInv' OBVIOUS
<1>1. CASE RefreshPeers BY <1>1, RefreshPeersInv
<1>2. ASSUME NEW t \in Delegates, CreateFromChat(t) \/ CreateFromTask(t) \/ ClaimDelegate(t) \/ RunDelegate(t)
      PROVE  FederationIInv'
  BY <1>2, CreateInv, StatusSteps, RunDelegateInv
<1>3. ASSUME NEW t \in Delegates, AnswerLost(t) \/ AnswerRefused(t) \/ SubmitAnswered(t) \/ PollAnswered(t)
      PROVE  FederationIInv'
  BY <1>3, NoAnswerInv, SubmitAnsweredInv, PollAnsweredInv
<1>4. ASSUME NEW t \in Delegates, OriginCrash(t) \/ WakeStale(t) \/ CancelDelegate(t) PROVE FederationIInv'
  BY <1>4, OriginCrashInv, StatusSteps
<1>5. ASSUME NEW i \in DOMAIN fdCalls,
             AuthRefuses(i) \/ HandleInvoke(i) \/ AcceptTask(i) \/ TaskStatusCall(i) \/ FinishCall(i)
      PROVE  FederationIInv'
  BY <1>5, AuthRefusesInv, HandleInvokeInv, AcceptTaskInv, TaskStatusCallInv, FinishCallInv
<1>6. ASSUME NEW r \in DOMAIN fdRows, PeerTaskEnds(r) \/ CallbackArrives(r) \/ CallbackLost(r) PROVE FederationIInv'
  BY <1>6, PeerTaskEndsInv, CallbackArrivesInv, CallbackLostInv
<1>7. CASE UNCHANGED federationVars
  <2>1. UNCHANGED <<fdKnown, fdTask, fdCalls, fdRows, fdCallbacks, fdFaults>> BY <1>7 DEF federationVars
  <2>2. PeerSettled BY <2>1 DEF PeerSettled
  <2>3. FederationTypeOK' BY <2>1 DEF FederationIInv, FederationTypeOK
  <2> QED BY <2>1, <2>2, <2>3, CallsUntouched DEF FederationIInv
<1> QED BY <1>1, <1>2, <1>3, <1>4, <1>5, <1>6, <1>7 DEF FederationNext, FederationIdle

\* A delegate follows only a row the peer accepted for it, it is over only when
\* that row is, and the two ships' audit rows never contradict each other about a
\* call that was answered: whatever answers, callbacks and iterations are lost
\* (delegate_executor.go, a2a.go), for every set of peers and delegates.
THEOREM FederationIsSound == FederationSpec => []FederationSound
<1>1. FederationIInv => FederationSound
  BY DEF FederationIInv, FederationSound, CallsSound, CallSound, AuditsAgree
<1> QED BY <1>1, FederationInitInv, FederationInductive, PTL DEF FederationSpec

-----------------------------------------------------------------------------
(* The component AcceptanceReview                                             *)

Under == {"review", "accepted"}

ReviewTypeOK ==
    /\ rvTask \in ReviewTasks
    /\ rvReport.cited \subseteq ReviewUrls
    /\ DOMAIN rvAudit = 1 .. ReportParts /\ DOMAIN rvSource = 1 .. ReportParts
    /\ rvPhase \in {"work", "gates", "ended"} \cup Under

\* What was found about a part under review was found in this very report.
FoundInThisReport ==
    rvPhase \in Under => \A p \in 1 .. ReportParts : rvAudit[p].state = "found" => rvSource[p] = rvReport.n

\* An audit kept for a retry is one of this report, and a report that is being
\* written keeps none.
KeptIsOfThisReport ==
    /\ rvPrior.parts \subseteq AuditParts
    /\ rvPrior.report = rvReport.n => \A p \in rvPrior.parts : rvSource[p] = rvReport.n
    /\ rvPhase = "work" => rvPrior.parts = {}

\* The gates hold of the report as long as it is under review.
GatesHeld == rvPhase \in Under => ~ NothingRead(rvReport.cited) /\ ~ MostlyInvented(rvReport.cited)

AcceptedIsMet == rvPhase = "accepted" /\ Audited => AuditMet

ReviewIInv == ReviewTypeOK /\ FoundInThisReport /\ KeptIsOfThisReport /\ GatesHeld /\ AcceptedIsMet

-----------------------------------------------------------------------------
\* The parts a version audits are parts of the report.
LEMMA PartsOfReport == AuditParts \subseteq 1 .. ReportParts
BY ReviewConstants DEF AuditParts

LEMMA PartsStay == rvTask' = rvTask => AuditParts' = AuditParts
BY DEF AuditParts, Version2

\* A step outside the review: what is kept, and that nothing is being judged.
LEMMA OutsideReview ==
  ASSUME ReviewIInv, rvPhase' \in {"work", "gates", "ended"}, rvTask' = rvTask,
         rvReport'.cited \subseteq ReviewUrls, UNCHANGED <<rvAudit, rvSource>>, KeptIsOfThisReport'
  PROVE  ReviewIInv'
<1>1. ReviewTypeOK' BY DEF ReviewIInv, ReviewTypeOK
<1>2. FoundInThisReport' /\ GatesHeld' /\ AcceptedIsMet' BY DEF FoundInThisReport, GatesHeld, AcceptedIsMet, Under
<1> QED BY <1>1, <1>2 DEF ReviewIInv

LEMMA FetchPageInv == ASSUME ReviewIInv, NEW u \in ReviewUrls, FetchPage(u) PROVE ReviewIInv'
<1>1. /\ rvPhase' = rvPhase /\ rvPhase = "work"
      /\ UNCHANGED <<rvTask, rvReport, rvAudit, rvSource, rvPrior>>
  BY DEF FetchPage
<1>2. KeptIsOfThisReport' BY <1>1, PartsStay DEF ReviewIInv, KeptIsOfThisReport
<1> QED BY <1>1, <1>2, OutsideReview DEF ReviewIInv, ReviewTypeOK

LEMMA UpdateProgressInv == ReviewIInv /\ UpdateProgress => ReviewIInv'
<1> SUFFICES ASSUME ReviewIInv, UpdateProgress PROVE ReviewIInv' OBVIOUS
<1>1. /\ rvPhase' = rvPhase /\ rvPhase = "work"
      /\ UNCHANGED <<rvTask, rvReport, rvAudit, rvSource, rvPrior>>
  BY DEF UpdateProgress
<1>2. KeptIsOfThisReport' BY <1>1, PartsStay DEF ReviewIInv, KeptIsOfThisReport
<1> QED BY <1>1, <1>2, OutsideReview DEF ReviewIInv, ReviewTypeOK

\* A new report starts with no audit to reuse.
LEMMA SubmitReportInv == ASSUME ReviewIInv, NEW cited \in SUBSET ReviewUrls, SubmitReport(cited) PROVE ReviewIInv'
<1>1. /\ rvPhase' = "gates" /\ rvPhase = "work" /\ rvReport' = [n |-> rvReport.n + 1, cited |-> cited]
      /\ UNCHANGED <<rvTask, rvAudit, rvSource, rvPrior>>
  BY DEF SubmitReport
<1>2. rvReport'.cited \subseteq ReviewUrls BY <1>1
<1>3. rvPrior'.parts = {} BY <1>1 DEF ReviewIInv, KeptIsOfThisReport
<1>4. KeptIsOfThisReport' BY <1>3 DEF KeptIsOfThisReport
<1> QED BY <1>1, <1>2, <1>4, OutsideReview

LEMMA GiveUpInv == ReviewIInv /\ GiveUpReporting => ReviewIInv'
<1> SUFFICES ASSUME ReviewIInv, GiveUpReporting PROVE ReviewIInv' OBVIOUS
<1>1. rvPhase' = "ended" /\ UNCHANGED <<rvTask, rvReport, rvAudit, rvSource, rvPrior>> BY DEF GiveUpReporting
<1>2. KeptIsOfThisReport' BY <1>1, PartsStay DEF ReviewIInv, KeptIsOfThisReport
<1> QED BY <1>1, <1>2, OutsideReview DEF ReviewIInv, ReviewTypeOK

\* Every rejection starts afresh.
LEMMA RejectInv == ASSUME ReviewIInv, NEW recheck, RejectSubmission(recheck) PROVE ReviewIInv'
<1>1. /\ rvPhase' = "work" /\ rvAudit' = NoAudit /\ rvSource' = NoSource /\ rvPrior' = NoPrior
      /\ UNCHANGED <<rvTask, rvReport>>
  BY DEF RejectSubmission
<1>2. ReviewTypeOK' BY <1>1 DEF ReviewIInv, ReviewTypeOK, NoAudit, NoSource
<1>3. rvPrior'.parts = {} BY <1>1 DEF NoPrior
<1>4. KeptIsOfThisReport' BY <1>3 DEF KeptIsOfThisReport
<1>5. FoundInThisReport' /\ GatesHeld' /\ AcceptedIsMet' BY <1>1 DEF FoundInThisReport, GatesHeld, AcceptedIsMet, Under
<1> QED BY <1>2, <1>4, <1>5 DEF ReviewIInv

\* A retry keeps what was found of this report, and only that.
LEMMA UnavailableInv == ASSUME ReviewIInv, rvPhase = "review", UnavailableAcceptance PROVE ReviewIInv'
<1>1. /\ rvPhase' = "gates" /\ rvPrior' = (IF Version2 THEN KeepAudited ELSE NoPrior)
      /\ UNCHANGED <<rvTask, rvReport, rvAudit, rvSource>>
  BY DEF UnavailableAcceptance
<1>2. \A p \in 1 .. ReportParts : rvAudit[p].state = "found" => rvSource[p] = rvReport.n
  BY DEF ReviewIInv, FoundInThisReport, Under
<1>3. KeptIsOfThisReport'
  <2>1. CASE Version2
    <3>1. rvPrior' = KeepAudited BY <1>1, <2>1
    <3>2. rvPrior'.parts = {p \in AuditParts : rvAudit[p].state = "found"} BY <3>1 DEF KeepAudited
    <3>3. \A p \in rvPrior'.parts : p \in AuditParts' /\ rvSource[p] = rvReport.n BY <1>1, PartsStay, <1>2, <3>2, PartsOfReport
    <3> QED BY <1>1, <3>3 DEF KeptIsOfThisReport
  <2>2. CASE ~ Version2
    <3>1. rvPrior'.parts = {} BY <1>1, <2>2 DEF NoPrior
    <3> QED BY <3>1 DEF KeptIsOfThisReport
  <2> QED BY <2>1, <2>2
<1> QED BY <1>1, <1>3, OutsideReview DEF ReviewIInv, ReviewTypeOK

\* A report enters the review with what is kept of it and nothing else.
LEMMA EvidenceGatesInv == ReviewIInv /\ EvidenceGates => ReviewIInv'
<1> SUFFICES ASSUME ReviewIInv, EvidenceGates PROVE ReviewIInv' OBVIOUS
<1>1. /\ rvPhase' = "review" /\ ~ GateRejects(rvReport.cited)
      /\ rvAudit' = [p \in 1 .. ReportParts |-> IF p \in ReusedParts THEN rvAudit[p] ELSE Todo]
      /\ rvSource' = [p \in 1 .. ReportParts |-> IF p \in ReusedParts THEN rvSource[p] ELSE 0]
      /\ UNCHANGED <<rvTask, rvFetched, rvReport, rvPrior>>
  BY DEF EvidenceGates
<1>2. DOMAIN rvAudit' = 1 .. ReportParts /\ DOMAIN rvSource' = 1 .. ReportParts BY <1>1
<1>3. ReviewTypeOK' BY <1>1, <1>2 DEF ReviewIInv, ReviewTypeOK, Under
<1>4. \A p \in ReusedParts : p \in rvPrior.parts /\ p \in 1 .. ReportParts /\ rvSource[p] = rvReport.n
  BY PartsOfReport DEF ReviewIInv, KeptIsOfThisReport, ReusedParts
<1>5. \A p \in 1 .. ReportParts : rvAudit'[p].state = "found" => rvSource'[p] = rvReport.n
  <2> TAKE p \in 1 .. ReportParts
  <2>1. CASE p \in ReusedParts BY <1>1, <1>4, <2>1
  <2>2. CASE p \notin ReusedParts BY <1>1, <2>2 DEF Todo
  <2> QED BY <2>1, <2>2
<1>6. FoundInThisReport' BY <1>1, <1>5 DEF FoundInThisReport
<1>7. KeptIsOfThisReport'
  <2>1. ASSUME rvPrior.report = rvReport.n, NEW p \in rvPrior.parts PROVE rvSource'[p] = rvReport.n
    <3>1. p \in 1 .. ReportParts /\ rvSource[p] = rvReport.n
      BY <2>1, PartsOfReport DEF ReviewIInv, KeptIsOfThisReport
    <3>2. p \in ReusedParts BY <2>1 DEF ReviewIInv, KeptIsOfThisReport, ReusedParts
    <3> QED BY <1>1, <3>1, <3>2
  <2>2. AuditParts' = AuditParts BY <1>1, PartsStay
  <2> QED BY <1>1, <2>1, <2>2 DEF ReviewIInv, KeptIsOfThisReport
<1>8. GatesHeld'
  <2>1. ~ NothingRead(rvReport.cited) /\ ~ MostlyInvented(rvReport.cited) BY <1>1 DEF GateRejects
  <2> QED BY <1>1, <2>1 DEF GatesHeld, NothingRead, MostlyInvented
<1>9. AcceptedIsMet' BY <1>1 DEF AcceptedIsMet
<1> QED BY <1>3, <1>6, <1>7, <1>8, <1>9 DEF ReviewIInv

-----------------------------------------------------------------------------
(* Under review                                                               *)

\* A step under review that leaves the report and the pages alone.
LEMMA UnderReview ==
  ASSUME ReviewIInv, rvPhase = "review", rvPhase' = "review", UNCHANGED <<rvTask, rvFetched, rvReport, rvPrior>>,
         DOMAIN rvAudit' = 1 .. ReportParts, DOMAIN rvSource' = 1 .. ReportParts,
         \A p \in 1 .. ReportParts : rvSource'[p] = rvSource[p] \/ rvSource'[p] = rvReport.n,
         \A p \in 1 .. ReportParts : rvAudit'[p].state = "found" => rvAudit[p].state = "found" \/ rvSource'[p] = rvReport.n
  PROVE  ReviewIInv'
<1>1. ReviewTypeOK' BY DEF ReviewIInv, ReviewTypeOK, Under
<1>2. FoundInThisReport' BY DEF ReviewIInv, FoundInThisReport, Under
<1>3. KeptIsOfThisReport' BY PartsStay, PartsOfReport DEF ReviewIInv, KeptIsOfThisReport
<1>4. GatesHeld' BY DEF ReviewIInv, GatesHeld, NothingRead, MostlyInvented
<1>5. AcceptedIsMet' BY DEF AcceptedIsMet
<1> QED BY <1>1, <1>2, <1>3, <1>4, <1>5 DEF ReviewIInv

LEMMA EvaluatePartInv == ASSUME ReviewIInv, NEW p \in 1 .. ReportParts, EvaluateGroundingPart(p) PROVE ReviewIInv'
<1>1. /\ rvPhase = "review" /\ rvPhase' = "review" /\ UNCHANGED <<rvTask, rvFetched, rvReport, rvPrior>>
      /\ DOMAIN rvAudit = 1 .. ReportParts /\ DOMAIN rvSource = 1 .. ReportParts
  BY DEF EvaluateGroundingPart, ReviewIInv, ReviewTypeOK
<1>2. \/ \E a : rvAudit' = [rvAudit EXCEPT ![p] = a] /\ rvSource' = [rvSource EXCEPT ![p] = rvReport.n]
      \/ rvAudit' = [rvAudit EXCEPT ![p] = LostAudit] /\ UNCHANGED rvSource
  BY DEF EvaluateGroundingPart
<1>3. ASSUME NEW a, rvAudit' = [rvAudit EXCEPT ![p] = a], rvSource' = [rvSource EXCEPT ![p] = rvReport.n]
      PROVE  ReviewIInv'
  <2>1. /\ DOMAIN rvAudit' = 1 .. ReportParts /\ DOMAIN rvSource' = 1 .. ReportParts
        /\ \A q \in 1 .. ReportParts : rvSource'[q] = IF q = p THEN rvReport.n ELSE rvSource[q]
        /\ \A q \in 1 .. ReportParts : q # p => rvAudit'[q] = rvAudit[q]
    BY <1>1, <1>3
  <2> QED BY <1>1, <2>1, UnderReview
<1>4. CASE rvAudit' = [rvAudit EXCEPT ![p] = LostAudit] /\ UNCHANGED rvSource
  <2>1. /\ DOMAIN rvAudit' = 1 .. ReportParts /\ DOMAIN rvSource' = 1 .. ReportParts
        /\ rvAudit'[p].state = "lost" /\ \A q \in 1 .. ReportParts : q # p => rvAudit'[q] = rvAudit[q]
    BY <1>1, <1>4 DEF LostAudit
  <2> QED BY <1>1, <1>4, <2>1, UnderReview
<1> QED BY <1>2, <1>3, <1>4

LEMMA AskReviewerInv == ReviewIInv /\ AskReviewer => ReviewIInv'
<1> SUFFICES ASSUME ReviewIInv, AskReviewer PROVE ReviewIInv' OBVIOUS
<1>1. /\ rvPhase = "review" /\ rvPhase' = "review"
      /\ UNCHANGED <<rvTask, rvFetched, rvReport, rvPrior, rvAudit, rvSource>>
  BY DEF AskReviewer
<1>2. DOMAIN rvAudit' = 1 .. ReportParts /\ DOMAIN rvSource' = 1 .. ReportParts
  BY <1>1 DEF ReviewIInv, ReviewTypeOK
<1> QED BY <1>1, <1>2, UnderReview

LEMMA AcceptedInv == ReviewIInv /\ ReportAccepted => ReviewIInv'
<1> SUFFICES ASSUME ReviewIInv, ReportAccepted PROVE ReviewIInv' OBVIOUS
<1>1. /\ rvPhase = "review" /\ rvPhase' = "accepted" /\ (Audited => AuditMet)
      /\ UNCHANGED <<rvTask, rvFetched, rvReport, rvPrior, rvAudit, rvSource>>
  BY DEF ReportAccepted
<1>2. ReviewTypeOK' BY <1>1 DEF ReviewIInv, ReviewTypeOK, Under
<1>3. FoundInThisReport' BY <1>1 DEF ReviewIInv, FoundInThisReport, Under
<1>4. KeptIsOfThisReport' BY <1>1, PartsStay DEF ReviewIInv, KeptIsOfThisReport
<1>5. GatesHeld' BY <1>1 DEF ReviewIInv, GatesHeld, NothingRead, MostlyInvented, Under
<1>6. AcceptedIsMet' BY <1>1, PartsStay DEF AcceptedIsMet, Audited, AuditMet, GroundingMet, Version2
<1> QED BY <1>2, <1>3, <1>4, <1>5, <1>6 DEF ReviewIInv

\* Nothing of what is judged changes.
LEMMA ReviewRestsInv ==
  ASSUME ReviewIInv, UNCHANGED <<rvTask, rvPhase, rvFetched, rvReport, rvPrior, rvAudit, rvSource>>
  PROVE  ReviewIInv'
<1>1. ReviewTypeOK' BY DEF ReviewIInv, ReviewTypeOK
<1>2. FoundInThisReport' BY DEF ReviewIInv, FoundInThisReport
<1>3. KeptIsOfThisReport' BY PartsStay DEF ReviewIInv, KeptIsOfThisReport
<1>4. GatesHeld' BY DEF ReviewIInv, GatesHeld, NothingRead, MostlyInvented
<1>5. AcceptedIsMet' BY PartsStay DEF ReviewIInv, AcceptedIsMet, Audited, AuditMet, GroundingMet, Version2
<1> QED BY <1>1, <1>2, <1>3, <1>4, <1>5 DEF ReviewIInv

-----------------------------------------------------------------------------
LEMMA ReviewInitInv == ReviewInit => ReviewIInv
<1> SUFFICES ASSUME ReviewInit PROVE ReviewIInv OBVIOUS
<1>1. /\ rvPhase = "work" /\ rvPrior.parts = {} /\ rvReport.cited = {} /\ rvTask \in ReviewTasks
      /\ DOMAIN rvAudit = 1 .. ReportParts /\ DOMAIN rvSource = 1 .. ReportParts
  BY DEF ReviewInit, NoPrior, NoAudit, NoSource
<1>2. ReviewTypeOK BY <1>1 DEF ReviewTypeOK
<1>3. FoundInThisReport /\ KeptIsOfThisReport /\ GatesHeld /\ AcceptedIsMet
  BY <1>1 DEF FoundInThisReport, KeptIsOfThisReport, GatesHeld, AcceptedIsMet, Under
<1> QED BY <1>2, <1>3 DEF ReviewIInv

LEMMA ReviewInductive == ReviewIInv /\ [ReviewNext]_reviewVars => ReviewIInv'
<1> SUFFICES ASSUME ReviewIInv, [ReviewNext]_reviewVars PROVE ReviewIInv' OBVIOUS
<1>1. CASE GatesReject BY <1>1, RejectInv DEF GatesReject
<1>2. CASE EvidenceUnreadable BY <1>2, ReviewRestsInv DEF EvidenceUnreadable
<1>3. CASE AuditUnavailable BY <1>3, UnavailableInv DEF AuditUnavailable
<1>4. CASE ReviewRejects BY <1>4, RejectInv DEF ReviewRejects
<1>5. CASE ReviewUnavailable BY <1>5, UnavailableInv DEF ReviewUnavailable
<1>6. CASE GroundingOverrides BY <1>6, RejectInv DEF GroundingOverrides
<1>7. CASE UNCHANGED reviewVars BY <1>7, ReviewRestsInv DEF reviewVars
<1> QED BY <1>1, <1>2, <1>3, <1>4, <1>5, <1>6, <1>7, FetchPageInv, UpdateProgressInv, SubmitReportInv, GiveUpInv,
           EvidenceGatesInv, EvaluatePartInv, AskReviewerInv, AcceptedInv
        DEF ReviewNext

\* An accepted report was audited part by part as it stands, whatever was retried
\* or repaired before, holds no claim known to be unsupported in version 2, and
\* cites pages that were read, at least half of them (evaluator.go, grounding.go,
\* graph_reviews.go): for every set of pages and every tally an audit may find.
THEOREM ReviewIsSound == ReviewSpec => []ReviewSound
<1>1. ReviewIInv => ReviewSound
  <2> SUFFICES ASSUME ReviewIInv PROVE ReviewSound OBVIOUS
  <2>1. AcceptedWasAudited
    <3> SUFFICES ASSUME rvPhase = "accepted", Audited, NEW p \in AuditParts PROVE rvSource[p] = rvReport.n
      BY DEF AcceptedWasAudited
    <3>1. rvAudit[p].state = "found" BY DEF ReviewIInv, AcceptedIsMet, AuditMet
    <3> QED BY <3>1, PartsOfReport DEF ReviewIInv, FoundInThisReport, Under
  <2>2. AcceptedIsSupported
    <3> SUFFICES ASSUME rvPhase = "accepted", Audited, Version2, NEW p \in AuditParts
                 PROVE  rvAudit[p].tally.hard + rvAudit[p].tally.partial = 0
      BY DEF AcceptedIsSupported
    <3>1. rvAudit[p].tally.partial = 0 /\ rvAudit[p].tally.hard = 0
      BY DEF ReviewIInv, AcceptedIsMet, AuditMet, GroundingMet, StrictGrounding
    <3> QED BY <3>1
  <2>3. AcceptedWasRead
    <3> SUFFICES ASSUME rvPhase = "accepted", rvReport.cited # {}
                 PROVE  /\ rvFetched # {}
                        /\ Cardinality(rvReport.cited) >= 2 =>
                             2 * Cardinality(rvReport.cited \cap rvFetched) >= Cardinality(rvReport.cited)
      BY DEF AcceptedWasRead
    <3>1. ~ NothingRead(rvReport.cited) /\ ~ MostlyInvented(rvReport.cited) BY DEF ReviewIInv, GatesHeld, Under
    <3>2. rvFetched # {} BY <3>1 DEF NothingRead
    <3>3. IsFiniteSet(rvReport.cited) BY FS_Subset, ReviewConstants DEF ReviewIInv, ReviewTypeOK
    <3>4. IsFiniteSet(rvReport.cited \cap rvFetched) BY <3>3, FS_Subset
    <3>5. Cardinality(rvReport.cited) \in Nat /\ Cardinality(rvReport.cited \cap rvFetched) \in Nat
      BY <3>3, <3>4, FS_CardinalityType
    <3>6. Cardinality(rvReport.cited) >= 2 =>
             ~ (Cardinality(rvReport.cited \cap rvFetched) * 2 < Cardinality(rvReport.cited))
      BY <3>1, <3>2 DEF MostlyInvented
    <3> QED BY <3>2, <3>5, <3>6
  <2> QED BY <2>1, <2>2, <2>3 DEF ReviewSound
<1> QED BY <1>1, ReviewInitInv, ReviewInductive, PTL DEF ReviewSpec
=============================================================================
