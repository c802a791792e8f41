----------------------------- MODULE McpManager -----------------------------
(* The pool of MCP connections of one soul (integration/mcp/manager.go) and   *)
(* the callers that take its tools: a turn and the cabinet's refresh          *)
(* (internal/gateway/gateway_cortex.go, tool_invoke.go).  A configuration is  *)
(* its version, and the signature of the rows is the version read.            *)
EXTENDS Naturals, Sequences, FiniteSets

CONSTANTS
    McpServers,     \* version -> the servers enabled by it (a sequence of sets)
    McpNames,       \* server -> the registry names of its tools
    McpCallers,     \* the callers
    MaxConnects,    \* connections of the whole soul ever started
    MaxRefreshes,   \* refreshes asked from the cabinet
    MaxStoreErrors  \* reads of the configuration that fail

ASSUME McpConstants ==
    /\ Len(McpServers) > 0 /\ MaxConnects \in Nat /\ MaxRefreshes \in Nat /\ MaxStoreErrors \in Nat
    /\ McpServers \in Seq(SUBSET DOMAIN McpNames)

VARIABLES
    mcVersion,   \* the configuration in the cabinet
    mcEntry,     \* the soul's entry in the manager's map, 0 for none
    mcEntries,   \* every entry made; a replaced one may still be written to
    mcCalls,     \* caller -> where it is and what it read
    mcJobs,      \* connectSoul in progress: who runs it -> its state
    mcOpen,      \* connections that are open
    mcConnects, mcErrors

mcpVars == <<mcVersion, mcEntry, mcEntries, mcCalls, mcJobs, mcOpen, mcConnects, mcErrors>>

ColdEntry == [sig |-> 0, tools |-> 0, clients |-> {}, stale |-> FALSE, refreshing |-> FALSE, blind |-> FALSE]
IdleCall == [pc |-> "idle", entry |-> 0, sig |-> 0]
IsCold(e) == mcEntries[e].sig = 0
StoreError == mcErrors < MaxStoreErrors /\ mcErrors' = mcErrors + 1

\* A background refresh is named after its entry, a synchronous one after its caller.
Background(e) == <<"refresh", e>>
Foreground(c) == <<"call", c>>
EndJob(j) == mcJobs' = [k \in DOMAIN mcJobs \ {j} |-> mcJobs[k]]
StartJob(j, e, sig) ==
    mcJobs' = [k \in DOMAIN mcJobs \cup {j} |->
                 IF k = j THEN [pc |-> "list", entry |-> e, sig |-> sig, listed |-> 0, n |-> mcConnects,
                                clients |-> {}, old |-> {}] ELSE mcJobs[k]]

-----------------------------------------------------------------------------
(* ToolsForSoul                                                               *)

\* Under the manager's lock: the soul's entry, made if there is none.
TakeEntry(c) ==
    /\ mcCalls[c].pc = "idle"
    /\ IF mcEntry # 0 THEN UNCHANGED <<mcEntry, mcEntries>>
       ELSE mcEntry' = Len(mcEntries) + 1 /\ mcEntries' = Append(mcEntries, ColdEntry)
    /\ mcCalls' = [mcCalls EXCEPT ![c] = [IdleCall EXCEPT !.pc = "sign", !.entry = mcEntry']]
    /\ UNCHANGED <<mcVersion, mcJobs, mcOpen, mcConnects, mcErrors>>

\* The rows are signed without any lock.
ServersSignature(c) ==
    /\ mcCalls[c].pc = "sign"
    /\ mcCalls' = [mcCalls EXCEPT ![c].pc = "look", ![c].sig = mcVersion]
    /\ UNCHANGED <<mcVersion, mcEntry, mcEntries, mcJobs, mcOpen, mcConnects, mcErrors>>

ServeNow(e, sig) == ~ IsCold(e) /\ mcEntries[e].sig = sig

\* Serve the cache; serve it and refresh behind; or connect now.
LookAtCache(c) ==
    LET call == mcCalls[c]
        e == call.entry
        entry == mcEntries[e] IN
    /\ call.pc = "look"
    /\ \/ /\ ServeNow(e, call.sig)
          /\ mcCalls' = [mcCalls EXCEPT ![c].pc = "tools"]
          /\ IF entry.stale /\ ~ entry.refreshing /\ mcConnects < MaxConnects
             THEN /\ mcEntries' = [mcEntries EXCEPT ![e].refreshing = TRUE]
                  /\ StartJob(Background(e), e, call.sig)
                  /\ mcConnects' = mcConnects + 1
             ELSE UNCHANGED <<mcEntries, mcJobs, mcConnects>>
       \/ /\ ~ ServeNow(e, call.sig) /\ mcConnects < MaxConnects
          /\ mcCalls' = [mcCalls EXCEPT ![c].pc = "connect"]
          /\ StartJob(Foreground(c), e, call.sig)
          /\ mcConnects' = mcConnects + 1 /\ UNCHANGED mcEntries
       \/ /\ ~ ServeNow(e, call.sig) /\ mcConnects = MaxConnects      \* the bound of the instance
          /\ mcCalls' = [mcCalls EXCEPT ![c] = IdleCall]
          /\ UNCHANGED <<mcEntries, mcJobs, mcConnects>>
    /\ UNCHANGED <<mcVersion, mcEntry, mcOpen, mcErrors>>

\* After a synchronous connection the caller takes what the entry holds now.
TakeConnected(c) ==
    /\ mcCalls[c].pc = "connect" /\ Foreground(c) \notin DOMAIN mcJobs
    /\ mcCalls' = [mcCalls EXCEPT ![c].pc = "tools"]
    /\ UNCHANGED <<mcVersion, mcEntry, mcEntries, mcJobs, mcOpen, mcConnects, mcErrors>>

-----------------------------------------------------------------------------
(* connectSoul                                                                *)

\* The rows are read after the signature was.
ListServers(j) ==
    /\ mcJobs[j].pc = "list"
    /\ mcJobs' = [mcJobs EXCEPT ![j].pc = "dial", ![j].listed = mcVersion]
    /\ UNCHANGED <<mcVersion, mcEntry, mcEntries, mcCalls, mcOpen, mcConnects, mcErrors>>

\* The rows could not be read: the old tools count as refreshed, under the
\* signature of the caller.
ListServersFails(j) ==
    LET e == mcJobs[j].entry IN
    /\ mcJobs[j].pc = "list" /\ StoreError
    /\ mcEntries' = [mcEntries EXCEPT ![e].sig = mcJobs[j].sig, ![e].stale = FALSE,
                                      ![e].blind = TRUE, ![e].refreshing = @ /\ j # Background(e)]
    /\ EndJob(j)
    /\ UNCHANGED <<mcVersion, mcEntry, mcCalls, mcOpen, mcConnects>>

ConflictedNone(up) == {}             \* mutant: no gate across servers

\* A name two servers share costs both of them their place.
Conflicted(up) ==
    {s \in up : \E r \in up \ {s} : McpNames[r] \cap McpNames[s] # {}}

\* Every server is dialled at once and each one answers with its tools or
\* fails on its own; what passes the collision gate stays open.
ConnectServers(j) ==
    /\ mcJobs[j].pc = "dial"
    /\ \E up \in SUBSET McpServers[mcJobs[j].listed] :
          LET kept == {[job |-> j, n |-> mcJobs[j].n, server |-> s] : s \in up \ Conflicted(up)} IN
          /\ mcJobs' = [mcJobs EXCEPT ![j].pc = "swap", ![j].clients = kept]
          /\ mcOpen' = mcOpen \cup kept
    /\ UNCHANGED <<mcVersion, mcEntry, mcEntries, mcCalls, mcConnects, mcErrors>>

SwappedNewest(job, e) == [ColdEntry EXCEPT !.sig = mcVersion, !.tools = job.listed, !.clients = job.clients,
                                    !.refreshing = mcEntries[e].refreshing]    \* mutant: signs what is there now

\* The swap keeps the signature the caller read, not one read now.
Swapped(job, e) == [ColdEntry EXCEPT !.sig = job.sig, !.tools = job.listed, !.clients = job.clients,
                                     !.refreshing = mcEntries[e].refreshing]

SwapConnections(j) ==
    LET e == mcJobs[j].entry IN
    /\ mcJobs[j].pc = "swap"
    /\ mcEntries' = [mcEntries EXCEPT ![e] = Swapped(mcJobs[j], e)]
    /\ mcJobs' = [mcJobs EXCEPT ![j].pc = "close", ![j].old = mcEntries[e].clients]
    /\ UNCHANGED <<mcVersion, mcEntry, mcCalls, mcOpen, mcConnects, mcErrors>>

CloseReplaced(j) ==
    LET e == mcJobs[j].entry IN
    /\ mcJobs[j].pc = "close"
    /\ mcOpen' = mcOpen \ mcJobs[j].old
    /\ mcEntries' = [mcEntries EXCEPT ![e].refreshing = @ /\ j # Background(e)]
    /\ EndJob(j)
    /\ UNCHANGED <<mcVersion, mcEntry, mcCalls, mcConnects, mcErrors>>

-----------------------------------------------------------------------------
(* The callers                                                                *)

\* The registry of a turn, or of a direct invocation, is the user's with the
\* MCP tools over it.
CortexTurn(c) ==
    /\ mcCalls[c].pc = "tools"
    /\ mcCalls' = [mcCalls EXCEPT ![c] = IdleCall]
    /\ UNCHANGED <<mcVersion, mcEntry, mcEntries, mcJobs, mcOpen, mcConnects, mcErrors>>

\* Invalidate takes the entry out of the map and closes what it held then;
\* the cabinet's refresh goes on to the tools of a new entry.
RefreshMCP(c) ==
    /\ mcCalls[c].pc = "idle" /\ mcEntry # 0 /\ Len(mcEntries) <= MaxRefreshes
    /\ mcEntry' = Len(mcEntries) + 1 /\ mcEntries' = Append(mcEntries, ColdEntry)
    /\ mcOpen' = mcOpen \ mcEntries[mcEntry].clients
    /\ mcCalls' = [mcCalls EXCEPT ![c] = [IdleCall EXCEPT !.pc = "sign", !.entry = mcEntry']]
    /\ UNCHANGED <<mcVersion, mcJobs, mcConnects, mcErrors>>

ConfigChanges ==
    /\ mcVersion < Len(McpServers) /\ mcVersion' = mcVersion + 1
    /\ UNCHANGED <<mcEntry, mcEntries, mcCalls, mcJobs, mcOpen, mcConnects, mcErrors>>

CacheAges ==
    /\ mcEntry # 0 /\ ~ IsCold(mcEntry) /\ ~ mcEntries[mcEntry].stale
    /\ mcEntries' = [mcEntries EXCEPT ![mcEntry].stale = TRUE]
    /\ UNCHANGED <<mcVersion, mcEntry, mcCalls, mcJobs, mcOpen, mcConnects, mcErrors>>

McpInit ==
    /\ mcVersion = 1 /\ mcEntry = 0 /\ mcEntries = <<>>
    /\ mcCalls = [c \in McpCallers |-> IdleCall] /\ mcJobs = <<>> /\ mcOpen = {}
    /\ mcConnects = 0 /\ mcErrors = 0

McpNext ==
    \/ \E c \in McpCallers :
          \/ TakeEntry(c) \/ ServersSignature(c) \/ LookAtCache(c) \/ TakeConnected(c)
          \/ CortexTurn(c) \/ RefreshMCP(c)
    \/ \E j \in DOMAIN mcJobs :
          \/ ListServers(j) \/ ListServersFails(j) \/ ConnectServers(j)
          \/ SwapConnections(j) \/ CloseReplaced(j)
    \/ ConfigChanges \/ CacheAges

McpSpec == McpInit /\ [][McpNext]_mcpVars

-----------------------------------------------------------------------------
(* Properties                                                                 *)

\* An entry is never signed with a newer configuration than the one its tools
\* come from, so the next turn sees the change however a slow refresh and a
\* synchronous connection interleave; only rows that could not be read break it.
ChangeIsSeen ==
    \A e \in DOMAIN mcEntries : mcEntries[e].blind \/ mcEntries[e].sig <= mcEntries[e].tools

\* The connections of the entry in the map are open: closing what a swap
\* replaced never closes what another swap put there.
ServedAreOpen == mcEntry # 0 => mcEntries[mcEntry].clients \subseteq mcOpen

\* No two servers of an entry answer to one tool name.
NamesUnambiguous ==
    \A e \in DOMAIN mcEntries : \A k, l \in mcEntries[e].clients :
        k # l => McpNames[k.server] \cap McpNames[l.server] = {}

\* What the pool owes the turns that take its tools.
McpSound == ChangeIsSeen /\ ServedAreOpen /\ NamesUnambiguous
=============================================================================
