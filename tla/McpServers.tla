------------------------------- MODULE McpServers -------------------------------
(***************************************************************************)
(* The manager of the MCP servers of a workspace: it reads their file,     *)
(* makes a client for each at the first need, and hands out their tools    *)
(* under names of its own.  A remote server is reached by one POST for     *)
(* every request, over redirects that are checked one by one.  How a local *)
(* server answers the chats that share it is in McpClient.                 *)
(***************************************************************************)
EXTENDS Naturals, Sequences, SequencesExt, FiniteSetsExt

CONSTANTS
    ServerCount,   \* entries of the file, in its order
    LocalServers,  \* those with a command; the others have an URL
    ServedTools,   \* names that servers give their tools
    FullName,      \* FullName[<<server, tool>>]
    Folded,        \* what registry_safe makes of a full name
    Cut,           \* Cut[folded], the same unless it is too long
    MaxRedirects,  \* MAX_MCP_REDIRECTS
    MaxServed,     \* bound: tools of a server
    MaxRounds      \* bound: discoveries, contexts and calls

Servers == 1..ServerCount
Origins == {"own", "public", "private"}

ASSUME ServersAssumption ==
    /\ {ServerCount, MaxRedirects, MaxServed, MaxRounds} \subseteq Nat
    /\ LocalServers \subseteq Servers

VARIABLES
    accepted,   \* entries of the file that load_mcp_config accepts
    clients,    \* McpManager.clients: "none", "client" or "dead"
    processes,  \* of a server: "none", "up" or "gone"
    errand,     \* "load", "absent", "idle", "tools", "context", "post" or "closed"
    nth,        \* the server a pass is at
    fresh,      \* spawned_now of this pass
    specs,      \* of this pass: name, server, tool
    skips,      \* discovery_skips
    reason,     \* of the request: "init", "note", "tools", "context" or "call"
    posted,     \* where the request goes
    hops,       \* redirects it has followed
    lent,       \* history: places the configured headers went to
    visited,    \* history: places a request went to
    dropped,    \* history: clients given up without being closed
    rounds
posting == <<reason, posted, hops, lent, visited>>
managed == <<clients, processes, fresh, specs, skips, dropped>>
serverVars == <<accepted, managed, errand, nth, posting, rounds>>

ServersTypeOK ==
    /\ accepted \subseteq Servers /\ clients \in [Servers -> {"none", "client", "dead"}]
    /\ processes \in [Servers -> {"none", "up", "gone"}] /\ nth \in 1..(ServerCount + 1)
    /\ errand \in {"load", "absent", "idle", "tools", "context", "post", "closed"}
    /\ {fresh, skips, dropped} \subseteq SUBSET Servers
    /\ specs \in Seq([name : {specs[i].name : i \in DOMAIN specs},
                      server : Servers, tool : ServedTools])
    /\ reason \in {"init", "note", "tools", "context", "call"} /\ hops \in 0..MaxRedirects
    /\ posted \in Origins /\ {lent, visited} \subseteq SUBSET Origins
    /\ rounds \in 0..MaxRounds

ServersInit ==
    /\ accepted \in SUBSET Servers /\ clients = [s \in Servers |-> "none"]
    /\ processes = clients /\ errand = "load" /\ nth = 1 /\ fresh = {}
    /\ specs = <<>> /\ skips = {} /\ reason = "tools" /\ posted = "own" /\ hops = 0
    /\ lent = {} /\ visited = {} /\ dropped = {} /\ rounds = 0

(* load_mcp_config: one entry that is refused, and there is no manager.    *)
LoadServers ==
    /\ errand = "load" /\ errand' = IF accepted = Servers THEN "idle" ELSE "absent"
    /\ UNCHANGED <<accepted, managed, nth, posting, rounds>>

-----------------------------------------------------------------------------
(* tool_specs, resources_context, and a call of a remote tool. *)
BeginPass(what) ==
    /\ errand = "idle" /\ rounds < MaxRounds /\ rounds' = rounds + 1
    /\ errand' = what /\ nth' = 1 /\ fresh' = {}
    /\ specs' = IF what = "tools" THEN <<>> ELSE specs
    /\ UNCHANGED <<accepted, clients, processes, skips, dropped, reason, posted, hops, lent,
                   visited>>

Post(why) == errand' = "post" /\ reason' = why /\ posted' = "own" /\ hops' = 0

CallRemote ==
    /\ errand = "idle" /\ rounds < MaxRounds /\ rounds' = rounds + 1
    /\ \E i \in DOMAIN specs : specs[i].server \notin LocalServers /\ nth' = specs[i].server
    /\ Post("call")
    /\ UNCHANGED <<accepted, managed, lent, visited>>

EndPass ==
    /\ errand \in {"tools", "context"} /\ nth > ServerCount
    /\ errand' = "idle" /\ nth' = 1 /\ UNCHANGED <<accepted, managed, posting, rounds>>

(* A client is dead when the manager says so, or when it says so itself.   *)
Dead(s) == clients[s] = "dead" \/ (clients[s] = "client" /\ processes[s] = "gone")

(* What status() says of a server, without starting anything.              *)
Health(s) == IF clients[s] = "none" THEN "unspawned"
             ELSE IF Dead(s) THEN "dead" ELSE "ok"

NextServer == nth' = nth + 1 /\ UNCHANGED errand

(* _mark_dead, and the skip of a discovery; what this pass has started is  *)
(* closed, and what was there before is let go as it is.                   *)
GiveUpServer ==
    /\ clients' = [clients EXCEPT ![nth] = "dead"] /\ skips' = skips \cup {nth}
    /\ IF nth \in fresh \cap LocalServers
       THEN processes' = [processes EXCEPT ![nth] = "gone"] /\ UNCHANGED dropped
       ELSE /\ dropped' = IF clients[nth] = "client" THEN dropped \cup {nth} ELSE dropped
            /\ UNCHANGED processes
    /\ UNCHANGED <<fresh, specs>>

(* A dead server is passed over; resources_context says nothing of it.     *)
PassOver ==
    /\ errand \in {"tools", "context"} /\ nth <= ServerCount
    /\ Dead(nth)
    /\ IF errand = "tools" THEN GiveUpServer
       ELSE /\ clients' = [clients EXCEPT ![nth] = "dead"]
            /\ UNCHANGED <<processes, fresh, specs, skips, dropped>>
    /\ NextServer /\ UNCHANGED <<accepted, posting, rounds>>

(* _client starts a process; its handshake may fail, and then it is never  *)
(* tried again.                                                            *)
SpawnServer ==
    /\ errand \in {"tools", "context"} /\ nth \in LocalServers /\ clients[nth] = "none"
    /\ \/ /\ clients' = [clients EXCEPT ![nth] = "client"]
          /\ processes' = [processes EXCEPT ![nth] = "up"]
          /\ fresh' = IF errand = "tools" THEN fresh \cup {nth} ELSE fresh
          /\ UNCHANGED <<skips, nth>>
       \/ /\ clients' = [clients EXCEPT ![nth] = "dead"]
          /\ processes' = [processes EXCEPT ![nth] = "gone"]
          /\ skips' = IF errand = "tools" THEN skips \cup {nth} ELSE skips
          /\ nth' = nth + 1 /\ UNCHANGED fresh
    /\ UNCHANGED <<accepted, specs, dropped, errand, posting, rounds>>

Connect ==
    /\ errand \in {"tools", "context"}
    /\ nth \in Servers \ LocalServers /\ clients[nth] = "none"
    /\ fresh' = IF errand = "tools" THEN fresh \cup {nth} ELSE fresh
    /\ Post("init")
    /\ UNCHANGED <<accepted, clients, processes, specs, skips, dropped, nth, lent, visited,
                   rounds>>

-----------------------------------------------------------------------------
(* _unique_tool_name: a name that is too long or taken ends in a hash of   *)
(* the full name, or in a hash of that again.                              *)
FreeName(full, taken) ==
    LET safe == Folded[full]
        hashed(n) == <<Cut[safe], full, n>>
    IN IF Cut[safe] = safe /\ <<safe>> \notin taken THEN <<safe>>
       ELSE hashed(Min({n \in 1..(Cardinality(taken) + 1) : hashed(n) \notin taken}))

(* The specs of a pass after each tool of the list of the server it is at. *)
SpecsAfter(listed) ==
    LET after[k \in 0..Len(listed)] ==
            IF k = 0 THEN specs
            ELSE LET taken == {after[k - 1][i].name : i \in DOMAIN after[k - 1]}
                 IN Append(after[k - 1],
                           [name |-> FreeName(FullName[<<nth, listed[k]>>], taken),
                            server |-> nth, tool |-> listed[k]])
    IN after

Register ==
    /\ \E listed \in UNION {[1..n -> ServedTools] : n \in 0..MaxServed} :
         specs' = SpecsAfter(listed)[Len(listed)]
    /\ UNCHANGED <<clients, processes, fresh, skips, dropped>>

(* A local server lists its tools, or fails to; whether it has resources   *)
(* makes no difference here.                                               *)
ListLocal ==
    /\ errand \in {"tools", "context"} /\ nth \in LocalServers
    /\ clients[nth] = "client"
    /\ IF errand = "tools" THEN (processes[nth] = "up" /\ Register) \/ GiveUpServer
       ELSE UNCHANGED managed
    /\ NextServer /\ UNCHANGED <<accepted, posting, rounds>>

AskRemote ==
    /\ errand \in {"tools", "context"}
    /\ nth \in Servers \ LocalServers /\ clients[nth] = "client"
    /\ Post(errand) /\ UNCHANGED <<accepted, managed, nth, lent, visited, rounds>>

-----------------------------------------------------------------------------
(* The configured headers belong to the origin they were configured for.   *)
Carries(where) == where = "own"

AskedFor == IF nth \in fresh THEN "tools" ELSE "context"

(* A handshake that fails leaves no client; a list that fails gives it up; *)
(* a context and a call do without.                                        *)
Declined ==
    CASE reason \in {"init", "note"} ->
           /\ clients' = [clients EXCEPT ![nth] = "dead"]
           /\ nth' = nth + 1 /\ errand' = AskedFor
           /\ skips' = IF nth \in fresh THEN skips \cup {nth} ELSE skips
           /\ fresh' = fresh \ {nth} /\ UNCHANGED <<processes, specs, dropped>>
      [] reason = "tools" -> GiveUpServer /\ nth' = nth + 1 /\ errand' = "tools"
      [] reason = "context" -> nth' = nth + 1 /\ errand' = "context" /\ UNCHANGED managed
      [] reason = "call" -> nth' = 1 /\ errand' = "idle" /\ UNCHANGED managed

(* After the handshake the server is told so, and then the pass goes on.   *)
Responded ==
    CASE reason = "init" -> Post("note") /\ UNCHANGED <<managed, nth>>
      [] reason = "note" -> /\ clients' = [clients EXCEPT ![nth] = "client"]
                            /\ errand' = AskedFor
                            /\ UNCHANGED <<processes, fresh, specs, skips, dropped, nth>>
                            /\ UNCHANGED <<reason, posted, hops>>
      [] reason = "tools" -> /\ Register /\ nth' = nth + 1 /\ errand' = "tools"
                             /\ UNCHANGED <<reason, posted, hops>>
      [] OTHER -> Declined /\ UNCHANGED <<reason, posted, hops>>

(* One hop: an answer to the request, none (an error, no connection, or a  *)
(* body without a message of its number), or a redirect, which leads       *)
(* nowhere private and not for ever.                                       *)
Hop ==
    /\ errand = "post" /\ UNCHANGED <<accepted, rounds>>
    /\ LET seen == /\ visited' = visited \cup {posted}
                   /\ lent' = IF Carries(posted) THEN lent \cup {posted} ELSE lent
       IN \/ seen /\ Responded
          \/ seen /\ UNCHANGED <<reason, posted, hops>> /\ Declined
          \/ \E next \in Origins :
               /\ seen
               /\ IF next = "private" \/ hops = MaxRedirects
                  THEN UNCHANGED <<reason, posted, hops>> /\ Declined
                  ELSE /\ posted' = next /\ hops' = hops + 1
                       /\ UNCHANGED <<managed, reason, errand, nth>>

LocalDies(s) ==
    /\ errand \notin {"closed", "absent"} /\ processes[s] = "up"
    /\ processes' = [processes EXCEPT ![s] = "gone"]
    /\ UNCHANGED <<accepted, clients, fresh, specs, skips, dropped, errand, nth, posting,
                   rounds>>

CloseServers ==
    /\ errand = "idle" /\ errand' = "closed"
    /\ processes' = [s \in Servers |->
                         IF clients[s] = "client" /\ s \in LocalServers THEN "gone"
                         ELSE processes[s]]
    /\ UNCHANGED <<accepted, clients, fresh, specs, skips, dropped, nth, posting, rounds>>

ServersNext ==
    \/ LoadServers \/ BeginPass("tools") \/ BeginPass("context") \/ CallRemote \/ EndPass
    \/ PassOver \/ SpawnServer \/ Connect \/ ListLocal \/ AskRemote \/ Hop \/ CloseServers
    \/ \E s \in LocalServers : LocalDies(s)

ServersSpec == ServersInit /\ [][ServersNext]_serverVars

-----------------------------------------------------------------------------
(* The tools of a discovery have names of their own, whatever the servers  *)
(* call them and whatever the registry folds together, and lead to servers *)
(* that were started and never given up; what was given up stays dead.  A  *)
(* redirect leads a request nowhere private, and the configured headers    *)
(* nowhere else at all.  A closed manager leaves no process behind but     *)
(* those of clients it gave up.                                            *)
ServersInHand ==
    /\ \A i, j \in DOMAIN specs : i # j => specs[i].name # specs[j].name
    /\ \A i \in DOMAIN specs : /\ specs[i].server \notin skips
                               /\ Health(specs[i].server) # "unspawned"
    /\ \A s \in skips : Health(s) = "dead"
    /\ lent \subseteq {"own"} /\ "private" \notin visited
    /\ errand = "closed" => \A s \in LocalServers : processes[s] = "up" => s \in dropped

(* A discovery is in progress: on its way, or at a request it has made.    *)
Discovering ==
    \/ errand = "tools"
    \/ errand = "post" /\ (reason = "tools" \/ (reason \in {"init", "note"} /\ nth \in fresh))

(* A discovery has the tools of the servers behind it; only it has started *)
(* servers of its own; a server is skipped with its client; a handshake    *)
(* goes on where there is no client yet; a process has a client, or one    *)
(* that was given up.                                                      *)
ServersInv ==
    /\ ServersTypeOK /\ ServersInHand
    /\ Discovering => \A i \in DOMAIN specs : specs[i].server < nth
    /\ errand = "context" \/ (errand = "post" /\ reason # "call" /\ ~Discovering)
         => fresh = {}
    /\ \A i \in DOMAIN specs : clients[specs[i].server] # "none"
    /\ \A s \in skips : clients[s] = "dead"
    /\ errand = "post" =>
         /\ nth \in Servers \ LocalServers
         /\ reason \in {"init", "note"} => clients[nth] = "none"
         /\ reason = "tools" => clients[nth] = "client"
    /\ \A s \in LocalServers : processes[s] = "up" => clients[s] = "client" \/ s \in dropped
    /\ posted # "private"
=============================================================================
