------------------------------ MODULE RunnerIPC ------------------------------
(***************************************************************************)
(* The local endpoint of src/tellyq/runner_ipc.py, composed with the       *)
(* foreground owner it exposes (SessionRunner) and with a second           *)
(* foreground service of the same runtime directory.                       *)
(*                                                                         *)
(* Registry: handler threads answer requests under one registry lock.  A   *)
(* client may repeat any request, because its reply may be lost, so a      *)
(* request is not remembered: it may be sent at any time.                  *)
(*                                                                         *)
(* Endpoint: the system calls of start() and _cleanup_endpoint are         *)
(* separate steps on one shared path, one shared lease file and the        *)
(* sockets bound so far; the second service may die between any two.       *)
(***************************************************************************)
EXTENDS SessionRunner

CONSTANTS
    TicketCapacity,   \* ticket_capacity
    Inodes            \* bound: the inode numbers the file system reuses

Servers == {"ours", "theirs"}
NoInode == 0

ASSUME IPCAssumption == TicketCapacity \in Nat \ {0} /\ Inodes \subseteq Nat \ {NoInode}

VARIABLES
    registry,    \* _tickets: the regular tickets this endpoint accepted
    canonical,   \* _stop: the stop ticket this endpoint answers with
    aliases,     \* _stop_aliases: further identities of that stop
    at,          \* where each process is in the life of its endpoint
    identity,    \* _identity, or the socket just bound
    found,       \* the inode start() or cleanup saw at the path
    path,        \* the inode runner.sock names
    lease        \* who holds the lock on ipc.lock

tables   == <<registry, canonical, aliases>>
endpoint == <<at, identity, found, path, lease>>
ipcVars  == <<vars, tables, endpoint>>

Place == {"none", "checked", "leased", "probed", "verified", "clear", "bound", "listening",
           "draining", "looking", "matched", "cleaned", "closed"}

IPCInit ==
    /\ Init
    /\ registry = {} /\ canonical = NoTicket /\ aliases = {}
    /\ at = [p \in Servers |-> "none"]
    /\ identity = [p \in Servers |-> NoInode]
    /\ found = [p \in Servers |-> NoInode]
    /\ path \in {NoInode} \cup Inodes        \* a dead owner may have left its socket
    /\ lease = "free"

-----------------------------------------------------------------------------
(* handle_request, on behalf of our owner.                                 *)

Identities(tickets) == {Id[t] : t \in tickets}

\* _find: a retry is answered from the registry (or refused, if it describes other
\* work) and never reaches the runner again.
Finds(id) == id \in Identities(registry \cup ({canonical} \ {NoTicket})) \cup aliases

\* A handler thread runs while clients are connected.
Serving == at["ours"] \in {"listening", "draining"}

\* Mutant of Remembered: a full registry drops what has already been settled.
Evicts(t) ==
    /\ registry' = (IF Cardinality(registry) < TicketCapacity THEN registry
                    ELSE {u \in registry : state[u] \notin Settled}) \cup {t}
    /\ Cardinality(registry') <= TicketCapacity

\* A full registry refuses a new identity; it evicts none.
Remembered(t) ==
    /\ Cardinality(registry) < TicketCapacity
    /\ registry' = registry \cup {t}

\* A new regular identity; MailboxFull and RunnerUnavailable register nothing.
HandleRegular(t) ==
    /\ Serving
    /\ ~Finds(Id[t])
    /\ Submit(t)
    /\ Remembered(t)
    /\ UNCHANGED <<canonical, aliases, endpoint>>

\* The first stop: the runner reserves a new ticket for it ...
HandleStop(t) ==
    /\ Serving
    /\ ~Finds(Id[t])
    /\ canonical = NoTicket
    /\ Stop(t)
    /\ canonical' = t
    /\ UNCHANGED <<registry, aliases, endpoint>>

\* ... or returns the one its host submitted, unless that identity is a regular one here.
HandleHostedStop(t) ==
    /\ Serving
    /\ Action[t] = "stop"
    /\ ~Finds(Id[t])
    /\ canonical = NoTicket
    /\ stop # NoTicket
    /\ Id[stop] \notin Identities(registry)
    /\ canonical' = stop
    /\ aliases' = aliases \cup ({Id[t]} \ {Id[stop]})
    /\ UNCHANGED <<vars, registry, endpoint>>

\* A later stop is one more name of the canonical one, while there is room.
HandleStopAgain(t) ==
    /\ Serving
    /\ Action[t] = "stop"
    /\ ~Finds(Id[t])
    /\ canonical # NoTicket
    /\ Cardinality(aliases) < TicketCapacity
    /\ aliases' = aliases \cup {Id[t]}
    /\ UNCHANGED <<vars, registry, canonical, endpoint>>

\* A shutdown request of a client, or of the service itself.
HandleShutdown ==
    /\ Shutdown
    /\ UNCHANGED <<tables, endpoint>>

\* The host stops its runner without the endpoint.
HostStop(t) ==
    /\ Stop(t)
    /\ UNCHANGED <<tables, endpoint>>

HandleRequest ==
    \/ \E t \in Tickets :
          HandleRegular(t) \/ HandleStop(t) \/ HandleHostedStop(t) \/ HandleStopAgain(t)
          \/ HostStop(t)
    \/ HandleShutdown

-----------------------------------------------------------------------------
(* start(), close() and _cleanup_endpoint of either process.               *)

Step(p, from, to) == at[p] = from /\ at' = [at EXCEPT ![p] = to]

\* An active runner, and the cached claim of its snapshot.
Running(p) == IF p = "ours" THEN snap.phase = "running" /\ snap.owns ELSE lock = "other"
OwnsDevice(p) == IF p = "ours" THEN snap.owns ELSE lock = "other"

Listens(p) == at[p] = "listening"

\* Mutant of LeaseFree: the lease file is opened but not locked.
Unlocked(p) == TRUE

LeaseFree(p) == lease = "free"

\* start() requires an active runner, which may have failed by the time it goes on.
CheckRunner(p) ==
    /\ Running(p)
    /\ Step(p, "none", "checked")
    /\ UNCHANGED <<identity, found, path, lease>>

TakeLease(p) ==
    /\ LeaseFree(p)
    /\ Step(p, "checked", "leased")
    /\ lease' = p
    /\ UNCHANGED <<identity, found, path>>

\* LOCK_NB raises: cleanup has nothing of its own to remove.
LeaseDenied(p) ==
    /\ ~LeaseFree(p)
    /\ Step(p, "checked", "closed")
    /\ UNCHANGED <<identity, found, path, lease>>

PathAbsent(p) ==
    /\ Step(p, "leased", "clear")
    /\ path = NoInode
    /\ UNCHANGED <<identity, found, path, lease>>

\* connect() is refused by a socket nobody listens on; a live one is left intact.
Probe(p) ==
    /\ at[p] = "leased"
    /\ path # NoInode
    /\ found' = [found EXCEPT ![p] = path]
    /\ at' = [at EXCEPT ![p] =
                 IF \E q \in Servers : Listens(q) /\ identity[q] = path THEN "looking"
                 ELSE "probed"]
    /\ UNCHANGED <<identity, path, lease>>

\* The path still names the socket that refused, or start() gives up.
Verify(p) ==
    /\ at[p] = "probed"
    /\ at' = [at EXCEPT ![p] = IF path = found[p] THEN "verified" ELSE "looking"]
    /\ UNCHANGED <<identity, found, path, lease>>

UnlinkStale(p) ==
    /\ Step(p, "verified", "clear")
    /\ path' = NoInode
    /\ UNCHANGED <<identity, found, lease>>

\* bind() makes a socket of an inode number not in use ...
Bind(p) ==
    /\ Step(p, "clear", "bound")
    /\ path = NoInode
    /\ \E i \in Inodes :
          /\ \A q \in Servers : Listens(q) => identity[q] # i
          /\ path' = i
          /\ identity' = [identity EXCEPT ![p] = i]
    /\ UNCHANGED <<found, lease>>

\* ... or fails: another socket took the path, or the path is too long.
BindFails(p) ==
    /\ Step(p, "clear", "looking")
    /\ UNCHANGED <<identity, found, path, lease>>

Listen(p) ==
    /\ Step(p, "bound", "listening")
    /\ UNCHANGED <<identity, found, path, lease>>

\* chmod, listen or the accept thread fails.
ListenFails(p) ==
    /\ Step(p, "bound", "looking")
    /\ UNCHANGED <<identity, found, path, lease>>

\* close() refuses while the runner owns the device; the listener goes first.
Close(p) ==
    /\ Step(p, "listening", "draining")
    /\ ~OwnsDevice(p)
    /\ UNCHANGED <<identity, found, path, lease>>

\* Every transport thread has exited; until then close() raises and keeps the lease.
Drained(p) ==
    /\ Step(p, "draining", "looking")
    /\ UNCHANGED <<identity, found, path, lease>>

\* _cleanup_endpoint: the path is looked at, removed if it is ours, the lease given up.
Look(p) ==
    /\ at[p] = "looking"
    /\ at' = [at EXCEPT ![p] =
                 IF identity[p] # NoInode /\ path = identity[p] THEN "matched" ELSE "cleaned"]
    /\ UNCHANGED <<identity, found, path, lease>>

Unlink(p) ==
    /\ Step(p, "matched", "cleaned")
    /\ path' = NoInode
    /\ UNCHANGED <<identity, found, lease>>

DropLease(p) ==
    /\ Step(p, "cleaned", "closed")
    /\ identity' = [identity EXCEPT ![p] = NoInode]
    /\ found' = [found EXCEPT ![p] = NoInode]
    /\ lease' = IF lease = p THEN "free" ELSE lease
    /\ UNCHANGED path

Endpoint(p) ==
    \/ CheckRunner(p) \/ TakeLease(p) \/ LeaseDenied(p)
    \/ PathAbsent(p) \/ Probe(p) \/ Verify(p) \/ UnlinkStale(p)
    \/ Bind(p) \/ BindFails(p) \/ Listen(p) \/ ListenFails(p)
    \/ Close(p) \/ Drained(p) \/ Look(p) \/ Unlink(p) \/ DropLease(p)

-----------------------------------------------------------------------------
(* The second service: its runner takes and gives up the locks, and the    *)
(* process may die at any point, or be started again.                      *)

TheirRunner ==
    /\ at["theirs"] = "none" \/ lock = "other"
    /\ OtherProcess
    /\ UNCHANGED <<tables, endpoint>>

TheirDeath ==
    /\ at' = [at EXCEPT !["theirs"] = "none"]
    /\ identity' = [identity EXCEPT !["theirs"] = NoInode]
    /\ found' = [found EXCEPT !["theirs"] = NoInode]
    /\ lease' = IF lease = "theirs" THEN "free" ELSE lease
    /\ lock' = IF lock = "other" THEN "free" ELSE lock
    /\ UNCHANGED <<path, tables, queues, flags, snap, pc, failure, due, task>>

IPCNext ==
    \/ HandleRequest
    \/ (Start \/ StartFails \/ Owner \/ StepBecomesDue) /\ UNCHANGED <<tables, endpoint>>
    \/ \E p \in Servers : Endpoint(p) /\ UNCHANGED <<vars, tables>>
    \/ TheirRunner
    \/ TheirDeath

IPCSpec == IPCInit /\ [][IPCNext]_ipcVars

-----------------------------------------------------------------------------
(* Properties.                                                             *)

\* However often a client repeats a request whose reply it lost, and whatever became
\* of the first one, a command is accepted by the runner once: the runner forgets
\* settled tickets, so this rests on what the endpoint remembers when it is full.
CommandsAcceptedOnce ==
    \A t, u \in Tickets :
        t # u /\ Id[t] = Id[u] /\ Action[t] = Action[u] =>
            "unused" \in {state[t], state[u]}

\* A listening endpoint is reachable: while two services start, fail, clean up and die
\* around one path, none removes or replaces the socket another listens on.
EndpointReachable == \A p \in Servers : Listens(p) => path = identity[p]

=============================================================================
