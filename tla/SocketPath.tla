----------------------------- MODULE SocketPath -----------------------------
(***************************************************************************)
(* The name of the Local API's Unix socket (UnixHTTPServer in local_api.py *)
(* with _prepare_socket_path and _unlink_socket_if): how servers of one    *)
(* user take the name over from one that died, serve under it and take it  *)
(* away.  Only sockets come to the name; a node is its inode.              *)
(***************************************************************************)
EXTENDS Naturals

CONSTANTS
    Servers,    \* processes that start, serve and end any number of times
    Inodes,
    NoNode,
    Replacing,  \* does a rename replace what has the name, as on Linux?
    MaxDeaths

ASSUME SocketAssumption == NoNode \notin Inodes /\ Replacing \in BOOLEAN /\ MaxDeaths \in Nat

VARIABLES
    path,        \* the node that has the name
    quarantine,  \* the node each server has renamed
    orphans,   \* nodes under quarantine names nobody will look at again
    server,      \* what each server does, with its socket's node and the
                 \* identities it has seen: a stale node's and its own
    deaths,
    met          \* history: two servers were on their way at once

socketVars == <<path, quarantine, orphans, server, deaths, met>>

Down == [at |-> "down", node |-> NoNode, stale |-> NoNode, created |-> NoNode]

SocketInit ==
    /\ path = NoNode
    /\ quarantine = [s \in Servers |-> NoNode]
    /\ orphans = {}
    /\ server = [s \in Servers |-> Down]
    /\ deaths = 0
    /\ met = FALSE

\* A node stays while its name does, and while a socket is bound to it.
InUse == {path} \cup orphans \cup {quarantine[s] : s \in Servers} \cup {server[s].node : s \in Servers}

\* connect() is accepted from listen() to the end of the socket.
Listens(s) == server[s].node # NoNode /\ server[s].at # "bound"

Answered(node) == \E s \in Servers : server[s].node = node /\ Listens(s)

Becomes(s, next) ==
    /\ server' = [server EXCEPT ![s] = next]
    /\ met' = (met \/ /\ next.at \notin {"down", "serving"}
                      /\ \E o \in Servers \ {s} : server[o].at \notin {"down", "serving"})

Reaches(s, at) == Becomes(s, [server[s] EXCEPT !.at = at])

\* The process, or its attempt to start, ends and closes the socket.
Fails(s) == Becomes(s, Down)

(***************************************************************************)
(* Starting.                                                               *)
(***************************************************************************)
LookUp(s) ==
    /\ server[s].at = "down"
    /\ IF path = NoNode THEN Reaches(s, "binding")
       ELSE Becomes(s, [server[s] EXCEPT !.at = "probing", !.stale = path])
    /\ UNCHANGED <<path, quarantine, orphans, deaths>>

\* Mutant: whoever has the name, it is taken.
ProbeInVain(s) ==
    /\ server[s].at = "probing"
    /\ Reaches(s, "checking")
    /\ UNCHANGED <<path, quarantine, orphans, deaths>>

Probe(s) ==
    /\ server[s].at = "probing"
    /\ IF path # NoNode /\ Answered(path) THEN Fails(s) ELSE Reaches(s, "checking")
    /\ UNCHANGED <<path, quarantine, orphans, deaths>>

Check(s) ==
    /\ server[s].at = "checking"
    /\ IF path = server[s].stale THEN Reaches(s, "replacing") ELSE Fails(s)
    /\ UNCHANGED <<path, quarantine, orphans, deaths>>

Bind(s) ==
    /\ server[s].at = "binding"
    /\ \/ path # NoNode /\ Fails(s) /\ UNCHANGED path
       \/ /\ path = NoNode
          /\ \E node \in Inodes \ InUse :
                path' = node /\ Becomes(s, [server[s] EXCEPT !.at = "bound", !.node = node])
    /\ UNCHANGED <<quarantine, orphans, deaths>>

Listen(s) ==
    /\ server[s].at = "bound"
    /\ Reaches(s, "listening")
    /\ UNCHANGED <<path, quarantine, orphans, deaths>>

\* The identity that the end of the server will look for.
Identify(s) ==
    /\ server[s].at = "listening"
    /\ IF path = NoNode THEN Fails(s)
       ELSE Becomes(s, [server[s] EXCEPT !.at = "identified", !.created = path])
    /\ UNCHANGED <<path, quarantine, orphans, deaths>>

\* chmod fails if there is nothing; the name is cleared before that is raised.
Protect(s) ==
    /\ server[s].at = "identified"
    /\ Reaches(s, IF path = NoNode THEN "ending" ELSE "serving")
    /\ UNCHANGED <<path, quarantine, orphans, deaths>>

(***************************************************************************)
(* Ending, and the removal of a node that both have in common.             *)
(***************************************************************************)
Close(s) ==
    /\ server[s].at = "serving"
    /\ Becomes(s, [server[s] EXCEPT !.at = "ending", !.node = NoNode])
    /\ UNCHANGED <<path, quarantine, orphans, deaths>>

Cleared(s) == IF server[s].at \in {"replacing", "replaced"} THEN Reaches(s, "binding") ELSE Fails(s)

Quarantine(s) ==
    /\ server[s].at \in {"replacing", "ending"}
    /\ IF path = NoNode THEN Cleared(s) /\ UNCHANGED <<path, quarantine>>
       ELSE /\ path' = NoNode
            /\ quarantine' = [quarantine EXCEPT ![s] = path]
            /\ Reaches(s, IF server[s].at = "replacing" THEN "replaced" ELSE "ended")
    /\ UNCHANGED <<orphans, deaths>>

Expected(s) == IF server[s].at = "replaced" THEN server[s].stale ELSE server[s].created

Unlink(s) ==
    /\ server[s].at \in {"replaced", "ended"}
    /\ quarantine[s] = Expected(s)
    /\ quarantine' = [quarantine EXCEPT ![s] = NoNode]
    /\ Cleared(s)
    /\ UNCHANGED <<path, orphans, deaths>>

\* Another node than expected gets the name back, if it is still free.
Restore(s) ==
    /\ server[s].at \in {"replaced", "ended"}
    /\ quarantine[s] # Expected(s)
    /\ quarantine' = [quarantine EXCEPT ![s] = NoNode]
    /\ IF path = NoNode \/ Replacing THEN path' = quarantine[s] /\ UNCHANGED orphans
       ELSE orphans' = orphans \cup {quarantine[s]} /\ UNCHANGED path
    /\ Fails(s)
    /\ UNCHANGED deaths

Die(s) ==
    /\ deaths < MaxDeaths
    /\ deaths' = deaths + 1
    /\ server[s].at # "down"
    /\ Fails(s)
    /\ orphans' = (orphans \cup {quarantine[s]}) \ {NoNode}
    /\ quarantine' = [quarantine EXCEPT ![s] = NoNode]
    /\ UNCHANGED path

SocketNext ==
    \E s \in Servers :
        \/ LookUp(s) \/ Probe(s) \/ Check(s) \/ Bind(s) \/ Listen(s) \/ Identify(s) \/ Protect(s)
        \/ Close(s) \/ Quarantine(s) \/ Unlink(s) \/ Restore(s)
        \/ Die(s)

SocketSpec == SocketInit /\ [][SocketNext]_socketVars

(***************************************************************************)
(* Properties.                                                             *)
(***************************************************************************)

\* The name and its quarantines hold nodes, and a server is somewhere in its
\* code.
SocketTypeOK ==
    /\ path \in Inodes \cup {NoNode}
    /\ quarantine \in [Servers -> Inodes \cup {NoNode}]
    /\ orphans \subseteq Inodes
    /\ \A s \in Servers :
          /\ server[s].at \in {"down", "probing", "checking", "replacing", "replaced", "binding", "bound",
                               "listening", "identified", "serving", "ending", "ended"}
          /\ server[s].node \in Inodes \cup {NoNode}
    /\ deaths \in 0..MaxDeaths
    /\ met \in BOOLEAN

\* As long as servers start and end one after the other, whichever crash and
\* whatever they leave behind, one that serves has the name and will take its
\* own node away and no other.
ServesUnderTheName ==
    ~met => \A s \in Servers : server[s].at = "serving" => path = server[s].node /\ server[s].created = path

\* A live socket is never replaced: the node of a server that has begun to
\* listen keeps a name, under which it can be reached or restored.
LiveSocketsStay ==
    \A s \in Servers : Listens(s) =>
        server[s].node \in {path} \cup orphans \cup {quarantine[o] : o \in Servers}
=============================================================================
