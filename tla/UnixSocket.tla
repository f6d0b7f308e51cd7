----------------------------- MODULE UnixSocket -----------------------------
(***************************************************************************)
(* The socket file of the Unix carrier: Listen, removeStaleSocket and      *)
(* Close of infrastructure/peer/unix/carrier.go, run by several processes  *)
(* on one path, with crashes.                                              *)
(*                                                                         *)
(* Every system call is a step.  The file at the path is its inode number: *)
(* os.SameFile compares nothing else.  A number is free again once the     *)
(* file is gone from the path and the socket bound to it is closed.  The   *)
(* path holds a socket or nothing; a file of another kind, or a parent     *)
(* directory that others may write, only makes Listen return an error.     *)
(***************************************************************************)
EXTENDS Integers, FiniteSets

CONSTANTS
    Processes,     \* processes that listen on the path
    Inodes,        \* inode numbers
    Hosts          \* what the processes and their supervisor may do

None == "none"

\* A host: whether a supervisor starts one listener at a time, whether listeners
\* close, and whether processes crash.
ASSUME UnixAssumption ==
    /\ None \notin Inodes
    /\ Hosts \subseteq [exclusive: BOOLEAN, closes: BOOLEAN, crashes: BOOLEAN]

VARIABLES
    host,       \* what they may do, which never changes
    path,       \* the inode at the path
    socket,     \* the inode that the socket of each process is bound to
    listening,  \* the processes whose socket listens
    before,     \* removeStaleSocket's first look at the path
    call        \* each process: its next system call

unixVars == <<host, path, socket, listening, before, call>>

\* A connect to the path succeeds.
Reachable == \E p \in listening : socket[p] = path
Free == Inodes \ ({path} \cup {socket[p] : p \in Processes})
Starting(p) == call[p] \in {"lstat", "probe", "lstat2", "remove", "bind", "listen", "chmod"}

Proceed(p, where) == call' = [call EXCEPT ![p] = where]

\* A run of the system may have left a socket behind.
UnixInit ==
    /\ host \in Hosts
    /\ path \in Inodes \cup {None}
    /\ socket = [p \in Processes |-> None] /\ listening = {}
    /\ before = [p \in Processes |-> None]
    /\ call = [p \in Processes |-> "down"]

-----------------------------------------------------------------------------
(* removeStaleSocket.                                                        *)

\* Listen is called, for the first time or again.
Begin(p) ==
    /\ call[p] \in {"down", "failed"}
    /\ host.exclusive => \A q \in Processes : ~Starting(q)
    /\ Proceed(p, "lstat")
    /\ UNCHANGED <<host, path, socket, listening, before>>

Lstat(p) ==
    /\ call[p] = "lstat"
    /\ before' = [before EXCEPT ![p] = path]
    /\ Proceed(p, IF path = None THEN "bind" ELSE "probe")
    /\ UNCHANGED <<host, path, socket, listening>>

\* Faulty variant: any socket that is there is taken for a stale one.
ProbeNothing(p) ==
    /\ call[p] = "probe"
    /\ Proceed(p, "lstat2")
    /\ UNCHANGED <<host, path, socket, listening, before>>
\* Only a refused connection goes on: an accepted one, or a path that is gone, is
\* an error.
Probe(p) ==
    /\ call[p] = "probe"
    /\ Proceed(p, IF path = None \/ Reachable THEN "failed" ELSE "lstat2")
    /\ UNCHANGED <<host, path, socket, listening, before>>

Lstat2(p) ==
    /\ call[p] = "lstat2"
    /\ Proceed(p, IF path = before[p] THEN "remove" ELSE "failed")
    /\ UNCHANGED <<host, path, socket, listening, before>>

\* Faulty variant: the stale file stays, and bind fails on it.
RemoveSkipped(p) ==
    /\ call[p] = "remove"
    /\ Proceed(p, "bind")
    /\ UNCHANGED <<host, path, socket, listening, before>>
\* The file is removed by its name.
Remove(p) ==
    /\ call[p] = "remove"
    /\ path' = None
    /\ Proceed(p, IF path = None THEN "failed" ELSE "bind")
    /\ UNCHANGED <<host, socket, listening, before>>

-----------------------------------------------------------------------------
(* net.ListenUnix and the rest of Listen.                                    *)

\* Between the two calls of ListenUnix a connect is refused.
Bind(p) ==
    /\ call[p] = "bind"
    /\ \/ /\ path = None
          /\ \E i \in Free : path' = i /\ socket' = [socket EXCEPT ![p] = i]
          /\ Proceed(p, "listen")
       \/ /\ path # None
          /\ Proceed(p, "failed")
          /\ UNCHANGED <<path, socket>>
    /\ UNCHANGED <<host, listening, before>>
ListenSocket(p) ==
    /\ call[p] = "listen"
    /\ listening' = listening \cup {p}
    /\ Proceed(p, "chmod")
    /\ UNCHANGED <<host, path, socket, before>>

\* The mode of whatever is at the path; without a file the socket is closed again.
Chmod(p) ==
    /\ call[p] = "chmod"
    /\ Proceed(p, IF path = None THEN "unlink" ELSE "serving")
    /\ UNCHANGED <<host, path, socket, listening, before>>

-----------------------------------------------------------------------------
(* Close, and the end of a process.                                          *)

CloseListener(p) ==
    /\ host.closes /\ call[p] = "serving"
    /\ Proceed(p, "unlink")
    /\ UNCHANGED <<host, path, socket, listening, before>>

\* SetUnlinkOnClose: the name is removed, whoever's file it is, and then the
\* socket is closed.
Unlink(p) ==
    /\ call[p] = "unlink"
    /\ path' = None
    /\ Proceed(p, "close")
    /\ UNCHANGED <<host, socket, listening, before>>
CloseDescriptor(p) ==
    /\ call[p] = "close"
    /\ socket' = [socket EXCEPT ![p] = None] /\ listening' = listening \ {p}
    /\ Proceed(p, "down")
    /\ UNCHANGED <<host, path, before>>

\* The socket is closed and its file stays.
Crash(p) ==
    /\ host.crashes /\ call[p] # "down"
    /\ socket' = [socket EXCEPT ![p] = None] /\ listening' = listening \ {p}
    /\ Proceed(p, "down")
    /\ UNCHANGED <<host, path, before>>

-----------------------------------------------------------------------------
Call(p) ==
    \/ Lstat(p) \/ Probe(p) \/ Lstat2(p) \/ Remove(p) \/ Bind(p) \/ ListenSocket(p) \/ Chmod(p)
    \/ Unlink(p) \/ CloseDescriptor(p)
UnixNext == \E p \in Processes : Begin(p) \/ Call(p) \/ CloseListener(p) \/ Crash(p)
UnixSpec == UnixInit /\ [][UnixNext]_unixVars

-----------------------------------------------------------------------------
\* Type correctness.
UnixTypeOK ==
    /\ host \in Hosts
    /\ path \in Inodes \cup {None}
    /\ socket \in [Processes -> Inodes \cup {None}] /\ before \in [Processes -> Inodes \cup {None}]
    /\ listening \subseteq Processes
    /\ call \in [Processes -> {"down", "failed", "lstat", "probe", "lstat2", "remove", "bind", "listen", "chmod",
                               "serving", "unlink", "close"}]

\* With one listener starting at a time, a listener that serves is the one that
\* clients reach: nobody removes its socket, whoever starts, closes or crashes
\* meanwhile (Listen's comment on stale sockets).
ServingIsReachable ==
    host.exclusive => \A p \in Processes : call[p] = "serving" => p \in listening /\ socket[p] = path

\* Listen returns an error, after its last call by way of Close.
Fails(p) == (call[p] # "failed" /\ call'[p] = "failed") \/ (call[p] = "chmod" /\ call'[p] = "unlink")

\* A socket that a crash left behind stops nobody: with one listener starting at a
\* time and none closing, Listen fails only where another one serves.
FailsForAReason ==
    [][host.exclusive /\ ~host.closes =>
        \A p \in Processes : Fails(p) => \E q \in Processes \ {p} : call[q] = "serving"]_unixVars
=============================================================================
