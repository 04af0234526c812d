---------------------------- MODULE SocketClaim ----------------------------
(***************************************************************************)
(* How bridged instances given the same --socket path claim it: main.rs    *)
(* from the HTTP bind on, and uds::bind.  The file at the path is either   *)
(* the socket of a live daemon or what an exit left behind (nothing ever   *)
(* removes it on the way out); connecting tells the two apart, and each of *)
(* connect, unlink, bind and listen is a system call of its own.           *)
(***************************************************************************)
CONSTANTS
    Daemons,         \* instances, restarted ones included
    Ports,           \* the addresses they may serve HTTP on
    Absent, Stale    \* no file at the path; a file no process has bound

ASSUME SocketAssumption ==
    Absent \notin Daemons /\ Stale \notin Daemons /\ Absent # Stale

VARIABLES
    st,     \* st[d]: how far d's process is
    path,   \* what the file at the socket path is: a daemon's socket, Stale or Absent
    env     \* how and where the daemons were started; never changes

claimVars == <<st, path, env>>

\* Settings: port[d] is the --listen address of d; may connecting to a live
\* socket fail (EACCES, EMFILE, ...), and may the removal of a file?
Environments == [port : [Daemons -> Ports], probeErrs : BOOLEAN, removeErrs : BOOLEAN]

Starting   == {"probing", "unlinking", "binding", "bound"}
HoldsPort  == Starting \union {"serving", "deaf"}
Listening  == {"serving", "draining"}
Running    == HoldsPort \union {"draining"}
NotRunning == {"down", "refused"}

\* Slip: the port is bound after the socket.
PortTakenOnceServing(d) ==
    \E e \in Daemons \ {d} : st[e] = "serving" /\ env.port[e] = env.port[d]

PortTaken(d) == \E e \in Daemons \ {d} : st[e] \in HoldsPort /\ env.port[e] = env.port[d]

ClaimInit ==
    /\ st = [d \in Daemons |-> "down"]
    /\ path \in {Absent, Stale}
    /\ env \in Environments

Becomes(d, state) == st' = [st EXCEPT ![d] = state]

\* Models are loaded; TcpListener::bind takes the HTTP address or fails.
BindHttp(d) ==
    /\ st[d] \in NotRunning
    /\ ~PortTaken(d)
    /\ Becomes(d, "probing")
    /\ UNCHANGED path

DieAtPort(d) ==
    /\ st[d] = "down"
    /\ PortTaken(d)
    /\ Becomes(d, "refused")
    /\ UNCHANGED path

-----------------------------------------------------------------------------
\* uds::bind

\* Slip: any file means a live daemon.
AnyFileAccepts == path # Absent

Accepts == path \in Daemons /\ st[path] \in Listening

\* connect: Ok, a running daemon already serves this socket.
ProbeFindsDaemon(d) ==
    /\ st[d] = "probing"
    /\ Accepts
    /\ Becomes(d, "refused")
    /\ UNCHANGED path

\* connect: NotFound.
ProbeFindsNothing(d) ==
    /\ st[d] = "probing"
    /\ path = Absent
    /\ Becomes(d, "binding")
    /\ UNCHANGED path

\* Slips: the file is removed without asking; the stale file is not removed.
UnlinkBlindly(d) ==
    /\ st[d] = "probing"
    /\ path # Absent
    /\ Becomes(d, "unlinking")
    /\ UNCHANGED path

KeepStale(d) ==
    /\ st[d] = "probing"
    /\ path # Absent
    /\ Accepts => env.probeErrs
    /\ Becomes(d, "binding")
    /\ UNCHANGED path

\* connect: any other error is taken for a stale file.
ProbeFails(d) ==
    /\ st[d] = "probing"
    /\ path # Absent
    /\ Accepts => env.probeErrs
    /\ Becomes(d, "unlinking")
    /\ UNCHANGED path

\* remove_file, of whatever is at the path now; its error is ignored.
Unlink(d) ==
    /\ st[d] = "unlinking"
    /\ path' = Absent \/ (env.removeErrs /\ path' = path)
    /\ Becomes(d, "binding")

\* UnixListener::bind is bind, then listen.
BindSocket(d) ==
    /\ st[d] = "binding"
    /\ path = Absent
    /\ path' = d
    /\ Becomes(d, "bound")

BindCollides(d) ==
    /\ st[d] = "binding"
    /\ path # Absent
    /\ Becomes(d, "refused")
    /\ UNCHANGED path

Listen(d) ==
    /\ st[d] = "bound"
    /\ Becomes(d, "serving")
    /\ UNCHANGED path

-----------------------------------------------------------------------------
Abandon(d) == path' = IF path = d THEN Stale ELSE path

\* Slip: the listener outlives the loop that accepts from it.
KeepListening(d) ==
    /\ st[d] = "serving"
    /\ Becomes(d, "deaf")
    /\ UNCHANGED path

\* uds::serve returns on the first accept error and drops the listener; HTTP
\* goes on, health included.
AcceptFails(d) ==
    /\ st[d] = "serving"
    /\ Becomes(d, "deaf")
    /\ Abandon(d)

\* Ctrl-C: axum drops the HTTP listener and waits for open connections; the
\* socket is served until the process ends.  A deaf daemon that drains has
\* neither port nor socket left and matters to nobody: its end stands for both.
Shutdown(d) ==
    /\ st[d] = "serving"
    /\ Becomes(d, "draining")
    /\ UNCHANGED path

\* The process ends, at any point and in any way; its socket file stays.
ProcessEnds(d) ==
    /\ st[d] \in Running
    /\ Becomes(d, "down")
    /\ Abandon(d)

Startup(d) ==
    \/ ProbeFindsDaemon(d) \/ ProbeFindsNothing(d) \/ ProbeFails(d)
    \/ Unlink(d) \/ BindSocket(d) \/ BindCollides(d) \/ Listen(d)

ClaimNext ==
    /\ \E d \in Daemons :
          BindHttp(d) \/ DieAtPort(d) \/ Startup(d) \/ AcceptFails(d) \/ Shutdown(d) \/ ProcessEnds(d)
    /\ UNCHANGED env

\* A process that has started runs on, and a draining one ends.
ClaimFairness ==
    \A d \in Daemons :
        /\ WF_claimVars(Startup(d) /\ UNCHANGED env)
        /\ WF_claimVars(st[d] = "draining" /\ ProcessEnds(d) /\ UNCHANGED env)

ClaimSafeSpec == ClaimInit /\ [][ClaimNext]_claimVars
ClaimSpec     == ClaimSafeSpec /\ ClaimFairness

-----------------------------------------------------------------------------
\* The file at the path is a process's socket only while that process accepts
\* from it or is about to: whoever stops, by whatever exit, leaves a stale file
\* and never one that takes connections nobody will serve.
ClaimTypeOK ==
    /\ st \in [Daemons -> Running \union NotRunning]
    /\ path \in Daemons \union {Absent, Stale}
    /\ path \in Daemons => st[path] \in Listening \union {"bound"}
    /\ env \in Environments

\* "The HTTP port doubles as the single-instance lock" (main.rs:112): it can
\* only between instances started with the same --listen.
OnePort == \A d, e \in Daemons : env.port[d] = env.port[e]

\* A daemon that serves is reachable at the path while every instance shares
\* its HTTP port, even when probing or removing the file fails.
ServingIsReachable ==
    OnePort => \A d \in Daemons : st[d] = "serving" => path = d

\* So is one that is shutting down, whose port is already free again, if
\* connecting to a live socket succeeds.
DrainingIsReachable ==
    OnePort /\ ~env.probeErrs => \A d \in Daemons : st[d] = "draining" => path = d

\* A startup is turned away only for the sake of a daemon that holds the HTTP
\* port or serves the socket, never by a leftover file or by its own cleanup.
RefusedOnlyForLiveDaemon ==
    [][OnePort /\ ~env.removeErrs =>
          \A d \in Daemons :
             st[d] # "refused" /\ st'[d] = "refused"
             => \E e \in Daemons \ {d} : st[e] \in Running]_claimVars

\* A lone daemon comes up whatever file was left, on any port: with nobody
\* else running, a started process gets to serve, unless it exits or another
\* one starts.
StaleFileNeverBlocks ==
    \A d \in Daemons :
        /\ ~env.removeErrs
        /\ st[d] = "probing"
        /\ \A e \in Daemons \ {d} : st[e] \in NotRunning
        ~> \/ st[d] \in {"serving", "down"}
           \/ \E e \in Daemons \ {d} : st[e] \in Running

\* "A second daemon must therefore die without touching the path, and only a
\* genuinely stale file may be replaced" (socket_claim.rs:5-6), whatever the
\* ports: a daemon that serves is reachable at the path.
NeverEvicted ==
    ~env.probeErrs /\ ~env.removeErrs =>
        \A d \in Daemons : st[d] = "serving" => path = d
=============================================================================
