--------------------------- MODULE SocketElection ---------------------------
(***************************************************************************)
(* Lazy start (src/daemon/runtime.rs): clients that find no daemon behind  *)
(* the socket spawn one, the daemons elect an owner by binding the socket, *)
(* and remove one that was left behind.  Every system call on the socket's *)
(* path is a step of its own: another process may come in between.         *)
(*                                                                         *)
(* A client spawns at most one daemon, so both have the client's name.  A  *)
(* socket file is named after the daemon that bound it: while its listener *)
(* is open its inode is not used again.                                    *)
(***************************************************************************)
EXTENDS Naturals

CONSTANTS
  Clients,  \* processes that submit one request each
  Nobody    \* no file at the path

ASSUME NobodyIsNoClient == Nobody \notin Clients

VARIABLES
  path,        \* the socket file at the path
  private,     \* socket files of mode 0600
  listening,   \* daemons whose socket accepts connections
  proc,        \* where each daemon is
  inode,       \* the file whose metadata each daemon read last
  client,      \* where each client is, and the daemon it is connected to
  ran,         \* history: how often each client's request was run
  overlapped,  \* history: two daemons were starting at the same time
  disturbed    \* history: a daemon crashed or was stopped

vars == <<path, private, listening, proc, inode, client, ran, overlapped,
          disturbed>>
files == <<path, private, listening>>
flags == <<overlapped, disturbed>>

Init ==
  /\ path = Nobody /\ private = {} /\ listening = {}
  /\ proc = [d \in Clients |-> "none"]
  /\ inode = [d \in Clients |-> Nobody]
  /\ client = [c \in Clients |-> [pc |-> "start", server |-> Nobody]]
  /\ ran = [c \in Clients |-> 0]
  /\ overlapped = FALSE /\ disturbed = FALSE

-----------------------------------------------------------------------------
\* A process that has not bound its socket yet, or not checked it.
Starting ==
  {d \in Clients : proc[d] \in {"bind", "probe", "validate", "confirm", "stat",
     "compare", "unlink", "rebind", "listen", "chmod", "identify"}}

\* A process that has bound its socket and not given it up.
Holders ==
  {d \in Clients : proc[d] \in {"listen", "chmod", "identify", "serving",
     "draining", "check", "remove"}}

\* A process that acts as the daemon: it serves, or cleans up.
Owners == {d \in Clients : proc[d] \in {"serving", "draining"}}

Reachable == path # Nobody /\ path \in listening

Goes(d, pc) == proc' = [proc EXCEPT ![d] = pc]

\* An error ends the process; what it bound stays at the path.
Exits(d) == Goes(d, "dead") /\ listening' = listening \ {d}

-----------------------------------------------------------------------------
(* A daemon binds the socket.                                              *)

\* bind(2), in `pc`; when the address is in use the daemon goes on in `used`.
BindAt(d, pc, used) ==
  /\ proc[d] = pc
  /\ IF path = Nobody
     THEN path' = d /\ Goes(d, "listen")
     ELSE path' = path /\ Goes(d, used)
  /\ UNCHANGED <<private, listening, inode, client, ran, flags>>

Bind(d) == BindAt(d, "bind", "probe")

\* AlreadyRunning.
Rebind(d) == BindAt(d, "rebind", "dead")

Listen(d) ==
  /\ proc[d] = "listen"
  /\ listening' = listening \cup {d}
  /\ Goes(d, "chmod")
  /\ UNCHANGED <<path, private, inode, client, ran, flags>>

\* set_permissions and symlink_metadata go by the path.
Chmod(d) ==
  /\ proc[d] = "chmod"
  /\ IF path = Nobody THEN Exits(d) /\ UNCHANGED private
     ELSE /\ private' = private \cup {path}
          /\ Goes(d, "identify")
          /\ UNCHANGED listening
  /\ UNCHANGED <<path, inode, client, ran, flags>>

Identify(d) ==
  /\ proc[d] = "identify"
  /\ IF path = Nobody THEN Exits(d) /\ UNCHANGED inode
     ELSE /\ inode' = [inode EXCEPT ![d] = path]
          /\ Goes(d, "serving")
          /\ UNCHANGED listening
  /\ UNCHANGED <<path, private, client, ran, flags>>

-----------------------------------------------------------------------------
(* A daemon finds the address in use: recover_stale_socket.                *)

\* Fault: the loser drops the socket of the winner.
ConnectAndDrop(d, pc, next) ==
  /\ proc[d] = pc
  /\ IF Reachable THEN Exits(d) /\ path' = Nobody
     ELSE Goes(d, next) /\ UNCHANGED <<path, listening>>
  /\ UNCHANGED <<private, inode, client, ran, flags>>

\* A connect that succeeds ends the process, in `pc`; else it goes on in `next`.
ConnectAt(d, pc, next) ==
  /\ proc[d] = pc
  /\ IF Reachable THEN Exits(d) ELSE Goes(d, next) /\ UNCHANGED listening
  /\ UNCHANGED <<path, private, inode, client, ran, flags>>

Probe(d) == ConnectAt(d, "probe", "validate")

\* Fault: the last connect is before the checks.
ConfirmNothing(d) ==
  /\ proc[d] = "confirm"
  /\ Goes(d, "stat")
  /\ UNCHANGED <<files, inode, client, ran, flags>>

Confirm(d) == ConnectAt(d, "confirm", "stat")

\* validate_runtime_socket: no file, or a socket of this user with mode 0600.
\* (The umask is taken not to give a new socket just that mode.)
Validate(d) ==
  /\ proc[d] = "validate"
  /\ IF path = Nobody \/ path \in private
     THEN Goes(d, "confirm") /\ UNCHANGED listening
     ELSE Exits(d)
  /\ UNCHANGED <<path, private, inode, client, ran, flags>>

Stat(d) ==
  /\ proc[d] = "stat"
  /\ IF path = Nobody THEN Exits(d) /\ UNCHANGED inode
     ELSE /\ inode' = [inode EXCEPT ![d] = path]
          /\ Goes(d, "compare")
          /\ UNCHANGED listening
  /\ UNCHANGED <<path, private, client, ran, flags>>

Compare(d) ==
  /\ proc[d] = "compare"
  /\ IF path = inode[d]
     THEN Goes(d, "unlink") /\ UNCHANGED listening
     ELSE Exits(d)
  /\ UNCHANGED <<path, private, inode, client, ran, flags>>

\* remove_file takes whatever is at the path by now.
Unlink(d) ==
  /\ proc[d] = "unlink"
  /\ IF path = Nobody THEN Exits(d) /\ UNCHANGED path
     ELSE path' = Nobody /\ Goes(d, "rebind") /\ UNCHANGED listening
  /\ UNCHANGED <<private, inode, client, ran, flags>>

-----------------------------------------------------------------------------
(* A daemon ends.                                                          *)

\* SIGKILL, or a crash of the machine's session.
Crash(d) ==
  /\ proc[d] \notin {"none", "dead"}
  /\ Exits(d)
  /\ disturbed' = TRUE
  /\ UNCHANGED <<path, private, inode, client, ran, overlapped>>

\* A signal, or the end of the tmux server.
Stop(d) ==
  /\ proc[d] = "serving"
  /\ Goes(d, "draining")
  /\ disturbed' = TRUE
  /\ UNCHANGED <<files, inode, client, ran, overlapped>>

\* Fault: the listener is closed before the file is removed.
CloseFirst(d) ==
  /\ proc[d] = "draining"
  /\ Goes(d, "check")
  /\ listening' = listening \ {d}
  /\ UNCHANGED <<path, private, inode, client, ran, flags>>

Cleaned(d) ==
  /\ proc[d] = "draining"
  /\ Goes(d, "check")
  /\ UNCHANGED <<files, inode, client, ran, flags>>

\* OwnedSocket::drop: the file is looked at, then removed, then the listener
\* is closed.
Check(d) ==
  /\ proc[d] = "check"
  /\ Goes(d, IF path = inode[d] THEN "remove" ELSE "close")
  /\ UNCHANGED <<files, inode, client, ran, flags>>

RemoveSocket(d) ==
  /\ proc[d] = "remove"
  /\ path' = Nobody
  /\ Goes(d, "close")
  /\ UNCHANGED <<private, listening, inode, client, ran, flags>>

Close(d) ==
  /\ proc[d] = "close"
  /\ Exits(d)
  /\ UNCHANGED <<path, private, inode, client, ran, flags>>

-----------------------------------------------------------------------------
(* A client.                                                               *)

Connected(c) == client' = [client EXCEPT ![c] = [pc |-> "sent", server |-> path]]
Becomes(c, pc) == client' = [client EXCEPT ![c].pc = pc]

\* The first attempt of submit_lazy, and the later ones of retry_daemon_start:
\* absent or refused is tried again.
Connect(c) ==
  /\ \/ client[c].pc = "start" /\ ~Reachable /\ Becomes(c, "spawn")
     \/ client[c].pc \in {"start", "retry"} /\ Reachable /\ Connected(c)
  /\ UNCHANGED <<files, proc, inode, ran, flags>>

Spawn(c) ==
  /\ client[c].pc = "spawn"
  /\ Becomes(c, "retry")
  /\ Goes(c, "bind")
  /\ overlapped' = (overlapped \/ Starting # {})
  /\ UNCHANGED <<files, inode, ran, disturbed>>

\* The daemon accepts and runs the request.
Serve(c) ==
  /\ client[c].pc = "sent"
  /\ proc[client[c].server] = "serving"
  /\ ran' = [ran EXCEPT ![c] = @ + 1]
  /\ Becomes(c, "run")
  /\ UNCHANGED <<files, proc, inode, flags>>

Answer(c) ==
  /\ client[c].pc = "run"
  /\ client[c].server \in Owners
  /\ Becomes(c, "answered")
  /\ UNCHANGED <<files, proc, inode, ran, flags>>

\* Fault: every error is tried again.
FailedIsTriedAgain == "retry"

\* Only a connect that found nobody is tried again.
AfterFailure == "failed"

\* The connection is closed without a response, or nothing comes in time.
Fail(c) ==
  /\ client[c].pc \in {"sent", "run"}
  /\ Becomes(c, AfterFailure)
  /\ UNCHANGED <<files, proc, inode, ran, flags>>

\* StartupTimedOut.
GiveUp(c) ==
  /\ client[c].pc = "retry"
  /\ ~Reachable
  /\ Becomes(c, "gaveUp")
  /\ UNCHANGED <<files, proc, inode, ran, flags>>

\* Every client has its answer or error, and no daemon is left.
Over ==
  /\ \A c \in Clients : client[c].pc \in {"answered", "failed", "gaveUp"}
  /\ \A d \in Clients : proc[d] \in {"none", "dead"}
  /\ UNCHANGED vars

-----------------------------------------------------------------------------
Starts(d) ==
  \/ Bind(d) \/ Listen(d) \/ Chmod(d) \/ Identify(d)
  \/ Probe(d) \/ Validate(d) \/ Confirm(d) \/ Stat(d) \/ Compare(d)
  \/ Unlink(d) \/ Rebind(d)

Ends(d) == Stop(d) \/ Cleaned(d) \/ Check(d) \/ RemoveSocket(d) \/ Close(d) \/ Crash(d)

Asks(c) == Connect(c) \/ Spawn(c) \/ Serve(c) \/ Answer(c)

Next ==
  \/ \E d \in Clients : Starts(d) \/ Ends(d)
  \/ \E c \in Clients : Asks(c) \/ Fail(c) \/ GiveUp(c)
  \/ Over

Spec == Init /\ [][Next]_vars

\* Processes are scheduled and connections accepted; nothing makes a daemon
\* stop or crash, or a client run out of time.
Fairness == \A c \in Clients : WF_vars(Starts(c)) /\ WF_vars(Asks(c))

FairSpec == Spec /\ Fairness

-----------------------------------------------------------------------------
(* Properties.                                                             *)

\* Files, processes and clients are in one of the states the code gives them.
TypeOK ==
  /\ path \in Clients \cup {Nobody}
  /\ private \subseteq Clients /\ listening \subseteq Clients
  /\ proc \in [Clients -> {"none", "bind", "probe", "validate", "confirm",
       "stat", "compare", "unlink", "rebind", "listen", "chmod", "identify",
       "serving", "draining", "check", "remove", "close", "dead"}]
  /\ inode \in [Clients -> Clients \cup {Nobody}]
  /\ client \in [Clients ->
       [pc : {"start", "spawn", "retry", "sent", "run", "answered", "failed",
              "gaveUp"},
        server : Clients \cup {Nobody}]]
  /\ \A c \in Clients :
       client[c].pc \in {"sent", "run"} => client[c].server \in Clients
  /\ ran \in [Clients -> Nat]
  /\ {overlapped, disturbed} \subseteq BOOLEAN

\* Two daemons own the socket only after two processes were starting at the
\* same time and another had been stopped or killed: the first start elects
\* one owner in whatever order its starters run, and so does one starter that
\* finds what a crash or a shutdown left.
TwoOwnersNeedARace ==
  (\E d, e \in Clients : d # e /\ {d, e} \subseteq Owners) =>
    overlapped /\ disturbed

\* In the same circumstances a process never takes the socket of another one
\* from the path: it removes its own, or one that nobody holds.
RemovesNoOthersSocket ==
  [][path # Nobody /\ path' = Nobody =>
       path \notin Holders' \/ (overlapped /\ disturbed)]_vars

\* A request is run at most once, whatever daemons come and go while its
\* client connects again.
RunsOnce == \A c \in Clients : ran[c] <= 1

\* When no daemon is stopped or killed, a client that waits for a daemon gets
\* an answer or runs out of time: the starters never leave the path to nobody.
LazyStartAnswers ==
  \A c \in Clients :
    client[c].pc = "retry" ~>
      client[c].pc \in {"answered", "failed", "gaveUp"} \/ disturbed

\* The state of the election, and who owns the socket.
ElectionIsSound == TypeOK /\ TwoOwnersNeedARace
=============================================================================
