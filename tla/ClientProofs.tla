---------------------------- MODULE ClientProofs ----------------------------
(***************************************************************************)
(* Proofs about what clients set going, for any number of them: the        *)
(* election of the daemon that they start (SocketElection); and, as        *)
(* ClientCommands composes them, the configuration that the daemon follows *)
(* and commands load, what becomes of each command line, and the settings  *)
(* of agents that `hook` changes, for any files, edits and commands.       *)
(***************************************************************************)
EXTENDS SocketElection, ClientCommands, FiniteSetTheorems, SequenceTheorems, TLAPS

-----------------------------------------------------------------------------
(* The socket.                                                             *)

\* The states of a process between its bind and its first look at the file.
Bound == {"listen", "chmod", "identify", "serving"}

\* The states in which a process that is no starter touches the path.
Cleaning == {"draining", "check", "remove", "close"}

\* The states after the last connect that found nobody.
Recovering == {"stat", "compare", "unlink", "rebind"}

\* A client that has not spawned its daemon has none.
NotSpawned ==
  \A c \in Clients : client[c].pc \in {"start", "spawn"} => proc[c] = "none"

\* A request that was not served yet has not run.
RunsWhenServed ==
  \A c \in Clients :
    /\ ran[c] <= 1
    /\ client[c].pc \in {"start", "spawn", "retry", "sent"} => ran[c] = 0

\* A process that got past listen(2) keeps its listener until the end.
HoldersListen ==
  \A d \in Holders : proc[d] # "listen" => d \in listening

\* Without a race and a disturbance, the socket file is that of every holder.
HolderIsAtPath ==
  ~(overlapped /\ disturbed) => \A d \in Holders : path = d

\* Undisturbed, the first socket that is bound stays: who finds the address in
\* use finds a file, and one of mode 0600 only when somebody listens.
FirstStays ==
  ~disturbed =>
    /\ path # Nobody => proc[path] \in Bound
    /\ \A d \in private : proc[d] \in {"identify", "serving"}
    /\ \A d \in Clients :
         /\ proc[d] \notin Recovering \cup Cleaning
         /\ proc[d] \in {"probe", "validate", "confirm"} => path # Nobody
         /\ proc[d] = "confirm" => path \in private

\* A starter that is alone and found nobody stays the only process that binds.
AloneNobodyHolds ==
  ~overlapped =>
    /\ \A d, e \in Starting : d = e
    /\ \A d \in Clients : proc[d] \in Recovering => Holders = {}

IInv ==
  /\ TypeOK /\ NotSpawned /\ RunsWhenServed /\ HoldersListen
  /\ HolderIsAtPath /\ FirstStays /\ AloneNobodyHolds

-----------------------------------------------------------------------------
\* Every step keeps the types.
LEMMA TypePreserved ==
  ASSUME TypeOK, [Next]_vars
  PROVE  TypeOK'
<1> USE NobodyIsNoClient DEF TypeOK
<1>1. ASSUME NEW d \in Clients, Bind(d) \/ Rebind(d) PROVE TypeOK'
  BY <1>1 DEF Bind, BindAt, Goes, files, flags, Rebind
<1>2. ASSUME NEW d \in Clients, Probe(d) \/ Confirm(d) PROVE TypeOK'
  BY <1>2 DEF Probe, ConnectAt, Goes, Reachable, Exits, files, flags, Confirm
<1>3. ASSUME NEW d \in Clients, Listen(d) PROVE TypeOK'
  BY <1>3 DEF Listen, Goes, files, flags
<1>4. ASSUME NEW d \in Clients, Chmod(d) \/ Identify(d) PROVE TypeOK'
  BY <1>4 DEF Chmod, Goes, Exits, files, flags, Identify
<1>5. ASSUME NEW d \in Clients, Validate(d) PROVE TypeOK'
  BY <1>5 DEF Validate, Goes, Exits, files, flags
<1>6. ASSUME NEW d \in Clients, Stat(d) \/ Compare(d) PROVE TypeOK'
  BY <1>6 DEF Stat, Goes, Exits, files, flags, Compare
<1>7. ASSUME NEW d \in Clients, Unlink(d) PROVE TypeOK'
  BY <1>7 DEF Unlink, Goes, Exits, files, flags
<1>8. ASSUME NEW d \in Clients, Stop(d) \/ Cleaned(d) PROVE TypeOK'
  BY <1>8 DEF Stop, Goes, files, flags, Cleaned
<1>9. ASSUME NEW d \in Clients,
         Check(d) \/ RemoveSocket(d) \/ Close(d)
      PROVE  TypeOK'
  BY <1>9 DEF Check, Goes, files, flags, RemoveSocket, Close, Exits
<1>10. ASSUME NEW d \in Clients, Crash(d) PROVE TypeOK'
  BY <1>10 DEF Crash, Goes, Exits, files, flags
<1>11. ASSUME NEW c \in Clients, Connect(c) PROVE TypeOK'
  BY <1>11 DEF Connect, Connected, Becomes, Reachable, files, flags
<1>12. ASSUME NEW c \in Clients, Spawn(c) PROVE TypeOK'
  BY <1>12 DEF Spawn, Becomes, Goes, files, flags
<1>13. ASSUME NEW c \in Clients,
         Serve(c) \/ Answer(c) \/ Fail(c) \/ GiveUp(c)
       PROVE  TypeOK'
  BY <1>13 DEF Serve, Becomes, files, flags, Answer, Owners, Fail,
      AfterFailure, GiveUp
<1>14. CASE UNCHANGED vars
  BY <1>14 DEF vars, files, flags
<1> QED
  BY <1>1, <1>2, <1>3, <1>4, <1>5, <1>6, <1>7, <1>8, <1>9, <1>10, <1>11,
      <1>12, <1>13, <1>14 DEF Next, Starts, Ends, Asks, Over

\* Only Spawn takes a daemon out of "none", and its client does not come back.
LEMMA NotSpawnedPreserved ==
  ASSUME TypeOK, NotSpawned, [Next]_vars
  PROVE  NotSpawned'
<1> USE NobodyIsNoClient DEF TypeOK, NotSpawned
<1>1. ASSUME NEW d \in Clients,
         Bind(d) \/ Rebind(d) \/ Probe(d) \/ Confirm(d)
      PROVE  NotSpawned'
  BY <1>1 DEF Bind, BindAt, Goes, files, flags, Rebind, Probe, ConnectAt,
      Reachable, Exits, Confirm
<1>2. ASSUME NEW d \in Clients,
         Listen(d) \/ Chmod(d) \/ Identify(d)
      PROVE  NotSpawned'
  BY <1>2 DEF Listen, Goes, files, flags, Chmod, Exits, Identify
<1>3. ASSUME NEW d \in Clients,
         Validate(d) \/ Stat(d) \/ Compare(d) \/ Unlink(d)
      PROVE  NotSpawned'
  BY <1>3 DEF Validate, Goes, Exits, files, flags, Stat, Compare, Unlink
<1>4. ASSUME NEW d \in Clients,
         Stop(d) \/ Cleaned(d) \/ Check(d) \/ RemoveSocket(d) \/ Close(d) \/
         Crash(d)
      PROVE  NotSpawned'
  BY <1>4 DEF Stop, Goes, files, flags, Cleaned, Check, RemoveSocket, Close, Exits,
      Crash
<1>5. ASSUME NEW c \in Clients, Connect(c) PROVE NotSpawned'
  BY <1>5 DEF Connect, Connected, Becomes, Reachable, files, flags
<1>6. ASSUME NEW c \in Clients, Spawn(c) PROVE NotSpawned'
  BY <1>6 DEF Spawn, Becomes, Goes, files, flags
<1>7. ASSUME NEW c \in Clients,
         Serve(c) \/ Answer(c) \/ Fail(c) \/ GiveUp(c)
      PROVE  NotSpawned'
  BY <1>7 DEF Serve, Becomes, files, flags, Answer, Owners, Fail,
      AfterFailure, GiveUp
<1>8. CASE UNCHANGED vars
  BY <1>8 DEF vars, files, flags
<1> QED
  BY <1>1, <1>2, <1>3, <1>4, <1>5, <1>6, <1>7, <1>8 DEF Next, Starts, Ends,
      Asks, Over

\* Serve is the only step that runs a request, and it takes its client out of
\* "sent" for good.
LEMMA RunsWhenServedPreserved ==
  ASSUME TypeOK, RunsWhenServed, [Next]_vars
  PROVE  RunsWhenServed'
<1> USE NobodyIsNoClient DEF TypeOK, RunsWhenServed
<1>1. ASSUME NEW d \in Clients,
         Bind(d) \/ Rebind(d) \/ Probe(d) \/ Confirm(d)
      PROVE  RunsWhenServed'
  BY <1>1 DEF Bind, BindAt, Goes, files, flags, Rebind, Probe, ConnectAt,
      Reachable, Exits, Confirm
<1>2. ASSUME NEW d \in Clients,
         Listen(d) \/ Chmod(d) \/ Identify(d)
      PROVE  RunsWhenServed'
  BY <1>2 DEF Listen, Goes, files, flags, Chmod, Exits, Identify
<1>3. ASSUME NEW d \in Clients,
         Validate(d) \/ Stat(d) \/ Compare(d) \/ Unlink(d)
      PROVE  RunsWhenServed'
  BY <1>3 DEF Validate, Goes, Exits, files, flags, Stat, Compare, Unlink
<1>4. ASSUME NEW d \in Clients,
         Stop(d) \/ Cleaned(d) \/ Check(d) \/ RemoveSocket(d) \/ Close(d) \/
         Crash(d)
      PROVE  RunsWhenServed'
  BY <1>4 DEF Stop, Goes, files, flags, Cleaned, Check, RemoveSocket, Close, Exits,
      Crash
<1>5. ASSUME NEW c \in Clients, Connect(c) PROVE RunsWhenServed'
  BY <1>5 DEF Connect, Connected, Becomes, Reachable, files, flags
<1>6. ASSUME NEW c \in Clients, Spawn(c) PROVE RunsWhenServed'
  BY <1>6 DEF Spawn, Becomes, Goes, files, flags
<1>7. ASSUME NEW c \in Clients, Serve(c) PROVE RunsWhenServed'
  BY <1>7 DEF Serve, Becomes, files, flags
<1>8. ASSUME NEW c \in Clients,
         Answer(c) \/ Fail(c) \/ GiveUp(c)
      PROVE  RunsWhenServed'
  BY <1>8 DEF Answer, Becomes, Owners, files, flags, Fail, AfterFailure,
      GiveUp
<1>9. CASE UNCHANGED vars
  BY <1>9 DEF vars, files, flags
<1> QED
  BY <1>1, <1>2, <1>3, <1>4, <1>5, <1>6, <1>7, <1>8, <1>9 DEF Next, Starts,
      Ends, Asks, Over

\* A listener is closed by the exit of its own process only.
LEMMA HoldersListenPreserved ==
  ASSUME TypeOK, HoldersListen, [Next]_vars
  PROVE  HoldersListen'
<1> USE NobodyIsNoClient DEF TypeOK, HoldersListen, Holders
<1>1. ASSUME NEW d \in Clients, Bind(d) \/ Rebind(d) PROVE HoldersListen'
  BY <1>1 DEF Bind, BindAt, Goes, files, flags, Rebind
<1>2. ASSUME NEW d \in Clients, Listen(d) PROVE HoldersListen'
  BY <1>2 DEF Listen, Goes, files, flags
<1>3. ASSUME NEW d \in Clients, Chmod(d) \/ Identify(d) PROVE HoldersListen'
  BY <1>3 DEF Chmod, Goes, Exits, files, flags, Identify
<1>4. ASSUME NEW d \in Clients, Probe(d) \/ Confirm(d) PROVE HoldersListen'
  BY <1>4 DEF Probe, ConnectAt, Goes, Reachable, Exits, files, flags, Confirm
<1>5. ASSUME NEW d \in Clients,
         Validate(d) \/ Stat(d) \/ Compare(d) \/ Unlink(d)
      PROVE  HoldersListen'
  BY <1>5 DEF Validate, Goes, Exits, files, flags, Stat, Compare, Unlink
<1>6. ASSUME NEW d \in Clients,
         Stop(d) \/ Cleaned(d) \/ Check(d)
      PROVE  HoldersListen'
  BY <1>6 DEF Stop, Goes, files, flags, Cleaned, Check
<1>7. ASSUME NEW d \in Clients,
         RemoveSocket(d) \/ Close(d) \/ Crash(d)
      PROVE  HoldersListen'
  BY <1>7 DEF RemoveSocket, Goes, files, flags, Close, Exits, Crash
<1>8. ASSUME NEW c \in Clients,
         Connect(c) \/ Serve(c) \/ Answer(c) \/ Fail(c) \/ GiveUp(c)
      PROVE  HoldersListen'
  BY <1>8 DEF Connect, Connected, Becomes, Reachable, files, flags, Serve,
      Answer, Owners, Fail, AfterFailure, GiveUp
<1>9. ASSUME NEW c \in Clients, Spawn(c) PROVE HoldersListen'
  BY <1>9 DEF Spawn, Becomes, Goes, files, flags
<1>10. CASE UNCHANGED vars
  BY <1>10 DEF vars, files, flags
<1> QED
  BY <1>1, <1>2, <1>3, <1>4, <1>5, <1>6, <1>7, <1>8, <1>9, <1>10 DEF Next,
      Starts, Ends, Asks, Over

\* The path changes under a holder in three places: a bind needs an empty path,
\* an unlink a starter that found nobody, a removal the holder itself.
LEMMA HolderIsAtPathPreserved ==
  ASSUME TypeOK, NotSpawned, HolderIsAtPath, FirstStays, AloneNobodyHolds, [Next]_vars
  PROVE  HolderIsAtPath'
<1> USE NobodyIsNoClient DEF TypeOK
<1>1. ASSUME NEW d \in Clients, Bind(d) \/ Rebind(d) PROVE HolderIsAtPath'
  <2>1. CASE path = Nobody
    \* A holder would be at the path, and nobody is.
    <3>1. ~(overlapped /\ disturbed) => Holders = {}
      BY <2>1 DEF HolderIsAtPath, Holders
    <3> QED BY <1>1, <2>1, <3>1 DEF Bind, Rebind, BindAt, Goes, flags, HolderIsAtPath, Holders
  <2>2. CASE path # Nobody
    BY <1>1, <2>2 DEF Bind, Rebind, BindAt, Goes, flags, HolderIsAtPath, Holders
  <2> QED BY <2>1, <2>2
<1>2. ASSUME NEW d \in Clients, Unlink(d) PROVE HolderIsAtPath'
  \* Only a starter that raced with nobody, and found nobody, gets here.
  <2>1. ~(overlapped /\ disturbed) => Holders = {}
    BY <1>2 DEF Unlink, FirstStays, AloneNobodyHolds, Recovering
  <2> QED BY <1>2, <2>1 DEF Unlink, Goes, Exits, flags, HolderIsAtPath, Holders
<1>3. ASSUME NEW d \in Clients, RemoveSocket(d) PROVE HolderIsAtPath'
  <2>1. ~(overlapped /\ disturbed) => Holders = {d}
    BY <1>3 DEF RemoveSocket, HolderIsAtPath, Holders
  <2> QED BY <1>3, <2>1 DEF RemoveSocket, Goes, flags, HolderIsAtPath, Holders
<1>4. ASSUME NEW d \in Clients,
         Listen(d) \/ Chmod(d) \/ Identify(d)
      PROVE  HolderIsAtPath'
  BY <1>4 DEF Listen, Goes, files, flags, Chmod, Exits, Identify,
      HolderIsAtPath, Holders
<1>5. ASSUME NEW d \in Clients, Probe(d) \/ Confirm(d) PROVE HolderIsAtPath'
  BY <1>5 DEF Probe, ConnectAt, Goes, Reachable, Exits, files, flags, Confirm,
      HolderIsAtPath, Holders
<1>6. ASSUME NEW d \in Clients,
         Validate(d) \/ Stat(d) \/ Compare(d)
      PROVE  HolderIsAtPath'
  BY <1>6 DEF Validate, Goes, Exits, files, flags, Stat, Compare,
      HolderIsAtPath, Holders
<1>7. ASSUME NEW d \in Clients,
         Stop(d) \/ Cleaned(d) \/ Check(d) \/ Close(d) \/ Crash(d)
      PROVE  HolderIsAtPath'
  BY <1>7 DEF Stop, Goes, files, flags, Cleaned, Check, Close, Exits, Crash,
      HolderIsAtPath, Holders
<1>8. ASSUME NEW c \in Clients,
         Connect(c) \/ Serve(c) \/ Answer(c) \/ Fail(c) \/ GiveUp(c)
      PROVE  HolderIsAtPath'
  BY <1>8 DEF Connect, Connected, Becomes, Reachable, files, flags, Serve,
      Answer, Owners, Fail, AfterFailure, GiveUp, HolderIsAtPath, Holders
<1>9. ASSUME NEW c \in Clients, Spawn(c) PROVE HolderIsAtPath'
  BY <1>9 DEF Spawn, Becomes, Goes, files, flags, HolderIsAtPath, Holders
<1>10. CASE UNCHANGED vars
  BY <1>10 DEF vars, files, flags, HolderIsAtPath, Holders
<1> QED
  BY <1>1, <1>2, <1>3, <1>4, <1>5, <1>6, <1>7, <1>8, <1>9, <1>10 DEF Next,
      Starts, Ends, Asks, Over

\* Undisturbed, the process that bound first goes on to serve and everybody
\* else ends at one of the two connects or at the check of the mode.
LEMMA FirstStaysPreserved ==
  ASSUME TypeOK, NotSpawned, HoldersListen, HolderIsAtPath, FirstStays, [Next]_vars
  PROVE  FirstStays'
<1> USE NobodyIsNoClient DEF TypeOK
<1>1. ASSUME NEW d \in Clients, Bind(d) PROVE FirstStays'
  BY <1>1 DEF Bind, BindAt, Goes, files, flags, NotSpawned, HolderIsAtPath,
      FirstStays, Holders, Bound, Recovering, Cleaning
<1>2. ASSUME NEW d \in Clients, Listen(d) PROVE FirstStays'
  BY <1>2 DEF Listen, Goes, files, flags, NotSpawned, HolderIsAtPath,
      FirstStays, Holders, Bound, Recovering, Cleaning
<1>3. ASSUME NEW d \in Clients, Chmod(d) \/ Identify(d) PROVE FirstStays'
  <2>1. ~disturbed => path = d
    BY <1>3 DEF Chmod, Identify, HolderIsAtPath, Holders
  <2> QED
    BY <1>3, <2>1
    DEF Chmod, Identify, Goes, Exits, flags, FirstStays, Bound, Recovering, Cleaning
<1>4. ASSUME NEW d \in Clients, Probe(d) PROVE FirstStays'
  BY <1>4 DEF Probe, ConnectAt, Goes, Reachable, Exits, files, flags,
      NotSpawned, HolderIsAtPath, FirstStays, Holders, Bound, Recovering,
      Cleaning
<1>5. ASSUME NEW d \in Clients, Validate(d) PROVE FirstStays'
  BY <1>5 DEF Validate, Goes, Exits, files, flags, NotSpawned, HolderIsAtPath,
      FirstStays, Holders, Bound, Recovering, Cleaning
<1>6. ASSUME NEW d \in Clients, Confirm(d) PROVE FirstStays'
  \* A file of mode 0600 has a listener, so this connect finds somebody.
  <2>1. CASE ~disturbed
    <3>1. path \in private /\ path # Nobody /\ proc[path] \in {"identify", "serving"}
      BY <1>6, <2>1 DEF Confirm, ConnectAt, FirstStays
    <3>2. path \in listening
      BY <3>1 DEF HoldersListen, Holders
    <3> QED BY <1>6, <2>1, <3>1, <3>2
            DEF Confirm, ConnectAt, Reachable, Goes, Exits, flags, FirstStays, Bound,
                Recovering, Cleaning
  <2> QED BY <1>6, <2>1 DEF Confirm, ConnectAt, flags, FirstStays
<1>7. ASSUME NEW d \in Clients,
         Stat(d) \/ Compare(d) \/ Unlink(d) \/ Rebind(d)
      PROVE  FirstStays'
  BY <1>7 DEF Stat, Goes, Exits, files, flags, Compare, Unlink, Rebind,
      BindAt, NotSpawned, HolderIsAtPath, FirstStays, Holders, Bound,
      Recovering, Cleaning
<1>8. ASSUME NEW d \in Clients, Stop(d) \/ Crash(d) PROVE FirstStays'
  BY <1>8 DEF Stop, Goes, files, flags, Crash, Exits, NotSpawned,
      HolderIsAtPath, FirstStays, Holders, Bound, Recovering, Cleaning
<1>9. ASSUME NEW d \in Clients,
         Cleaned(d) \/ Check(d) \/ RemoveSocket(d) \/ Close(d)
      PROVE  FirstStays'
  BY <1>9 DEF Cleaned, Goes, files, flags, Check, RemoveSocket, Close, Exits,
      NotSpawned, HolderIsAtPath, FirstStays, Holders, Bound, Recovering,
      Cleaning
<1>10. ASSUME NEW c \in Clients,
         Connect(c) \/ Serve(c) \/ Answer(c) \/ Fail(c) \/ GiveUp(c)
       PROVE  FirstStays'
  BY <1>10 DEF Connect, Connected, Becomes, Reachable, files, flags, Serve,
      Answer, Owners, Fail, AfterFailure, GiveUp, NotSpawned, HolderIsAtPath,
      FirstStays, Holders, Bound, Recovering, Cleaning
<1>11. ASSUME NEW c \in Clients, Spawn(c) PROVE FirstStays'
  BY <1>11 DEF Spawn, Becomes, Goes, files, flags, NotSpawned, HolderIsAtPath,
      FirstStays, Holders, Bound, Recovering, Cleaning
<1>12. CASE UNCHANGED vars
  BY <1>12 DEF vars, files, flags, NotSpawned, HolderIsAtPath, FirstStays,
      Holders, Bound, Recovering, Cleaning
<1> QED
  BY <1>1, <1>2, <1>3, <1>4, <1>5, <1>6, <1>7, <1>8, <1>9, <1>10, <1>11, <1>12
      DEF Next, Starts, Ends, Asks, Over

\* A starter that is alone keeps everybody else from binding, from its last
\* connect to its own bind.
LEMMA AloneNobodyHoldsPreserved ==
  ASSUME TypeOK, NotSpawned, HoldersListen, HolderIsAtPath, AloneNobodyHolds, [Next]_vars
  PROVE  AloneNobodyHolds'
<1> USE NobodyIsNoClient DEF TypeOK
<1>1. ASSUME NEW d \in Clients, Bind(d) \/ Rebind(d) PROVE AloneNobodyHolds'
  BY <1>1 DEF Bind, BindAt, Goes, files, flags, Rebind, AloneNobodyHolds,
      Starting, Holders, Recovering
<1>2. ASSUME NEW d \in Clients,
         Listen(d) \/ Chmod(d) \/ Identify(d)
      PROVE  AloneNobodyHolds'
  BY <1>2 DEF Listen, Goes, files, flags, Chmod, Exits, Identify,
      AloneNobodyHolds, Starting, Holders, Recovering
<1>3. ASSUME NEW d \in Clients, Probe(d) PROVE AloneNobodyHolds'
  BY <1>3 DEF Probe, ConnectAt, Goes, Reachable, Exits, files, flags,
      AloneNobodyHolds, Starting, Holders, Recovering
<1>4. ASSUME NEW d \in Clients, Confirm(d) PROVE AloneNobodyHolds'
  <2>1. CASE ~overlapped
    \* A holder is at the path and listens, so the connect would have found it.
    <3>1. ASSUME NEW h \in Holders PROVE Reachable
      <4>1. path = h
        BY <2>1 DEF HolderIsAtPath
      <4>2. proc[h] # "listen"
        BY <1>4, <2>1 DEF Confirm, ConnectAt, AloneNobodyHolds, Starting, Holders
      <4> QED BY <4>1, <4>2 DEF HoldersListen, Holders, Reachable
    <3>2. CASE Reachable
      BY <1>4, <2>1, <3>2
      DEF Confirm, ConnectAt, Goes, Exits, flags, AloneNobodyHolds, Starting, Holders,
          Recovering
    <3>3. CASE ~Reachable
      <4>1. Holders = {}
        BY <3>1, <3>3
      <4> QED
        BY <1>4, <2>1, <3>3, <4>1
        DEF Confirm, ConnectAt, Goes, flags, AloneNobodyHolds, Starting, Holders, Recovering
    <3> QED BY <3>2, <3>3
  <2> QED BY <1>4, <2>1 DEF Confirm, ConnectAt, flags, AloneNobodyHolds
<1>5. ASSUME NEW d \in Clients,
         Validate(d) \/ Stat(d) \/ Compare(d) \/ Unlink(d)
      PROVE  AloneNobodyHolds'
  BY <1>5 DEF Validate, Goes, Exits, files, flags, Stat, Compare, Unlink,
      AloneNobodyHolds, Starting, Holders, Recovering
<1>6. ASSUME NEW d \in Clients,
         Stop(d) \/ Cleaned(d) \/ Check(d) \/ RemoveSocket(d) \/ Close(d) \/
         Crash(d)
      PROVE  AloneNobodyHolds'
  BY <1>6 DEF Stop, Goes, files, flags, Cleaned, Check, RemoveSocket, Close, Exits,
      Crash, AloneNobodyHolds, Starting, Holders, Recovering
<1>7. ASSUME NEW c \in Clients,
         Connect(c) \/ Serve(c) \/ Answer(c) \/ Fail(c) \/ GiveUp(c)
      PROVE  AloneNobodyHolds'
  BY <1>7 DEF Connect, Connected, Becomes, Reachable, files, flags, Serve,
      Answer, Owners, Fail, AfterFailure, GiveUp, AloneNobodyHolds, Starting,
      Holders, Recovering
<1>8. ASSUME NEW c \in Clients, Spawn(c) PROVE AloneNobodyHolds'
  <2>1. CASE ~overlapped /\ Starting = {}
    <3>1. \A d \in Clients : d # c => d \notin Starting' /\ proc'[d] = proc[d]
      BY <1>8, <2>1 DEF Spawn, Goes, Starting
    <3>2. \A d, e \in Starting' : d = e
      BY <3>1 DEF Starting
    <3>3. \A d \in Clients : proc'[d] \notin Recovering
      BY <1>8, <3>1 DEF Spawn, Goes, Starting, Recovering
    <3> QED BY <3>2, <3>3 DEF AloneNobodyHolds
  <2> QED BY <1>8, <2>1 DEF Spawn, AloneNobodyHolds
<1>9. CASE UNCHANGED vars
  BY <1>9 DEF vars, files, flags, AloneNobodyHolds, Starting, Holders,
      Recovering
<1> QED
  BY <1>1, <1>2, <1>3, <1>4, <1>5, <1>6, <1>7, <1>8, <1>9 DEF Next, Starts,
      Ends, Asks, Over

-----------------------------------------------------------------------------
\* Nobody has done anything yet.
LEMMA InitIInv == Init => IInv
<1> SUFFICES ASSUME Init PROVE IInv
  OBVIOUS
<1> USE NobodyIsNoClient DEF Init
<1>1. TypeOK
  BY DEF TypeOK
<1>2. NotSpawned
  BY DEF NotSpawned
<1>3. RunsWhenServed
  <2>1. ASSUME NEW c \in Clients PROVE ran[c] = 0 /\ ran[c] <= 1
    OBVIOUS
  <2> QED BY <2>1 DEF RunsWhenServed
<1>4. Holders = {} /\ Starting = {}
  BY DEF Holders, Starting
<1>5. HoldersListen /\ HolderIsAtPath /\ AloneNobodyHolds
  BY <1>4 DEF HoldersListen, HolderIsAtPath, AloneNobodyHolds
<1>6. FirstStays
  BY DEF FirstStays, Recovering, Cleaning
<1> QED BY <1>1, <1>2, <1>3, <1>5, <1>6 DEF IInv

\* Every step keeps every part of the invariant.
LEMMA NextIInv == IInv /\ [Next]_vars => IInv'
BY TypePreserved, NotSpawnedPreserved, RunsWhenServedPreserved,
   HoldersListenPreserved, HolderIsAtPathPreserved, FirstStaysPreserved,
   AloneNobodyHoldsPreserved
DEF IInv

\* The invariant of the election holds in every state.
LEMMA Inductive == Spec => []IInv
BY InitIInv, NextIInv, PTL DEF Spec

-----------------------------------------------------------------------------
\* Files, processes and clients keep to the states the code gives them.
THEOREM TypeCorrect == Spec => []TypeOK
<1>1. IInv => TypeOK
  BY DEF IInv
<1> QED BY <1>1, Inductive, PTL

\* However many clients start daemons, two of them own the socket only after a
\* race between starters and the end of an earlier daemon.
THEOREM OwnersNeedARace == Spec => []TwoOwnersNeedARace
<1>1. IInv => TwoOwnersNeedARace
  BY DEF IInv, HolderIsAtPath, TwoOwnersNeedARace, Owners, Holders
<1> QED BY <1>1, Inductive, PTL

\* Both: every process keeps to the protocol's states, and the protocol elects
\* one owner unless that race happened.
THEOREM ElectionStaysSound == Spec => []ElectionIsSound
<1>1. ElectionIsSound <=> TypeOK /\ TwoOwnersNeedARace
  BY DEF ElectionIsSound
<1> QED BY <1>1, TypeCorrect, OwnersNeedARace, PTL

\* No request runs twice, whichever daemons its client meets.
THEOREM RequestsRunOnce == Spec => []RunsOnce
<1>1. IInv => RunsOnce
  BY DEF IInv, RunsWhenServed, RunsOnce
<1> QED BY <1>1, Inductive, PTL

\* The file that a step removes from the path is that of no holder.
LEMMA RemovalStep ==
  ASSUME IInv, Next, path # Nobody, path' = Nobody, ~(overlapped /\ disturbed)
  PROVE  path \notin Holders'
<1> USE NobodyIsNoClient DEF IInv, TypeOK
<1>1. ASSUME NEW d \in Clients, Unlink(d) PROVE path \notin Holders'
  <2>1. Holders = {}
    BY <1>1 DEF Unlink, FirstStays, AloneNobodyHolds, Recovering
  <2> QED BY <1>1, <2>1 DEF Unlink, Goes, Holders
<1>2. ASSUME NEW d \in Clients, RemoveSocket(d) PROVE path \notin Holders'
  <2>1. path = d
    BY <1>2 DEF RemoveSocket, HolderIsAtPath, Holders
  <2> QED BY <1>2, <2>1 DEF RemoveSocket, Goes, Holders
<1>3. \A d \in Clients :
        /\ Starts(d) => Unlink(d)
        /\ Ends(d) => RemoveSocket(d)
  BY DEF Starts, Ends, Bind, Rebind, BindAt, Listen, Chmod, Identify, Probe, Confirm,
         ConnectAt, Validate, Stat, Compare, Crash, Stop, Cleaned, Check, Close, files
<1>4. \A c \in Clients : ~(Asks(c) \/ Fail(c) \/ GiveUp(c))
  BY DEF Asks, Connect, Spawn, Serve, Answer, Fail, GiveUp, files
<1> QED BY <1>1, <1>2, <1>3, <1>4 DEF Next, Over, vars

\* Without that race, no process ever takes the socket of another one away.
THEOREM NoOthersSocketRemoved == Spec => RemovesNoOthersSocket
<1>1. IInv /\ [Next]_vars =>
        [path # Nobody /\ path' = Nobody =>
           path \notin Holders' \/ (overlapped /\ disturbed)]_vars
  BY RemovalStep
<1> QED BY <1>1, Inductive, PTL DEF Spec, RemovesNoOthersSocket

-----------------------------------------------------------------------------
(* The configuration.                                                      *)

\* What a configuration can be, valid or not.
Configs ==
  [maxPending : Nat, maxVisible : Nat, timeout : {Never} \cup Nat,
   animated : BOOLEAN, color : FeatureMode, unicode : FeatureMode,
   historyEntries : Nat, hooks : [Providers -> HookProviderConfig]]

\* What the file can hold.
Files == Texts \cup {Missing, Broken}

\* What a reload may have to publish.
Settings == {None} \cup {SettingsOf(c, e) : c \in Configs, e \in Environments}

ConfigTyped ==
  /\ file \in [content : Files, stamp : Nat]
  /\ daemon \in {"down", "loading", "up"}
  /\ env \in Environments
  /\ manager \in [active : Configs, observed : Nat \cup {None}]
  /\ Valid(manager.active)
  /\ task \in [Tasks -> [pc : {"idle", "looked", "publish"}, settings : Settings]]
  /\ events \in 0 .. MaxEvents

\* A reload needs a daemon, one of them has the lock, and what was observed was
\* there.
ReloadsAreOrdered ==
  /\ daemon # "up" => ~missed /\ \A t \in Tasks : task[t].pc = "idle"
  /\ \A t, u \in Tasks : task[t].pc = "looked" /\ task[u].pc = "looked" => t = u
  /\ manager.observed # None => manager.observed <= file.stamp

\* What was observed was loaded, if it could be; that there was no file as well,
\* whatever has come since.
SeenIsLoaded ==
  daemon # "down" /\ LockFree /\ ~missed =>
    /\ Fingerprint = manager.observed /\ CanLoad => manager.active = Loaded
    /\ manager.observed = None /\ Loads(Missing, env, NoOverrides) =>
         manager.active = Candidate(Missing, env, NoOverrides)

\* The settings of the active configuration are published, or are about to be
\* by the only one that publishes.
LoadedIsPublished ==
  daemon # "down" /\ ~raced =>
    /\ \A t, u \in Tasks : task[t].pc = "publish" /\ task[u].pc = "publish" => t = u
    /\ \A t \in Tasks :
         task[t].pc = "publish" => task[t].settings = SettingsOf(manager.active, env)
    /\ (\A t \in Tasks : task[t].pc # "publish") =>
         published = SettingsOf(manager.active, env)

ConfigInv ==
  ConfigTyped /\ ReloadsAreOrdered /\ SeenIsLoaded /\ LoadedIsPublished

-----------------------------------------------------------------------------
\* Parsing a text gives a configuration.
LEMMA ParsedIsConfig ==
  ASSUME NEW text \in Texts
  PROVE  Parsed(text) \in Configs
<1>1. CASE text.timeout = Never
  BY <1>1 DEF Parsed, Texts, Configs
<1>2. CASE text.timeout # Never
  <2>1. text.timeout \in [number : Nat, unit : DOMAIN Units]
    BY <1>2 DEF Texts
  <2>2. ParseDuration(text.timeout) \in Nat
    BY <2>1 DEF ParseDuration, Units
  <2> QED BY <1>2, <2>2 DEF Parsed, Texts, Configs
<1> QED BY <1>1, <1>2

\* The default is a text, and its configuration is valid.
LEMMA DefaultIsText ==
  Default \in Texts /\ Parsed(Default) \in Configs /\ Valid(Parsed(Default))
<1>1. DefaultHooks \in HookProviderConfig
  BY DEF DefaultHooks, HookProviderConfig, Presets
<1>2. Default \in Texts
  BY <1>1 DEF Default, Texts, FeatureMode, Units
<1>3. PICK text : text = [number |-> 3, unit |-> "s"]
  OBVIOUS
<1>4. Default.timeout = text /\ text # Never /\ ParseDuration(text) = 3000
  BY <1>3, ConfigConstants DEF Default, Units, ParseDuration
<1>5. Parsed(Default) = [Default EXCEPT !.timeout = 3000]
  BY <1>4 DEF Parsed
<1>6. /\ Default.maxPending = 1000 /\ Default.maxVisible = 4
      /\ Default.historyEntries = 10000
      /\ \A p \in Providers : Default.hooks[p] = DefaultHooks
  BY DEF Default
<1>7. PICK config : config = Parsed(Default)
  OBVIOUS
<1>8. /\ config.maxPending = 1000 /\ config.maxVisible = 4 /\ config.timeout = 3000
      /\ config.historyEntries = 10000
      /\ \A p \in Providers : config.hooks[p] = DefaultHooks
  BY <1>2, <1>5, <1>6, <1>7 DEF Texts
<1>9. Valid(config)
  <2>1. \A p \in Providers : config.hooks[p].enable \cap config.hooks[p].disable = {}
    BY <1>8 DEF DefaultHooks
  <2>2. Units.h \in Nat /\ Units.h > 3000
    BY SMT DEF Units
  <2>3. config.timeout <= 24 * Units.h
    BY <1>8, <2>2, SMT
  <2>4. /\ config.maxPending \in 1 .. 10000 /\ config.maxVisible \in 1 .. 100
        /\ 1 <= config.historyEntries /\ config.historyEntries <= 1000000
    BY <1>8, SMT
  <2> QED BY <2>1, <2>3, <2>4, SMT DEF Valid
<1> QED BY <1>2, <1>7, <1>9, ParsedIsConfig

\* A duration that is formatted is a text, and is read as it was.
LEMMA DurationsRoundTrip ==
  ASSUME NEW ms \in Nat
  PROVE  /\ FormatDuration(ms) \in [number : Nat, unit : DOMAIN Units]
         /\ ParseDuration(FormatDuration(ms)) = ms
<1> DEFINE unit == IF ms = 0 THEN "ms"
                   ELSE IF ms % 3600000 = 0 THEN "h"
                   ELSE IF ms % 60000 = 0 THEN "m"
                   ELSE IF ms % 1000 = 0 THEN "s" ELSE "ms"
<1>1. FormatDuration(ms) = [number |-> ms \div Units[unit], unit |-> unit]
  BY DEF FormatDuration, Units
<1>2. unit \in DOMAIN Units /\ Units[unit] \in {1, 1000, 60000, 3600000}
  BY DEF Units
<1>3. ms \div Units[unit] \in Nat /\ (ms \div Units[unit]) * Units[unit] = ms
  <2>1. CASE unit = "ms"
    BY <2>1 DEF Units
  <2>2. CASE unit = "s"
    BY <2>2 DEF Units
  <2>3. CASE unit = "m"
    BY <2>3 DEF Units
  <2>4. CASE unit = "h"
    BY <2>4 DEF Units
  <2> QED BY <2>1, <2>2, <2>3, <2>4
<1> HIDE DEF unit
<1> QED BY <1>1, <1>2, <1>3 DEF ParseDuration

\* The overrides of an environment keep a configuration one, and change nothing
\* when they are applied again.
LEMMA OverridesSettle ==
  ASSUME NEW config \in Configs, NEW e \in Environments
  PROVE  /\ Overridden(config, e, NoOverrides) \in Configs
         /\ Overridden(Overridden(config, e, NoOverrides), e, NoOverrides) =
              Overridden(config, e, NoOverrides)
<1>0. e \in [dumb : BOOLEAN, noColor : BOOLEAN]
  BY ConfigConstants
<1> DEFINE once == [config EXCEPT
       !.color = IF e.noColor \/ e.dumb THEN "never" ELSE config.color,
       !.unicode = IF e.dumb THEN "never" ELSE config.unicode,
       !.animated = config.animated /\ ~e.dumb]
<1>1. Overridden(config, e, NoOverrides) = once
  BY DEF Overridden, NoOverrides, Configs
<1>2. once \in Configs
  BY <1>0 DEF Configs, FeatureMode
<1>3. Overridden(once, e, NoOverrides) = once
  BY <1>0, <1>2 DEF Overridden, NoOverrides, Configs
<1> HIDE DEF once
<1> QED BY <1>1, <1>2, <1>3

\* A configuration that is printed is a text, and is parsed as it was.
LEMMA PrintedIsParsed ==
  ASSUME NEW config \in Configs
  PROVE  Printed(config) \in Texts /\ Parsed(Printed(config)) = config
<1>1. CASE config.timeout = Never
  <2>1. Printed(config) = config
    BY <1>1 DEF Printed, Configs
  <2> QED BY <1>1, <2>1 DEF Parsed, Configs, Texts
<1>2. CASE config.timeout # Never
  <2>1. PICK text : text = FormatDuration(config.timeout)
    OBVIOUS
  <2>2. /\ text \in [number : Nat, unit : DOMAIN Units]
        /\ ParseDuration(text) = config.timeout
    BY <1>2, <2>1, DurationsRoundTrip DEF Configs
  <2>3. Printed(config) = [config EXCEPT !.timeout = text]
    BY <1>2, <2>1 DEF Printed, Configs
  <2>4. [config EXCEPT !.timeout = text] \in Texts
    BY <2>2 DEF Configs, Texts
  <2>5. text # Never
    BY <2>2, ConfigConstants
  <2>6. Parsed([config EXCEPT !.timeout = text]) = config
    BY <2>2, <2>5 DEF Parsed, Configs
  <2> QED BY <2>3, <2>4, <2>6
<1> QED BY <1>1, <1>2

\* What a file comes to is a configuration, and a valid one if it is loaded.
LEMMA CandidateIsConfig ==
  ASSUME NEW content \in Texts \cup {Missing}, NEW e \in Environments
  PROVE  Candidate(content, e, NoOverrides) \in Configs
<1>1. PICK text \in Texts : text = IF content = Missing THEN Default ELSE content
  BY DefaultIsText
<1> QED BY <1>1, ParsedIsConfig, OverridesSettle DEF Candidate

\* What is printed of a file means the same to whoever loads it.
LEMMA PrintedIsLoaded ==
  ASSUME NEW content \in Texts \cup {Missing}, NEW e \in Environments
  PROVE  LET shown == Candidate(content, e, NoOverrides)
         IN  /\ Printed(shown) \in Texts
             /\ Candidate(Printed(shown), e, NoOverrides) = shown
<1>1. PICK text \in Texts : text = IF content = Missing THEN Default ELSE content
  BY DefaultIsText
<1>2. PICK config \in Configs : config = Parsed(text)
  BY ParsedIsConfig
<1>3. PICK shown \in Configs : shown = Overridden(config, e, NoOverrides)
  BY OverridesSettle
<1>4. Candidate(content, e, NoOverrides) = shown
  BY <1>1, <1>2, <1>3 DEF Candidate
<1>5. Printed(shown) \in Texts /\ Parsed(Printed(shown)) = shown
  BY PrintedIsParsed
<1>6. Printed(shown) # Missing
  BY <1>5, ConfigConstants
<1>7. Candidate(Printed(shown), e, NoOverrides) = shown
  BY <1>2, <1>3, <1>5, <1>6, OverridesSettle DEF Candidate
<1> QED BY <1>4, <1>5, <1>7

\* A change that leaves the daemon alone leaves its settings as they are.
LEMMA SettingsUnchanged ==
  ASSUME NEW old, NEW new, NEW e, ~ChangesDaemon(old, new)
  PROVE  SettingsOf(new, e) = SettingsOf(old, e)
BY DEF ChangesDaemon, SettingsOf
-----------------------------------------------------------------------------
(* The steps of the configuration.                                         *)

\* A file that can be loaded comes to a valid configuration.
LEMMA LoadedIsValid ==
  ASSUME ConfigTyped, CanLoad
  PROVE  Loaded \in Configs /\ Valid(Loaded)
<1>1. file.content \in Texts \cup {Missing}
  BY DEF ConfigTyped, Files, CanLoad, Loads
<1> QED BY <1>1, CandidateIsConfig DEF ConfigTyped, Loaded, CanLoad, Loads

\* At the start no daemon runs, and there is no file.
LEMMA ConfigStarts ==
  ASSUME ConfigInit
  PROVE  ConfigInv
<1>1. ConfigTyped
  <2>1. /\ file = [content |-> Missing, stamp |-> 0] /\ daemon = "down"
        /\ manager = [active |-> Parsed(Default), observed |-> None]
        /\ env \in Environments /\ events = 0
        /\ task = [t \in Tasks |-> Idle]
    BY DEF ConfigInit
  <2>2. file \in [content : Files, stamp : Nat]
    BY <2>1 DEF Files
  <2>3. manager \in [active : Configs, observed : Nat \cup {None}] /\ Valid(manager.active)
    BY <2>1, DefaultIsText
  <2> QED BY <2>1, <2>2, <2>3, ConfigConstants DEF ConfigTyped, Idle, Settings
<1>2. /\ daemon = "down" /\ ~missed /\ manager.observed = None
      /\ \A t \in Tasks : task[t].pc = "idle"
  BY DEF ConfigInit, Idle
<1> QED BY <1>1, <1>2 DEF ConfigInv, ReloadsAreOrdered, SeenIsLoaded, LoadedIsPublished

\* Another text, or none, is at the path.
LEMMA EditKeepsConfig ==
  ASSUME ConfigInv, NEW content \in Files,
         file' = [content |-> content, stamp |-> file.stamp + 1], Happens,
         UNCHANGED <<daemon, env, manager, task, published, raced, missed>>
  PROVE  ConfigInv'
<1>1. ConfigTyped'
  BY ConfigConstants DEF ConfigInv, ConfigTyped, Happens
<1>2. ReloadsAreOrdered'
  BY ConfigConstants DEF ConfigInv, ConfigTyped, ReloadsAreOrdered
<1>3. ASSUME daemon # "down", LockFree, ~missed PROVE SeenIsLoaded'
  <2>1. /\ Fingerprint = manager.observed /\ CanLoad => manager.active = Loaded
        /\ manager.observed = None /\ Loads(Missing, env, NoOverrides) =>
             manager.active = Candidate(Missing, env, NoOverrides)
    BY <1>3 DEF ConfigInv, SeenIsLoaded
  <2>2. CASE content = Missing
    BY <2>1, <2>2 DEF SeenIsLoaded, Fingerprint, CanLoad, Loaded
  <2>3. CASE content # Missing
    <3>1. Fingerprint' # manager.observed
      BY <2>3, ConfigConstants
         DEF Fingerprint, ConfigInv, ReloadsAreOrdered, ConfigTyped
    <3> QED BY <2>1, <3>1 DEF SeenIsLoaded
  <2> QED BY <2>2, <2>3
<1>4. SeenIsLoaded'
  BY <1>3 DEF SeenIsLoaded, LockFree
<1>5. LoadedIsPublished'
  BY DEF ConfigInv, LoadedIsPublished
<1> QED BY <1>1, <1>2, <1>4, <1>5 DEF ConfigInv

\* The daemon loads the file before it looks at it.
LEMMA StartKeepsConfig ==
  ASSUME ConfigInv, StartDaemon
  PROVE  ConfigInv'
<1>1. Loaded \in Configs /\ Valid(Loaded)
  BY LoadedIsValid DEF ConfigInv, StartDaemon
<1>2. Fingerprint \in Nat \cup {None} /\ (Fingerprint # None => Fingerprint <= file.stamp)
  BY DEF Fingerprint, ConfigInv, ConfigTyped
<1>3. ConfigTyped'
  BY <1>1, <1>2, ConfigConstants DEF StartDaemon, ConfigInv, ConfigTyped, Happens
<1>4. ReloadsAreOrdered'
  BY <1>2 DEF StartDaemon, ConfigInv, ReloadsAreOrdered
<1>5. SeenIsLoaded'
  <2>1. manager'.active = Loaded /\ manager'.observed = Fingerprint /\ UNCHANGED <<file, env>>
    BY DEF StartDaemon
  <2>2. Fingerprint = None => file.content = Missing
    BY ConfigConstants DEF Fingerprint, ConfigInv, ConfigTyped
  <2> QED BY <2>1, <2>2 DEF SeenIsLoaded, Fingerprint, CanLoad, Loaded
<1>6. LoadedIsPublished'
  <2>1. \A t \in Tasks : task'[t].pc # "publish"
    BY DEF StartDaemon, ConfigInv, ReloadsAreOrdered
  <2> QED BY <2>1 DEF StartDaemon, LoadedIsPublished
<1> QED BY <1>3, <1>4, <1>5, <1>6 DEF ConfigInv

\* It looks at it.
LEMMA ObserveKeepsConfig ==
  ASSUME ConfigInv, Observe
  PROVE  ConfigInv'
<1>1. Fingerprint \in Nat \cup {None} /\ (Fingerprint # None => Fingerprint <= file.stamp)
  BY DEF Fingerprint, ConfigInv, ConfigTyped
<1>2. ConfigTyped'
  BY <1>1 DEF Observe, ConfigInv, ConfigTyped
<1>3. ReloadsAreOrdered'
  BY <1>1 DEF Observe, ConfigInv, ConfigTyped, ReloadsAreOrdered
<1>4. SeenIsLoaded'
  <2>1. ASSUME ~missed' PROVE manager' = manager
    BY <2>1 DEF Observe, ConfigInv, ConfigTyped
  <2> QED
    BY <2>1 DEF Observe, SeenIsLoaded, ReloadsAreOrdered, ConfigInv, Fingerprint, CanLoad,
       Loaded, LockFree
<1>5. LoadedIsPublished'
  BY DEF Observe, ConfigInv, ConfigTyped, LoadedIsPublished
<1> QED BY <1>2, <1>3, <1>4, <1>5 DEF ConfigInv

\* A reload takes the lock and looks at the file.
LEMMA LookKeepsConfig ==
  ASSUME ConfigInv, NEW t \in Tasks, Look(t)
  PROVE  ConfigInv'
<1>1. Fingerprint \in Nat \cup {None} /\ (Fingerprint # None => Fingerprint <= file.stamp)
  BY DEF Fingerprint, ConfigInv, ConfigTyped
<1>2. ConfigTyped'
  BY <1>1, ConfigConstants DEF Look, ConfigInv, ConfigTyped, Happens
<1>3. ReloadsAreOrdered'
  BY <1>1 DEF Look, ConfigInv, ConfigTyped, ReloadsAreOrdered, LockFree
<1>4. SeenIsLoaded'
  BY DEF Look, ConfigInv, ConfigTyped, SeenIsLoaded, LockFree
<1>5. LoadedIsPublished'
  BY DEF Look, ConfigInv, ConfigTyped, LoadedIsPublished
<1> QED BY <1>2, <1>3, <1>4, <1>5 DEF ConfigInv

\* It loads the file, and is about to publish what changed.
LEMMA ReloadKeepsConfig ==
  ASSUME ConfigInv, NEW t \in Tasks, Reload(t)
  PROVE  ConfigInv'
<1>1. CanLoad => Loaded \in Configs /\ Valid(Loaded)
  BY LoadedIsValid DEF ConfigInv
<1>0. PICK readable \in BOOLEAN :
        /\ file.content = Missing => readable
        /\ missed' = \/ manager.observed = None /\ Fingerprint # None
                     \/ ~readable /\ (missed \/ CanLoad)
        /\ IF readable /\ CanLoad /\ Loaded # manager.active
           THEN /\ manager' = [manager EXCEPT !.active = Loaded]
                /\ IF ChangesDaemon(manager.active, Loaded)
                   THEN /\ task' = [task EXCEPT
                             ![t] = [pc |-> "publish", settings |-> SettingsOf(Loaded, env)]]
                        /\ raced' = (\E u \in Tasks \ {t} : task[u].pc = "publish")
                   ELSE task' = [task EXCEPT ![t] = Idle] /\ UNCHANGED raced
           ELSE /\ task' = [task EXCEPT ![t] = Idle]
                /\ UNCHANGED <<manager, raced>>
  BY DEF Reload
<1> DEFINE loads == readable /\ CanLoad
<1>2. manager'.active = (IF loads THEN Loaded ELSE manager.active)
      /\ manager'.observed = manager.observed
  BY <1>0 DEF ConfigInv, ConfigTyped
<1>3. ConfigTyped'
  <2>1. Idle \in [pc : {"idle"}, settings : Settings]
    BY DEF Idle, Settings
  <2>2. CanLoad => SettingsOf(Loaded, env) \in Settings
    BY <1>1 DEF Settings, ConfigInv, ConfigTyped
  <2>3. /\ manager' \in [active : Configs, observed : Nat \cup {None}]
        /\ Valid(manager'.active)
    BY <1>0, <1>1 DEF ConfigInv, ConfigTyped
  <2>4. task' \in [Tasks -> [pc : {"idle", "looked", "publish"}, settings : Settings]]
    <3>1. PICK publishes : publishes = [pc |-> "publish", settings |-> SettingsOf(Loaded, env)]
      OBVIOUS
    <3>2. CanLoad => publishes \in [pc : {"publish"}, settings : Settings]
      BY <2>2, <3>1
    <3>3. \/ CanLoad /\ task' = [task EXCEPT ![t] = publishes]
          \/ task' = [task EXCEPT ![t] = Idle]
      BY <1>0, <3>1
    <3> QED BY <2>1, <3>2, <3>3 DEF ConfigInv, ConfigTyped
  <2> QED BY <2>3, <2>4 DEF Reload, ConfigInv, ConfigTyped
<1>4. ReloadsAreOrdered'
  <2>1. daemon = "up" /\ daemon' = daemon /\ file' = file
    BY DEF Reload, ConfigInv, ReloadsAreOrdered
  <2>2. \A u \in Tasks : task'[u].pc = "looked" => u # t /\ task[u].pc = "looked"
    <3>1. PICK next : next.pc # "looked" /\ task' = [task EXCEPT ![t] = next]
      <4>1. Idle.pc # "looked"
        BY DEF Idle
      <4> QED BY <1>0, <4>1
    <3>2. \A u \in Tasks : task'[u] = IF u = t THEN next ELSE task[u]
      BY <3>1 DEF ConfigInv, ConfigTyped
    <3> QED BY <3>1, <3>2
  <2> QED BY <1>2, <2>1, <2>2 DEF ConfigInv, ReloadsAreOrdered
<1>5. SeenIsLoaded'
  <2>1. UNCHANGED <<file, env>>
    BY DEF Reload
  <2>2. ASSUME ~missed', manager.observed = None PROVE file.content = Missing /\ readable
    BY <1>0, <2>2, ConfigConstants DEF Fingerprint, ConfigInv, ConfigTyped
  <2>3. ~missed' /\ CanLoad => readable
    BY <1>0
  <2> QED BY <1>2, <2>1, <2>2, <2>3 DEF SeenIsLoaded, Fingerprint, CanLoad, Loaded
<1>6. LoadedIsPublished'
  <2>1. CASE loads /\ Loaded # manager.active /\ ChangesDaemon(manager.active, Loaded)
    <3>1. /\ manager'.active = Loaded
          /\ task' = [task EXCEPT
               ![t] = [pc |-> "publish", settings |-> SettingsOf(Loaded, env)]]
          /\ raced' = (\E u \in Tasks \ {t} : task[u].pc = "publish")
          /\ env' = env
      BY <1>0, <1>2, <2>1 DEF Reload
    <3>2. ASSUME ~raced', NEW u \in Tasks, task'[u].pc = "publish" PROVE u = t
      BY <3>1, <3>2 DEF ConfigInv, ConfigTyped
    <3>3. task'[t] = [pc |-> "publish", settings |-> SettingsOf(Loaded, env)]
      BY <3>1 DEF ConfigInv, ConfigTyped
    <3> QED BY <3>1, <3>2, <3>3 DEF LoadedIsPublished
  <2>2. CASE ~(loads /\ Loaded # manager.active /\ ChangesDaemon(manager.active, Loaded))
    <3>1. task' = [task EXCEPT ![t] = Idle] /\ UNCHANGED <<raced, daemon, published, env>>
      BY <1>0, <2>2 DEF Reload
    <3>2. SettingsOf(manager'.active, env) = SettingsOf(manager.active, env)
      BY <1>2, <2>2, SettingsUnchanged
    <3>3. task[t].pc = "looked"
      BY DEF Reload
    <3>4. \A u \in Tasks : IF u = t THEN task'[u].pc = "idle" ELSE task'[u] = task[u]
      BY <3>1 DEF Idle, ConfigInv, ConfigTyped
    <3> QED BY <3>1, <3>2, <3>3, <3>4 DEF LoadedIsPublished, ConfigInv
  <2> QED BY <2>1, <2>2
<1> QED BY <1>3, <1>4, <1>5, <1>6 DEF ConfigInv

\* It publishes the settings.
LEMMA PublishKeepsConfig ==
  ASSUME ConfigInv, NEW t \in Tasks, Publish(t)
  PROVE  ConfigInv'
<1>1. ConfigTyped'
  BY DEF Publish, ConfigInv, ConfigTyped, Idle, Settings
<1>2. ReloadsAreOrdered'
  BY DEF Publish, ConfigInv, ConfigTyped, ReloadsAreOrdered, Idle
<1>3. SeenIsLoaded'
  <2>1. LockFree' => LockFree
    BY DEF Publish, LockFree, ConfigInv, ConfigTyped, Idle
  <2> QED BY <2>1 DEF Publish, ConfigInv, SeenIsLoaded, Fingerprint, CanLoad, Loaded
<1>4. LoadedIsPublished'
  <2>1. \A u \in Tasks : IF u = t THEN task'[u].pc = "idle" ELSE task'[u] = task[u]
    BY DEF Publish, Idle, ConfigInv, ConfigTyped
  <2> QED BY <2>1 DEF Publish, LoadedIsPublished, ConfigInv
<1> QED BY <1>1, <1>2, <1>3, <1>4 DEF ConfigInv

\* The daemon ends.
LEMMA StopKeepsConfig ==
  ASSUME ConfigInv, StopDaemon
  PROVE  ConfigInv'
<1>1. ConfigTyped'
  BY ConfigConstants DEF StopDaemon, ConfigInv, ConfigTyped, Idle, Happens, Settings
<1>2. ReloadsAreOrdered'
  BY DEF StopDaemon, ConfigInv, ConfigTyped, ReloadsAreOrdered, Idle
<1> QED BY <1>1, <1>2 DEF StopDaemon, ConfigInv, SeenIsLoaded, LoadedIsPublished

\* What leaves the configuration alone keeps it.
LEMMA OthersKeepConfig ==
  ASSUME ConfigInv, UNCHANGED configVars, events' \in 0 .. MaxEvents
  PROVE  ConfigInv'
BY DEF configVars, ConfigInv, ConfigTyped, ReloadsAreOrdered, SeenIsLoaded,
   LoadedIsPublished, LockFree, Fingerprint, CanLoad, Loaded

\* Every step of the users, agents, commands and daemons keeps the configuration.
LEMMA ConfigKept ==
  ASSUME ConfigInv, [ClientNext]_<<settingsVars, asked>>
  PROVE  ConfigInv'
<1>1. CASE ConfigNext
  <2>1. ASSUME NEW content \in Contents \cup {Missing}, EditConfig(content)
        PROVE  ConfigInv'
    BY <2>1, EditKeepsConfig, ConfigConstants DEF EditConfig, Files
  <2>2. CASE AdoptShown
    <3>1. Printed(Loaded) \in Texts
      BY <2>2, LoadedIsValid, PrintedIsParsed DEF AdoptShown, ConfigInv
    <3> QED BY <2>2, <3>1, EditKeepsConfig DEF AdoptShown, Files
  <2> QED
    BY <1>1, <2>1, <2>2, StartKeepsConfig, ObserveKeepsConfig, StopKeepsConfig,
       LookKeepsConfig, ReloadKeepsConfig, PublishKeepsConfig DEF ConfigNext
<1>2. CASE UNCHANGED configVars /\ (Happens \/ UNCHANGED events)
  <2>1. events' \in 0 .. MaxEvents
    BY <1>2, ConfigConstants DEF ConfigInv, ConfigTyped, Happens
  <2> QED BY <1>2, <2>1, OthersKeepConfig
<1>3. HookNext => Happens \/ UNCHANGED events
  BY DEF HookNext, Begin, Read, Backup, Replace, Die, EditSettings, Fire, Receive
<1> QED
  BY <1>1, <1>2, <1>3 DEF ClientNext, SettingsNext, Submit, Browse, settingsVars

\* The configuration is typed, followed, and printed as it is.
LEMMA ConfigIsCurrent ==
  ASSUME ConfigInv
  PROVE  SettingsAreCurrent
<1>1. ConfigTypeOK
  BY DEF ConfigInv, ConfigTyped, ConfigTypeOK
<1>2. SettingsFollowFile
  BY DEF ConfigInv, SeenIsLoaded, LoadedIsPublished, SettingsFollowFile, LockFree
<1>3. ASSUME NEW e \in Environments, Loads(file.content, e, NoOverrides)
      PROVE  LET shown == Candidate(file.content, e, NoOverrides)
             IN  /\ Loads(Printed(shown), e, NoOverrides)
                 /\ Candidate(Printed(shown), e, NoOverrides) = shown
  <2>1. file.content \in Texts \cup {Missing}
    BY <1>3 DEF ConfigInv, ConfigTyped, Files, Loads
  <2>2. PICK shown : shown = Candidate(file.content, e, NoOverrides)
    OBVIOUS
  <2>3. Printed(shown) \in Texts /\ Candidate(Printed(shown), e, NoOverrides) = shown
    BY <2>1, <2>2, PrintedIsLoaded
  <2>4. Printed(shown) # Broken
    BY <2>3, ConfigConstants
  <2> QED BY <1>3, <2>2, <2>3, <2>4 DEF Loads
<1>4. ShownIsSame
  BY <1>3 DEF ShownIsSame
<1> QED BY <1>1, <1>2, <1>4 DEF SettingsAreCurrent

\* The daemon runs with the last configuration file that was good, and with its
\* settings, through every edit, reload and restart and whatever commands and
\* agents do meanwhile, but for what `raced` and `missed` record, a file among
\* them that could not be read when it was looked at; and what `config show`
\* prints means the same to whoever loads it: ConfigManager and LiveConfigReload of src/config.rs.
THEOREM SettingsStayCurrent == ClientSpec => []SettingsAreCurrent
<1>1. ClientInit => ConfigInv
  BY ConfigStarts DEF ClientInit, SettingsInit
<1>2. ConfigInv /\ [ClientNext]_<<settingsVars, asked>> => ConfigInv'
  BY ConfigKept
<1>3. ConfigInv => SettingsAreCurrent
  BY ConfigIsCurrent
<1> QED BY <1>1, <1>2, <1>3, PTL DEF ClientSpec

-----------------------------------------------------------------------------
(* The command lines.                                                      *)

\* What normalize_plain_text does to each kind of text.
LEMMA PlainTexts ==
  ASSUME NEW word \in Words
  PROVE  /\ PlainText(word) \in Words
         /\ PlainText(word) = "long" <=> word = "long"
         /\ PlainText(word) = "blank" <=> word \in {"blank", "hollow"}
         /\ PlainOrNone(word) = PlainText(word) /\ word # None
         /\ KeyOK(word) <=> word \notin {"blank", "hollow", "long"}
<1>1. PlainText(word) = IF word = "styled" THEN "plain"
                        ELSE IF word = "hollow" THEN "blank" ELSE word
  BY DEF PlainText, Words
<1>2. word # None
  BY CommandConstants DEF Words
<1> QED BY <1>1, <1>2 DEF Words, PlainOrNone, KeyOK

\* A timeout that is accepted is one, and so is the one that is configured.
LEMMA TimeoutsAccepted ==
  ASSUME NEW text \in TimeoutArgs, text # None, TimeoutOK(text)
  PROVE  TimeoutOf(text) \in Nat \cup {Never}
<1>1. CASE text = Never
  BY <1>1 DEF TimeoutOf
<1>2. CASE text # Never
  <2>1. text \in [number : Nat, unit : DOMAIN Units]
    BY <1>2 DEF TimeoutArgs, TimeoutOK
  <2>2. ParseDuration(text) \in Nat
    BY <2>1 DEF ParseDuration, Units
  <2> QED BY <1>2, <2>2 DEF TimeoutOf
<1> QED BY <1>1, <1>2

\* What the wire makes of a timeout: None in an update, Never in a draft.
LEMMA TimeoutsArrive ==
  ASSUME NEW timeout \in Nat \cup {Never}
  PROVE  /\ WireTimeout(TimeoutMillis(timeout)) = timeout
         /\ TimeoutMillis(timeout) \in Nat \cup {None}
         /\ TimeoutMillis(timeout) = None <=> timeout = Never
BY ConfigConstants, CommandConstants DEF WireTimeout, TimeoutMillis

\* What a request comes to, unless it is Error itself.
LEMMA RequestsAreAsked ==
  ASSUME NEW asks \in Wire
  PROVE  /\ Request(asks) # Error
         /\ Asked(Request(asks)) =
              IF ValidCommand(asks) THEN Operation(asks) ELSE Error
<1>1. Request(asks) = [version |-> Version, command |-> asks]
  BY DEF Request
<1>2. Request(asks) # Error
  BY <1>1, CommandConstants
<1> QED BY <1>1, <1>2 DEF Asked, EnvelopeOK

\* A draft is read as it was written.
LEMMA DraftsArrive ==
  ASSUME NEW draft \in Drafts, draft.timeout \in Nat \cup {Never},
         draft.presentation = "attention" => draft.timeout = Never /\ draft.source # None,
         draft.title # "long", draft.body # "long"
  PROVE  WriteDraft(draft) \in Drafts /\ ReadDraft(WriteDraft(draft)) = draft
<1>1. PICK wire : wire = [draft EXCEPT !.timeout = TimeoutMillis(draft.timeout)]
  OBVIOUS
<1>2. WriteDraft(draft) = wire
  BY <1>1 DEF WriteDraft
<1>3. wire \in Drafts
  BY <1>1, TimeoutsArrive DEF Drafts
<1>4. SourceOK(draft.source)
  <2>1. draft.source \in Sources \cup {None}
    BY DEF Drafts
  <2> QED BY <2>1, CommandConstants DEF SourceOK, Sources
<1>5. DraftOK(wire.presentation, wire.title, wire.body, wire.source) /\ SourceOK(wire.source)
  BY <1>1, <1>4 DEF DraftOK, TextOK, Drafts
<1>6. WireTimeout(wire.timeout) = draft.timeout
  BY <1>1, TimeoutsArrive DEF Drafts
<1>7. WithTimeout([wire EXCEPT !.timeout = None], draft.timeout) = draft
  <2>1. PICK untimed : untimed = [wire EXCEPT !.timeout = None]
    OBVIOUS
  <2>2. untimed = [draft EXCEPT !.timeout = None]
    BY <1>1, <2>1 DEF Drafts
  <2>3. untimed.presentation = "attention" => draft.timeout = Never
    BY <2>2 DEF Drafts
  <2>4. [untimed EXCEPT !.timeout = draft.timeout] = draft
    BY <2>2 DEF Drafts
  <2> QED BY <2>1, <2>3, <2>4 DEF WithTimeout
<1> QED BY <1>2, <1>3, <1>5, <1>6, <1>7 DEF ReadDraft

\* `send`: refused, or submitted with every part that was typed.
LEMMA SendArrives ==
  ASSUME NEW args \in SendArgs, NEW source \in Sources \cup {None},
         NEW configured \in Nat \cup {Never},
         NEW typed, typed.type = "send", typed.args = args,
         NEW request, request = RequestOf(typed, source, configured),
         NEW did, did = IF request = Error THEN Error ELSE Asked(request)
  PROVE  SendDone(args, source, configured, did)
<1>1. PICK from : from = IF args.noSource THEN None ELSE source
  OBVIOUS
<1>2. PICK presentation : presentation = IF args.attention THEN "attention" ELSE "toast"
  OBVIOUS
<1>3. PICK title : title = IF args.title = None THEN "blank" ELSE args.title
  OBVIOUS
<1>4. PICK timeout :
        timeout = IF args.timeout = None THEN configured ELSE TimeoutOf(args.timeout)
  OBVIOUS
<1>5. PICK new : new = NewDraft(presentation, title, args.message, from)
  OBVIOUS
<1>6. PICK timed : timed = WithTimeout(new, timeout)
  OBVIOUS
<1>7. new = [key |-> None, level |-> "info", priority |-> "normal",
              presentation |-> presentation, title |-> PlainText(title),
              body |-> PlainText(args.message), timeout |-> new.timeout,
              source |-> from, position |-> None, kind |-> None]
  BY <1>5 DEF NewDraft
<1>8. timed = [key |-> None, level |-> "info", priority |-> "normal",
                presentation |-> presentation, title |-> PlainText(title),
                body |-> PlainText(args.message),
                timeout |-> IF args.attention THEN Never ELSE timeout,
                source |-> from, position |-> None, kind |-> None]
  BY <1>2, <1>6, <1>7 DEF WithTimeout
<1>9. PICK draft :
         draft = [timed EXCEPT !.level = args.level, !.priority = args.priority,
                               !.position = args.position, !.key = PlainOrNone(args.key)]
  OBVIOUS
<1>10. /\ draft.level = args.level /\ draft.priority = args.priority
       /\ draft.position = args.position /\ draft.key = PlainOrNone(args.key)
       /\ draft.presentation = presentation /\ draft.title = PlainText(title)
       /\ draft.body = PlainText(args.message) /\ draft.source = from /\ draft.kind = None
       /\ draft.timeout = IF args.attention THEN Never ELSE timeout
  BY <1>8, <1>9
<1> DEFINE ok == /\ presentation = "attention" => from # None
                 /\ args.title # "long" /\ args.message # "long"
                 /\ TimeoutOK(args.timeout) /\ (args.key = None \/ KeyOK(args.key))
<1>11. DraftOf(args, source, configured) = IF ok THEN draft ELSE Error
  BY <1>1, <1>2, <1>3, <1>4, <1>5, <1>6, <1>9 DEF DraftOf, DraftOK, TextOK
<1>12. request = IF draft = Error \/ ~ok THEN Error
                ELSE Request([type |-> "send", notification |-> WriteDraft(draft)])
  BY <1>11 DEF RequestOf
<1>13. args.key # None => args.key \in Words
  BY DEF SendArgs
<1>14. ok <=> ~ \/ "long" \in {args.title, args.message, args.key}
                \/ args.key \in {"blank", "hollow"}
                \/ args.attention /\ from = None
                \/ args.timeout \notin {None, Never} /\ ~TimeoutOK(args.timeout)
  <2>1. "long" # None /\ "blank" # None /\ "hollow" # None
    BY CommandConstants DEF Words
  <2>2. (args.key = None \/ KeyOK(args.key)) <=> args.key \notin {"blank", "hollow", "long"}
    BY <1>13, <2>1, PlainTexts
  <2>3. presentation = "attention" <=> args.attention
    BY <1>2
  <2>4. TimeoutOK(args.timeout) <=>
          ~(args.timeout \notin {None, Never} /\ ~TimeoutOK(args.timeout))
    BY DEF TimeoutOK
  <2> QED BY <2>2, <2>3, <2>4
<1>15. CASE ~ok
  BY <1>1, <1>12, <1>14, <1>15 DEF SendDone
<1>16. CASE ok
  <2>1. /\ title \in Words /\ PlainText(title) \in Words /\ PlainText(title) # "long"
        /\ PlainText(args.message) \in Words /\ PlainText(args.message) # "long"
    BY <1>3, <1>16, PlainTexts DEF SendArgs, Words
  <2>2. PlainOrNone(args.key) \in Words \cup {None}
    BY <1>13, PlainTexts DEF PlainOrNone
  <2>3. timeout \in Nat \cup {Never}
    BY <1>4, <1>16, TimeoutsAccepted DEF SendArgs
  <2>4. from \in Sources \cup {None}
    BY <1>1
  <2>5. draft \in Drafts
    <3>1. timed \in Drafts
      BY <1>2, <1>8, <2>1, <2>3, <2>4 DEF Drafts, Levels, Priorities
    <3>2. args.level \in Levels /\ args.priority \in Priorities
          /\ args.position \in Positions \cup {None}
      BY DEF SendArgs
    <3> QED BY <1>9, <2>2, <3>1, <3>2 DEF Drafts
  <2>6. PICK wire : wire = WriteDraft(draft)
    OBVIOUS
  <2>7. draft.timeout \in Nat \cup {Never}
    BY <1>10, <2>3
  <2>8. draft.presentation = "attention" => draft.timeout = Never /\ draft.source # None
    BY <1>2, <1>16, <1>10
  <2>9. wire \in Drafts /\ ReadDraft(wire) = draft
    BY <1>16, <1>10, <2>1, <2>5, <2>6, <2>7, <2>8, DraftsArrive
  <2>10. PICK asks : asks = [type |-> "send", notification |-> wire]
    OBVIOUS
  <2>11. asks \in Wire /\ request = Request(asks)
    BY <1>12, <1>16, <2>5, <2>6, <2>9, <2>10, CommandConstants DEF Wire
  <2>12. did = [op |-> "submit", draft |-> draft]
    <3>1. ValidCommand(asks)
      BY <2>5, <2>9, <2>10, CommandConstants DEF ValidCommand
    <3>2. Operation(asks) = [op |-> "submit", draft |-> draft]
      BY <2>9, <2>10 DEF Operation
    <3> QED BY <2>11, <3>1, <3>2, RequestsAreAsked
  <2>13. args.title # None => title = args.title
    BY <1>3
  <2>14. draft.timeout = IF args.attention \/ args.timeout = Never THEN Never
                         ELSE IF args.timeout = None THEN configured
                         ELSE ParseDuration(args.timeout)
    BY <1>4, <1>10, CommandConstants DEF TimeoutOf
  <2> QED
    BY <1>1, <1>2, <1>10, <1>14, <1>16, <2>12, <2>13, <2>14 DEF SendDone
<1> QED BY <1>15, <1>16

\* A selector is refused for what it holds, or is the one that was typed.
LEMMA SelectorsArrive ==
  ASSUME NEW selector \in Selectors
  PROVE  /\ SelectorOK(selector) <=> Selects(selector)
         /\ ReadSelector(selector) = [id |-> selector.id, key |-> PlainOrNone(selector.key)]
<1>1. ReadSelector(selector) = [id |-> selector.id, key |-> PlainOrNone(selector.key)]
  BY DEF Selectors, ReadSelector
<1>2. CASE selector \in [id : {"id", "bad"}, key : {None}]
  <2>1. selector.id \in {"id", "bad"} /\ selector.key = None
    BY <1>2
  <2>2. None \notin {"id", "bad", "blank", "hollow", "long"}
    BY CommandConstants DEF Words
  <2> QED BY <1>1, <2>1, <2>2 DEF SelectorOK, Selects
<1>3. CASE selector \in [id : {None}, key : Words]
  <2>1. selector.id = None /\ selector.key \in Words
    BY <1>3
  <2>2. None # "bad"
    BY CommandConstants
  <2> QED BY <1>1, <2>1, <2>2, PlainTexts DEF SelectorOK, Selects
<1> QED BY <1>2, <1>3 DEF Selectors

\* `update`: refused, or with every part that was typed, but for a timeout of
\* Never.
LEMMA UpdateArrives ==
  ASSUME NEW args \in UpdateArgs, NEW source, NEW configured,
         NEW typed, typed.type = "update", typed.args = args,
         NEW request, request = RequestOf(typed, source, configured),
         NEW did, did = IF request = Error THEN Error ELSE Asked(request)
  PROVE  UpdateDone(args, did)
<1>1. PICK update :
        update = [title |-> PlainOrNone(args.title), body |-> PlainOrNone(args.message),
                  level |-> args.level, priority |-> args.priority,
                  timeout |-> IF args.timeout = None THEN None ELSE TimeoutOf(args.timeout),
                  position |-> args.position]
  OBVIOUS
<1>2. PICK kept : kept = IF args.timeout = Never THEN None ELSE args.timeout
  OBVIOUS
<1> DEFINE bare == /\ args.title = None /\ args.message = None /\ args.level = None
                   /\ args.priority = None /\ args.position = None
           ok == /\ args.title # "long" /\ args.message # "long"
                 /\ TimeoutOK(args.timeout) /\ ~IsEmpty(update)
<1>3. UpdateOf(args) = IF ok THEN update ELSE Error
  BY <1>1 DEF UpdateOf, TextOK
<1>4. \A text \in {args.title, args.message} :
        /\ PlainOrNone(text) \in Words \cup {None}
        /\ PlainOrNone(text) = None <=> text = None
  BY PlainTexts DEF UpdateArgs, PlainOrNone
<1>5. ASSUME NEW u, NEW t,
             u = [title |-> PlainOrNone(args.title), body |-> PlainOrNone(args.message),
                  level |-> args.level, priority |-> args.priority, timeout |-> t,
                  position |-> args.position]
      PROVE  IsEmpty(u) <=> t = None /\ bare
  <2>1. DOMAIN u = {"title", "body", "level", "priority", "timeout", "position"}
    BY <1>5
  <2> QED BY <1>4, <1>5, <2>1 DEF IsEmpty
<1>6. TimeoutOK(args.timeout) <=> ~(kept # None /\ ~TimeoutOK(kept))
  BY <1>2 DEF TimeoutOK
<1>7. UpdateDone(args, did) <=>
        IF \/ kept = None /\ bare
           \/ ~Selects(args.selector)
           \/ "long" \in {args.title, args.message}
           \/ kept # None /\ ~TimeoutOK(kept)
        THEN did = Error
        ELSE /\ did.op = "update" /\ TargetIs(args.selector, did)
             /\ did.update.title = PlainOrNone(args.title)
             /\ did.update.body = PlainOrNone(args.message)
             /\ did.update.level = args.level /\ did.update.priority = args.priority
             /\ did.update.position = args.position
             /\ did.update.timeout = IF kept = None THEN None ELSE ParseDuration(kept)
  BY <1>2 DEF UpdateDone
<1>8. CASE ~ok
  <2>1. did = Error
    BY <1>3, <1>8 DEF RequestOf
  <2>2. IsEmpty(update) /\ TimeoutOK(args.timeout) => kept = None /\ bare
    <3>1. ASSUME args.timeout # None, TimeoutOK(args.timeout)
          PROVE  TimeoutOf(args.timeout) # None
      <4>1. TimeoutOf(args.timeout) \in Nat \cup {Never}
        BY <3>1, TimeoutsAccepted DEF UpdateArgs
      <4> QED BY <4>1, ConfigConstants, CommandConstants
    <3> QED BY <1>1, <1>2, <1>5, <3>1
  <2> QED BY <1>6, <1>8, <1>7, <2>1, <2>2
<1>9. CASE ok
  <2>1. update.timeout \in Nat \cup {None, Never}
    BY <1>1, <1>9, TimeoutsAccepted DEF UpdateArgs
  <2>2. update \in Updates
    BY <1>1, <1>4, <2>1 DEF Updates, UpdateArgs
  <2>3. PICK wire :
          wire = [update EXCEPT !.timeout = IF update.timeout = None THEN None
                                            ELSE TimeoutMillis(update.timeout)]
    OBVIOUS
  <2>4. WriteUpdate(update) = wire
    BY <2>3 DEF WriteUpdate
  <2>5. PICK arrived : arrived = IF update.timeout = Never THEN None ELSE update.timeout
    OBVIOUS
  <2>6. wire = [update EXCEPT !.timeout = arrived] /\ wire \in Updates
    BY <2>1, <2>2, <2>3, <2>5, CommandConstants DEF Updates, TimeoutMillis
  <2>7. ReadUpdate(wire) = wire
    BY <2>2, <2>5, <2>6, CommandConstants DEF ReadUpdate, WireTimeout, Updates
  <2>8. arrived = IF kept = None THEN None ELSE ParseDuration(kept)
    <3>1. CASE args.timeout \in {None, Never}
      BY <1>1, <1>2, <2>5, <3>1, CommandConstants DEF TimeoutOf
    <3>2. CASE args.timeout \notin {None, Never}
      <4>1. TimeoutOf(args.timeout) = ParseDuration(args.timeout)
        BY <3>2 DEF TimeoutOf
      <4>2. args.timeout \in [number : Nat, unit : DOMAIN Units]
        BY <1>9, <3>2 DEF TimeoutOK, TimeoutArgs, UpdateArgs
      <4>3. ParseDuration(args.timeout) # Never
        BY <4>2, ConfigConstants DEF ParseDuration, Units
      <4> QED BY <1>1, <1>2, <2>5, <3>2, <4>1, <4>3
    <3> QED BY <3>1, <3>2
  <2>9. IsEmpty(wire) <=> arrived = None /\ bare
    BY <1>1, <1>5, <2>2, <2>6
  <2>10. arrived = None <=> kept = None
    <3>1. ASSUME kept # None PROVE ParseDuration(kept) # None
      <4>1. kept = args.timeout /\ kept # Never
        BY <1>2, <3>1
      <4>2. ParseDuration(kept) \in Nat \cup {Never}
        BY <1>9, <3>1, <4>1, TimeoutsAccepted DEF UpdateArgs, TimeoutOf
      <4> QED BY <4>2, ConfigConstants, CommandConstants
    <3> QED BY <2>8, <3>1
  <2>11. PICK asks :
           asks = [type |-> "update", selector |-> args.selector, update |-> wire]
    OBVIOUS
  <2>12. asks \in Wire /\ args.selector \in Selectors
    BY <2>6, <2>11 DEF Wire, UpdateArgs
  <2>13. request = Request(asks)
    <3>1. update # Error
      BY <2>2, CommandConstants
    <3> QED BY <1>3, <1>9, <2>4, <2>11, <3>1 DEF RequestOf
  <2>14. ValidCommand(asks) <=> Selects(args.selector) /\ ~(kept = None /\ bare)
    BY <2>7, <2>9, <2>10, <2>11, <2>12, SelectorsArrive DEF ValidCommand
  <2>15. Operation(asks) =
           [op |-> "update", target |-> ReadSelector(args.selector), update |-> wire]
    BY <2>7, <2>11 DEF Operation
  <2>16. did = IF ValidCommand(asks) THEN Operation(asks) ELSE Error
    BY <2>12, <2>13, RequestsAreAsked
  <2>17. CASE ~ValidCommand(asks)
    BY <1>7, <2>14, <2>16, <2>17
  <2>18. CASE ValidCommand(asks)
    <3>1. TargetIs(args.selector, did)
      BY <2>12, <2>15, <2>16, <2>18, SelectorsArrive DEF TargetIs
    <3>2. /\ did.op = "update" /\ did.update = wire
      BY <2>15, <2>16, <2>18
    <3>3. /\ wire.title = PlainOrNone(args.title) /\ wire.body = PlainOrNone(args.message)
          /\ wire.level = args.level /\ wire.priority = args.priority
          /\ wire.position = args.position /\ wire.timeout = arrived
      BY <1>1, <2>6
    <3>4. ~ \/ kept = None /\ bare
            \/ ~Selects(args.selector)
            \/ "long" \in {args.title, args.message}
            \/ kept # None /\ ~TimeoutOK(kept)
      BY <1>6, <1>9, <2>14, <2>18
    <3> QED BY <1>7, <2>8, <3>1, <3>2, <3>3, <3>4
  <2> QED BY <2>17, <2>18
<1> QED BY <1>8, <1>9
\* `dismiss`, `jump` and `config reload`.
LEMMA OthersArrive ==
  ASSUME NEW typed \in TypedLines, NEW source, NEW configured,
         NEW request, request = RequestOf(typed, source, configured),
         NEW did, did = IF request = Error THEN Error ELSE Asked(request)
  PROVE  /\ typed.type = "dismiss" =>
              IF Selects(typed.args.selector)
              THEN did.op = "dismiss" /\ TargetIs(typed.args.selector, did) ELSE did = Error
         /\ typed.type = "jump" =>
              IF typed.args.key \in {"blank", "hollow", "long"} THEN did = Error
              ELSE did = [op |-> "jump", key |-> PlainText(typed.args.key)]
         /\ typed.type = "config-reload" => did = [op |-> "reload"]
<1>1. CASE typed.type = "dismiss"
  <2>1. PICK asks : asks = [type |-> "dismiss", selector |-> typed.args.selector]
    OBVIOUS
  <2>2. typed.args.selector \in Selectors
    BY <1>1 DEF TypedLines
  <2>3. asks \in Wire /\ request = Request(asks)
    BY <1>1, <2>1, <2>2 DEF Wire, RequestOf
  <2>4. ValidCommand(asks) <=> Selects(typed.args.selector)
    BY <2>1, <2>2, SelectorsArrive DEF ValidCommand
  <2>5. Operation(asks) = [op |-> "dismiss", target |-> ReadSelector(typed.args.selector)]
    BY <2>1 DEF Operation
  <2>6. did = IF ValidCommand(asks) THEN Operation(asks) ELSE Error
    BY <2>3, RequestsAreAsked
  <2> QED BY <1>1, <2>2, <2>4, <2>5, <2>6, SelectorsArrive DEF TargetIs
<1>2. CASE typed.type = "jump"
  <2>1. PICK asks : asks = [type |-> "jump", key |-> typed.args.key]
    OBVIOUS
  <2>2. typed.args.key \in Words
    BY <1>2 DEF TypedLines
  <2>3. asks \in Wire /\ request = Request(asks)
    BY <1>2, <2>1, <2>2 DEF Wire, RequestOf
  <2>4. ValidCommand(asks) <=> typed.args.key \notin {"blank", "hollow", "long"}
    BY <2>1, <2>2, PlainTexts DEF ValidCommand
  <2>5. Operation(asks) = [op |-> "jump", key |-> PlainText(typed.args.key)]
    BY <2>1 DEF Operation
  <2>6. did = IF ValidCommand(asks) THEN Operation(asks) ELSE Error
    BY <2>3, RequestsAreAsked
  <2> QED BY <1>2, <2>4, <2>5, <2>6
<1>3. CASE typed.type = "config-reload"
  <2>1. PICK asks : asks = [type |-> "config-reload"]
    OBVIOUS
  <2>2. asks \in Wire /\ request = Request(asks)
    BY <1>3, <2>1 DEF Wire, RequestOf
  <2>3. ValidCommand(asks) /\ Operation(asks) = [op |-> "reload"]
    BY <2>1 DEF ValidCommand, Operation
  <2>4. did = IF ValidCommand(asks) THEN Operation(asks) ELSE Error
    BY <2>2, RequestsAreAsked
  <2> QED BY <1>3, <2>3, <2>4
<1> QED BY <1>1, <1>2, <1>3

\* What `history clear` selects: Error only for an age that is none.
LEMMA FiltersArrive ==
  ASSUME NEW clear \in ClearArgs
  PROVE  /\ ClearFilter(clear) = Error <=> clear.before = Error
         /\ clear.before # Error =>
              ClearFilter(clear) =
                IF clear.hidden THEN "hidden" ELSE IF clear.all THEN "all"
                ELSE [before |-> clear.before.number *
                        [m |-> 60000, h |-> 3600000, d |-> 86400000][clear.before.unit]]
<1>1. clear.before = None => clear.hidden \/ clear.all
  BY DEF ClearArgs
<1>2. clear.before # None => ~clear.hidden /\ ~clear.all
  BY DEF ClearArgs
<1>3. None # Error /\ "hidden" # Error /\ "all" # Error
  BY CommandConstants
<1>4. CASE clear.hidden \/ clear.all
  BY <1>2, <1>3, <1>4 DEF ClearFilter
<1>5. CASE ~clear.hidden /\ ~clear.all
  <2>1. CASE clear.before = Error
    BY <1>5, <2>1 DEF ClearFilter, AgeOK
  <2>2. CASE clear.before # Error
    <3>1. clear.before \in Ages
      BY <1>1, <1>5, <2>2 DEF ClearArgs
    <3>2. AgeOK(clear.before)
      BY <2>2, <3>1 DEF AgeOK, Ages
    <3>3. ParseAge(clear.before) \in Nat
      BY <3>1 DEF ParseAge, Ages, AgeUnits, Units
    <3>4. ParseAge(clear.before) =
            clear.before.number *
              [m |-> 60000, h |-> 3600000, d |-> 86400000][clear.before.unit]
      BY <3>1 DEF ParseAge, Ages, AgeUnits, Units
    <3>5. [before |-> ParseAge(clear.before)] # Error
      BY <3>3, CommandConstants
    <3> QED BY <1>5, <2>2, <3>2, <3>4, <3>5 DEF ClearFilter
  <2> QED BY <2>1, <2>2
<1> QED BY <1>4, <1>5

\* `history` and `history clear`.
LEMMA HistoryArrives ==
  ASSUME NEW args \in HistoryArgs, NEW place \in HistoryPlaces, NEW limit, NEW at,
         NEW typed, typed.type = "history", typed.args = args, typed.place = place,
         NEW did, did = HistoryDone(typed, at, limit)
  PROVE  HistoryAsTyped(args, place, at, did)
<1> DEFINE server == IF place.named = None THEN place.around ELSE place.named
           all    == args.allServers \/ (args.clear # None /\ args.clear.allServers)
           scope  == IF all THEN "all" ELSE server
           agreed == /\ args.clear # None
                     /\ args.clear.yes \/ (place.input /\ place.answer = "yes")
<1>1. server = IF place.named = None THEN place.around ELSE place.named
  OBVIOUS
<1>2. all <=> args.allServers \/ (args.clear # None /\ args.clear.allServers)
  OBVIOUS
<1>3. scope = IF all THEN "all" ELSE server
  OBVIOUS
<1>4. agreed <=> /\ args.clear # None
                 /\ args.clear.yes \/ (place.input /\ place.answer = "yes")
  OBVIOUS
<1> HIDE DEF server, all, scope, agreed
<1>5. TargetOf(place) = server
  BY <1>1 DEF TargetOf
<1>6. scope = None <=> server = None /\ ~all
  BY <1>3, CommandConstants
<1>7. args.clear # None => args.clear \in ClearArgs
  BY DEF HistoryArgs
<1>8. /\ args.clear = None => scope = IF args.allServers THEN "all" ELSE server
      /\ args.clear # None =>
           scope = IF args.clear.allServers \/ args.allServers THEN "all" ELSE server
  BY <1>2, <1>3, <1>7 DEF HistoryArgs, ClearArgs
<1>9. ASSUME args.clear # None
      PROVE  IF scope # None /\ agreed /\ args.clear.before # Error
             THEN /\ did.op = "clear" /\ did.scope = scope
                  /\ did.filter = ClearFilter(args.clear)
             ELSE did \in {Error, Nothing}
  <2>1. did = Printing(args, place, limit)
    BY <1>9 DEF HistoryDone, HistoryMode
  <2>2. did = IF scope = None THEN Error ELSE Clearing(args, place)
    BY <1>2, <1>5, <1>6, <1>9, <2>1 DEF Printing
  <2>3. Clearing(args, place) =
          IF args.clear.before = Error \/ (~args.clear.yes /\ ~place.input) THEN Error
          ELSE IF args.clear.yes \/ place.answer = "yes"
          THEN [op |-> "clear", filter |-> ClearFilter(args.clear), scope |-> scope]
          ELSE Nothing
    BY <1>5, <1>7, <1>9, <1>8, FiltersArrive DEF Clearing
  <2> QED BY <1>4, <1>9, <2>2, <2>3
<1>10. ASSUME args.clear = None, scope # None, args.json \/ args.plain \/ ~place.output
       PROVE  did.op = "list" /\ did.scope = scope /\ did.hidden = args.all
  <2>1. did = Printing(args, place, limit)
    BY <1>10 DEF HistoryDone, HistoryMode
  <2>2. ~(TargetOf(place) = None /\ ~args.allServers)
    BY <1>2, <1>5, <1>6, <1>10 DEF HistoryArgs
  <2> QED BY <1>5, <1>10, <1>8, <2>1, <2>2 DEF Printing
<1>11. ASSUME server # None, OpenAllowed(server, at)
       PROVE  at # "attention"
  BY <1>11 DEF OpenAllowed, HistoryRequest, HistoryResponse
<1>12. ASSUME did \notin {Error, Nothing}, did.op \in {"pane", "viewer"}
       PROVE  /\ args.clear = None /\ did.hidden = args.all
              /\ server # None => at # "attention"
              /\ did.op = "pane" => server # None /\ did.over = server
              /\ did.op = "viewer" => did.scope = IF server = None THEN "all" ELSE server
  <2>1. HistoryMode(args, place) # "output"
    <3>1. ASSUME HistoryMode(args, place) = "output"
          PROVE  FALSE
      <4>1. did = Printing(args, place, limit)
        BY <3>1 DEF HistoryDone
      <4> QED BY <1>12, <4>1 DEF Printing, Clearing
    <3> QED BY <3>1
  <2>2. args.clear = None
    BY <2>1 DEF HistoryMode
  <2>3. CASE HistoryMode(args, place) = "floating"
    <3>1. did = Floating(args, place, at)
      BY <2>3 DEF HistoryDone
    <3>2. OpenAllowed(server, at) /\ place.around = server
      BY <1>5, <1>12, <3>1 DEF Floating
    <3>3. server # None
      BY <2>3, <3>2 DEF HistoryMode
    <3> QED BY <1>5, <1>11, <1>12, <2>2, <3>1, <3>2, <3>3 DEF Floating
  <2>4. CASE HistoryMode(args, place) = "terminal"
    <3>1. did = Viewer(args, place, at)
      BY <2>4 DEF HistoryDone
    <3>2. OpenAllowed(server, at)
      BY <1>5, <1>12, <3>1 DEF Viewer
    <3> QED BY <1>5, <1>11, <1>12, <2>2, <3>1, <3>2 DEF Viewer
  <2> QED BY <2>1, <2>3, <2>4 DEF HistoryMode
<1>13. args.clear # None /\ args.clear.before # Error =>
         ClearFilter(args.clear) =
           IF args.clear.hidden THEN "hidden" ELSE IF args.clear.all THEN "all"
           ELSE [before |-> args.clear.before.number *
                   [m |-> 60000, h |-> 3600000, d |-> 86400000][args.clear.before.unit]]
  BY <1>7, FiltersArrive
<1> QED
  BY <1>9, <1>10, <1>12, <1>13 DEF HistoryAsTyped, server, all, scope, agreed

\* A jump from the History.
LEMMA JumpsArrive ==
  ASSUME NEW typed \in TypedBrowsings, typed.type = "history-jump", NEW limit,
         NEW at \in {"down", "idle", "attention", "mute"},
         NEW did, did = HistoryDone(typed, at, limit)
  PROVE  JumpAsChosen(typed, at, did)
<1>1. typed.source \in Sources
  BY DEF TypedBrowsings
<1>2. PICK asks : asks = [type |-> "history-jump", source |-> typed.source]
  OBVIOUS
<1>3. asks \in Wire
  BY <1>1, <1>2 DEF Wire
<1>4. SourceOK(typed.source)
  BY <1>1, CommandConstants DEF SourceOK, Sources
<1>5. Operation(asks) = [op |-> "history-jump", source |-> typed.source]
  BY <1>2 DEF Operation
<1>6. Asked(Request(asks)) = [op |-> "history-jump", source |-> typed.source]
  <2>1. ValidCommand(asks)
    BY <1>2, <1>4 DEF ValidCommand
  <2> QED BY <1>3, <1>5, <2>1, RequestsAreAsked
<1>7. Asked(Request(asks)) # Error
  BY <1>1, <1>6, CommandConstants
<1>8. HistoryRequest(asks, at, typed.jumps) =
        IF at = "down" THEN "unavailable"
        ELSE IF at = "idle" /\ typed.jumps THEN "done" ELSE "error"
  BY <1>6, <1>7 DEF HistoryRequest, HistoryResponse
<1>9. did = JumpToRow(typed.source, typed.server, typed.target, at, typed.jumps)
  BY DEF HistoryDone
<1> QED BY <1>2, <1>8, <1>9 DEF JumpToRow, JumpAsChosen

\* What was typed, where, and what it came to, of every kind.
LEMMA LinesArrive ==
  ASSUME NEW typed \in TypedLines, NEW source \in Sources \cup {None},
         NEW configured, typed.type = "send" => configured \in Nat \cup {Never},
         NEW request, request = RequestOf(typed, source, configured),
         asked' = [typed |-> typed, source |-> source, configured |-> configured,
                   did |-> IF request = Error THEN Error ELSE Asked(request)]
  PROVE  CommandsArriveAsTyped'
<1>1. PICK did : did = IF request = Error THEN Error ELSE Asked(request)
  OBVIOUS
<1>2. /\ asked'.typed = typed /\ asked'.source = source
      /\ asked'.configured = configured /\ asked'.did = did
  BY <1>1
<1>3. CASE typed.type = "send"
  <2>1. typed.args \in SendArgs
    BY <1>3 DEF TypedLines
  <2>2. SendDone(typed.args, source, configured, did)
    BY <1>1, <1>3, <2>1, SendArrives
  <2> QED BY <1>2, <1>3, <2>2 DEF CommandsArriveAsTyped
<1>4. CASE typed.type = "update"
  <2>1. typed.args \in UpdateArgs
    BY <1>4 DEF TypedLines
  <2>2. UpdateDone(typed.args, did)
    BY <1>1, <1>4, <2>1, UpdateArrives
  <2> QED BY <1>2, <1>4, <2>2 DEF CommandsArriveAsTyped
<1>5. CASE typed.type \in {"dismiss", "jump", "config-reload"}
  <2>1. /\ typed.type = "dismiss" =>
             IF Selects(typed.args.selector)
             THEN did.op = "dismiss" /\ TargetIs(typed.args.selector, did) ELSE did = Error
        /\ typed.type = "jump" =>
             IF typed.args.key \in {"blank", "hollow", "long"} THEN did = Error
             ELSE did = [op |-> "jump", key |-> PlainText(typed.args.key)]
        /\ typed.type = "config-reload" => did = [op |-> "reload"]
    BY <1>1, OthersArrive
  <2> QED BY <1>2, <1>5, <2>1 DEF CommandsArriveAsTyped
<1> QED BY <1>3, <1>4, <1>5 DEF TypedLines

\* The same of the History.
LEMMA BrowsingsArrive ==
  ASSUME NEW typed \in TypedBrowsings, NEW limit,
         NEW at, AsksDaemon(typed) => at \in {"down", "idle", "attention", "mute"},
         asked' = [typed |-> typed, at |-> at, did |-> HistoryDone(typed, at, limit)]
  PROVE  CommandsArriveAsTyped'
<1>1. PICK did : did = HistoryDone(typed, at, limit)
  OBVIOUS
<1>2. asked'.typed = typed /\ asked'.at = at /\ asked'.did = did
  BY <1>1
<1>3. CASE typed.type = "history"
  <2>1. typed.args \in HistoryArgs /\ typed.place \in HistoryPlaces
    BY <1>3 DEF TypedBrowsings
  <2>2. HistoryAsTyped(typed.args, typed.place, at, did)
    BY <1>1, <1>3, <2>1, HistoryArrives
  <2> QED BY <1>2, <1>3, <2>2 DEF CommandsArriveAsTyped
<1>4. CASE typed.type = "history-jump"
  <2>1. JumpAsChosen(typed, at, did)
    BY <1>1, <1>4, JumpsArrive DEF AsksDaemon
  <2> QED BY <1>2, <1>4, <2>1 DEF CommandsArriveAsTyped
<1> QED BY <1>3, <1>4 DEF TypedBrowsings

\* Every step leaves a last command that was done as it was typed.
LEMMA CommandsKept ==
  ASSUME ConfigInv, CommandsArriveAsTyped, [ClientNext]_<<settingsVars, asked>>
  PROVE  CommandsArriveAsTyped'
<1>1. CASE asked' = None
  BY <1>1 DEF CommandsArriveAsTyped
<1>2. CASE UNCHANGED asked
  BY <1>2 DEF CommandsArriveAsTyped
<1>3. ASSUME NEW typed \in CommandLines, NEW pane \in {None, "pane"}, Submit(typed, pane)
      PROVE  CommandsArriveAsTyped'
  <2>1. PICK source : source = SourceAt(pane)
    OBVIOUS
  <2>2. PICK configured : configured = IF CanLoad THEN Loaded.timeout ELSE None
    OBVIOUS
  <2>3. PICK request : request = RequestOf(typed, source, configured)
    OBVIOUS
  <2>4. source \in Sources \cup {None}
    BY <1>3, <2>1 DEF SourceAt, Source, Sources
  <2>5. typed.type = "send" => configured \in Nat \cup {Never}
    <3>1. ASSUME CanLoad PROVE Loaded.timeout \in Nat \cup {Never}
      <4>1. Loaded \in Configs
        BY <3>1, LoadedIsValid DEF ConfigInv
      <4> QED BY <4>1 DEF Configs
    <3> QED BY <1>3, <2>2, <3>1 DEF Submit
  <2>6. typed \in TypedLines
    BY <1>3, CommandConstants
  <2>7. asked' = [typed |-> typed, source |-> source, configured |-> configured,
                  did |-> IF request = Error THEN Error ELSE Asked(request)]
    BY <1>3, <2>1, <2>2, <2>3 DEF Submit
  <2> QED BY <2>3, <2>4, <2>5, <2>6, <2>7, LinesArrive
<1>4. ASSUME NEW typed \in Browsings, NEW at \in {None, "down", "idle", "attention", "mute"},
             Browse(typed, at)
      PROVE  CommandsArriveAsTyped'
  <2>1. PICK limit : limit = Loaded.historyEntries
    OBVIOUS
  <2>2. typed \in TypedBrowsings
    BY <1>4, CommandConstants
  <2>3. AsksDaemon(typed) => at \in {"down", "idle", "attention", "mute"}
    BY <1>4 DEF Browse
  <2>4. asked' = [typed |-> typed, at |-> at, did |-> HistoryDone(typed, at, limit)]
    BY <1>4, <2>1 DEF Browse
  <2> QED BY <2>2, <2>3, <2>4, BrowsingsArrive
<1> QED BY <1>1, <1>2, <1>3, <1>4 DEF ClientNext

\* Whatever clap accepts is done as it was typed, or refused as a whole, under
\* whatever configuration and in whatever state of the daemon: the dispatch of
\* src/app.rs, the conversions of src/cli.rs and src/notification.rs, and both
\* ends of the wire in src/protocol.rs.  The exception is a timeout of `never`
\* in an update, which is lost.
THEOREM CommandsAreDone == ClientSpec => []CommandsArriveAsTyped
<1>1. ClientInit => ConfigInv /\ CommandsArriveAsTyped
  BY ConfigStarts DEF ClientInit, SettingsInit, CommandsArriveAsTyped
<1>2. ConfigInv /\ CommandsArriveAsTyped /\ [ClientNext]_<<settingsVars, asked>> =>
        (ConfigInv /\ CommandsArriveAsTyped)'
  BY ConfigKept, CommandsKept
<1> QED BY <1>1, <1>2, PTL DEF ClientSpec

-----------------------------------------------------------------------------
(* Sequences.                                                              *)

\* The places up to each of some places are as many as its number among them.
LEMMA NthIsThere ==
  ASSUME NEW n \in Nat, NEW places \in SUBSET (1 .. n),
         NEW i \in 1 .. Cardinality(places)
  PROVE  Nth(places, i) \in places
<1> DEFINE upTo(k) == {j \in places : j <= k}
           rank == [k \in places |-> Cardinality(upTo(k))]
<1>1. IsFiniteSet(places) /\ Cardinality(places) \in Nat
  <2>1. IsFiniteSet(1 .. n)
    BY FS_Interval
  <2>2. IsFiniteSet(places)
    BY <2>1, FS_Subset
  <2> QED BY <2>2, FS_CardinalityType
<1>2. ASSUME NEW k \in places
      PROVE  /\ IsFiniteSet(upTo(k)) /\ Cardinality(upTo(k)) \in 1 .. Cardinality(places)
  <2>1. upTo(k) \in SUBSET places /\ k \in upTo(k)
    OBVIOUS
  <2>2. IsFiniteSet(upTo(k)) /\ Cardinality(upTo(k)) <= Cardinality(places)
    BY <1>1, <2>1, FS_Subset
  <2>3. Cardinality(upTo(k)) \in Nat /\ Cardinality(upTo(k)) # 0
    BY <2>1, <2>2, FS_CardinalityType, FS_EmptySet
  <2> QED BY <1>1, <2>2, <2>3
<1>3. ASSUME NEW a \in places, NEW b \in places, a < b
      PROVE  Cardinality(upTo(a)) # Cardinality(upTo(b))
  <2>1. b \in upTo(b) /\ b \notin upTo(a)
    BY <1>3
  <2>2. \A j \in places : j <= a => j <= b
    BY <1>3
  <2>3. upTo(a) \in SUBSET upTo(b)
    BY <2>2
  <2> HIDE DEF upTo
  <2> QED BY <1>2, <2>1, <2>3, FS_Subset
<1>4. rank \in Injection(places, 1 .. Cardinality(places))
  <2>1. rank \in [places -> 1 .. Cardinality(places)]
    BY <1>2
  <2>2. \A a, b \in places : rank[a] = rank[b] => a = b
    <3>1. \A a, b \in places : a = b \/ a < b \/ b < a
      OBVIOUS
    <3> QED BY <1>3, <3>1
  <2> HIDE DEF rank
  <2> QED BY <2>1, <2>2 DEF Injection, IsInjective
<1>5. IsFiniteSet(1 .. Cardinality(places)) /\
      Cardinality(1 .. Cardinality(places)) = Cardinality(places)
  BY <1>1, FS_Interval
<1>6. rank \in Surjection(places, 1 .. Cardinality(places))
  BY <1>4, <1>5, FS_Injection
<1>7. \E k \in places : rank[k] = i
  BY <1>6 DEF Surjection
<1>8. \E k \in places : Cardinality({j \in places : j <= k}) = i
  BY <1>7
<1> QED BY <1>8 DEF Nth

\* What is retained is a sequence of elements of the other, in as many places.
LEMMA RetainedIsSeq ==
  ASSUME NEW S, NEW seq \in Seq(S), NEW places \in SUBSET DOMAIN seq
  PROVE  /\ Retained(seq, places) \in Seq(S)
         /\ \A i \in DOMAIN Retained(seq, places) :
              \E k \in places : Retained(seq, places)[i] = seq[k]
         /\ Retained(seq, places) = <<>> <=> places = {}
<1>1. Len(seq) \in Nat /\ DOMAIN seq = 1 .. Len(seq) /\ \A k \in DOMAIN seq : seq[k] \in S
  OBVIOUS
<1>2. IsFiniteSet(places) /\ Cardinality(places) \in Nat
  <2>1. IsFiniteSet(1 .. Len(seq))
    BY <1>1, FS_Interval
  <2>2. IsFiniteSet(places)
    BY <1>1, <2>1, FS_Subset
  <2> QED BY <2>2, FS_CardinalityType
<1>3. PICK n \in Nat : n = Cardinality(places)
  BY <1>2
<1>4. \A i \in 1 .. n : Nth(places, i) \in places
  BY <1>1, <1>3, NthIsThere
<1>5. PICK new : new = [i \in 1 .. n |-> seq[Nth(places, i)]]
  OBVIOUS
<1>6. new \in [1 .. n -> S]
  BY <1>1, <1>4, <1>5
<1>7. new \in Seq(S) /\ Len(new) = n
  BY <1>6
<1>8. n = 0 <=> places = {}
  BY <1>2, <1>3, FS_EmptySet
<1>9. new = <<>> <=> n = 0
  BY <1>7
<1> QED BY <1>3, <1>4, <1>5, <1>7, <1>8, <1>9 DEF Retained

\* The first places are retained as they are.
LEMMA FirstRetained ==
  ASSUME NEW S, NEW seq \in Seq(S), NEW n \in 0 .. Len(seq)
  PROVE  Retained(seq, 1 .. n) = [i \in 1 .. n |-> seq[i]]
<1>1. Cardinality(1 .. n) = n
  BY FS_Interval
<1>2. ASSUME NEW i \in 1 .. n PROVE Nth(1 .. n, i) = i
  <2>1. \A k \in 1 .. n : {j \in 1 .. n : j <= k} = 1 .. k
    OBVIOUS
  <2>2. \A k \in 1 .. n : Cardinality(1 .. k) = k
    BY FS_Interval
  <2>3. \A k \in 1 .. n : Cardinality({j \in 1 .. n : j <= k}) = k
    BY <2>1, <2>2
  <2> QED BY <2>3 DEF Nth
<1> QED BY <1>1, <1>2 DEF Retained

\* A set of places has a first one.
LEMMA MinIsThere ==
  ASSUME NEW places \in SUBSET Nat, places # {}
  PROVE  Min(places) \in places
<1>1. \E x \in places : \A y \in places : ~(<<y, x>> \in OpToRel(<, Nat))
  BY NatLessThanWellFounded, WFMin
<1>2. \A x, y \in places : x <= y <=> ~(<<y, x>> \in OpToRel(<, Nat))
  BY DEF OpToRel
<1>3. \E x \in places : \A y \in places : x <= y
  BY <1>1, <1>2
<1> QED BY <1>3 DEF Min

-----------------------------------------------------------------------------
(* Groups of handlers.                                                     *)

Group == [matcher : {None, NeedsInput}, handlers : Seq(Foreign \cup Owned)]

Foreigners(group) == {h \in DOMAIN group.handlers : group.handlers[h] \notin Owned}

\* The groups of an event hold handlers of others only, and none is empty.
IsClean(groups) ==
  \A g \in DOMAIN groups :
    groups[g].handlers # <<>> /\ Foreigners(groups[g]) = DOMAIN groups[g].handlers

HasOthers(groups) == \E g \in DOMAIN groups : Foreigners(groups[g]) # {}

\* What is left of a group.
LEMMA StrippedIsGroup ==
  ASSUME NEW group \in Group
  PROVE  /\ Stripped(group) \in Group
         /\ Foreigners(Stripped(group)) = DOMAIN Stripped(group).handlers
         /\ Stripped(group).handlers = <<>> <=> Foreigners(group) = {}
<1>1. PICK handlers \in Seq(Foreign \cup Owned) : handlers = group.handlers
  BY DEF Group
<1>2. PICK places \in SUBSET DOMAIN handlers :
        places = {h \in DOMAIN handlers : handlers[h] \notin Owned}
  OBVIOUS
<1>3. PICK left : left = Retained(handlers, places)
  OBVIOUS
<1>4. /\ left \in Seq(Foreign \cup Owned)
      /\ \A i \in DOMAIN left : \E k \in places : left[i] = handlers[k]
      /\ left = <<>> <=> places = {}
  BY <1>3, RetainedIsSeq
<1>5. \A i \in DOMAIN left : left[i] \notin Owned
  BY <1>2, <1>4
<1>6. Stripped(group) = [group EXCEPT !.handlers = left]
  BY <1>1, <1>2, <1>3 DEF Stripped
<1>7. Stripped(group) \in Group /\ Stripped(group).handlers = left
  BY <1>4, <1>6 DEF Group
<1> QED BY <1>1, <1>2, <1>4, <1>5, <1>7 DEF Foreigners

\* A group without owned handlers is left as it is, and so it is when an owned
\* one is added to it.
LEMMA StrippedStays ==
  ASSUME NEW group \in Group, Foreigners(group) = DOMAIN group.handlers
  PROVE  /\ Stripped(group) = group
         /\ LET more == [group EXCEPT !.handlers = Append(@, Own)]
            IN  more \in Group /\ Stripped(more) = group
<1>1. PICK handlers \in Seq(Foreign \cup Owned) : handlers = group.handlers
  BY DEF Group
<1>2. PICK n \in Nat : n = Len(handlers) /\ DOMAIN handlers = 1 .. n
  BY <1>1
<1>3. \A h \in 1 .. n : handlers[h] \notin Owned
  BY <1>1, <1>2 DEF Foreigners
<1>4. [i \in 1 .. n |-> handlers[i]] = handlers
  BY <1>2
<1>5. Stripped(group) = group
  <2>1. {h \in DOMAIN handlers : handlers[h] \notin Owned} = 1 .. n
    BY <1>2, <1>3
  <2>2. Retained(handlers, 1 .. n) = handlers
    BY <1>2, <1>4, FirstRetained
  <2> QED BY <1>1, <2>1, <2>2 DEF Stripped, Group
<1>6. PICK longer : longer = Append(handlers, Own)
  OBVIOUS
<1>7. /\ longer \in Seq(Foreign \cup Owned) /\ DOMAIN longer = 1 .. n + 1 /\ Len(longer) = n + 1
      /\ longer[n + 1] = Own /\ \A i \in 1 .. n : longer[i] = handlers[i]
  BY <1>2, <1>6 DEF Owned
<1>8. PICK more : more = [group EXCEPT !.handlers = longer]
  OBVIOUS
<1>9. more \in Group /\ more.handlers = longer
  BY <1>7, <1>8 DEF Group
<1>10. {h \in DOMAIN longer : longer[h] \notin Owned} = 1 .. n
  BY <1>3, <1>7 DEF Owned
<1>11. Retained(longer, 1 .. n) = handlers
  <2>1. Retained(longer, 1 .. n) = [i \in 1 .. n |-> longer[i]]
    BY <1>7, FirstRetained
  <2> QED BY <1>4, <1>7, <2>1
<1>12. Stripped(more) = [more EXCEPT !.handlers = handlers]
  BY <1>9, <1>10, <1>11 DEF Stripped
<1>13. Stripped(more) = group
  BY <1>1, <1>8, <1>12 DEF Group
<1> QED BY <1>1, <1>5, <1>6, <1>8, <1>9, <1>13

\* remove_owned_handlers leaves what others have, in groups that have some.
LEMMA WithoutOwnedIsClean ==
  ASSUME NEW groups \in Seq(Group)
  PROVE  /\ WithoutOwned(groups) \in Seq(Group) /\ IsClean(WithoutOwned(groups))
         /\ WithoutOwned(groups) # <<>> <=> HasOthers(groups)
<1>1. PICK stripped : stripped = [g \in DOMAIN groups |-> Stripped(groups[g])]
  OBVIOUS
<1>2. \A g \in DOMAIN groups :
        /\ stripped[g] \in Group
        /\ Foreigners(stripped[g]) = DOMAIN stripped[g].handlers
        /\ stripped[g].handlers = <<>> <=> Foreigners(groups[g]) = {}
  BY <1>1, StrippedIsGroup
<1>3. stripped \in Seq(Group) /\ DOMAIN stripped = DOMAIN groups
  BY <1>1, <1>2
<1>4. PICK places \in SUBSET DOMAIN stripped :
        places = {g \in DOMAIN groups : stripped[g].handlers # <<>>}
  BY <1>3
<1>5. PICK left : left = Retained(stripped, places)
  OBVIOUS
<1>6. WithoutOwned(groups) = left
  BY <1>1, <1>4, <1>5 DEF WithoutOwned
<1>7. /\ left \in Seq(Group)
      /\ \A i \in DOMAIN left : \E k \in places : left[i] = stripped[k]
      /\ left = <<>> <=> places = {}
  BY <1>3, <1>5, RetainedIsSeq
<1>8. IsClean(left)
  BY <1>2, <1>4, <1>7 DEF IsClean
<1>9. places # {} <=> HasOthers(groups)
  BY <1>2, <1>4 DEF HasOthers
<1> QED BY <1>6, <1>7, <1>8, <1>9

\* Groups in which others have handlers, and only they, are left as they are.
LEMMA StrippedGroups ==
  ASSUME NEW groups \in Seq(Group), IsClean(groups),
         NEW more \in Seq(Group), NEW n \in Nat, n = Len(groups), n <= Len(more),
         \A g \in 1 .. n : Stripped(more[g]) = groups[g],
         \A g \in DOMAIN more : g \notin 1 .. n => Stripped(more[g]).handlers = <<>>
  PROVE  WithoutOwned(more) = groups
<1>1. PICK stripped : stripped = [g \in DOMAIN more |-> Stripped(more[g])]
  OBVIOUS
<1>2. DOMAIN more = 1 .. Len(more) /\ Len(more) \in Nat /\ DOMAIN groups = 1 .. n
  OBVIOUS
<1>3. {g \in DOMAIN more : stripped[g].handlers # <<>>} = 1 .. n
  BY <1>1, <1>2 DEF IsClean
<1>4. stripped \in Seq(Group) /\ Len(stripped) = Len(more)
  <2>1. \A g \in DOMAIN more : Stripped(more[g]) \in Group
    BY StrippedIsGroup
  <2> QED BY <1>1, <1>2, <2>1
<1>5. Retained(stripped, 1 .. n) = [g \in 1 .. n |-> stripped[g]]
  BY <1>2, <1>4, FirstRetained
<1>6. [g \in 1 .. n |-> stripped[g]] = groups
  <2>1. groups = [g \in 1 .. n |-> groups[g]]
    BY <1>2
  <2>2. \A g \in 1 .. n : stripped[g] = groups[g]
    BY <1>1, <1>2
  <2>3. [g \in 1 .. n |-> stripped[g]] = [g \in 1 .. n |-> groups[g]]
    BY <2>2
  <2> QED BY <2>1, <2>3
<1> QED BY <1>1, <1>3, <1>5, <1>6 DEF WithoutOwned

\* A settings file without handlers of tmnotify is left as it is.
LEMMA CleanStays ==
  ASSUME NEW groups \in Seq(Group), IsClean(groups)
  PROVE  WithoutOwned(groups) = groups
<1>1. PICK n \in Nat : n = Len(groups) /\ DOMAIN groups = 1 .. n
  OBVIOUS
<1>2. ASSUME NEW g \in 1 .. n PROVE Stripped(groups[g]) = groups[g]
  <2>1. groups[g] \in Group /\ Foreigners(groups[g]) = DOMAIN groups[g].handlers
    BY <1>1 DEF IsClean
  <2> QED BY <2>1, StrippedStays
<1> QED BY <1>1, <1>2, StrippedGroups

\* The only owned handler of some groups is of this executable.
IsOnlyOwned(groups, matcher) ==
  \E g \in DOMAIN groups : \E h \in DOMAIN groups[g].handlers :
    /\ groups[g].matcher = matcher /\ groups[g].handlers[h] = Own
    /\ \A i \in DOMAIN groups : \A j \in DOMAIN groups[i].handlers :
         groups[i].handlers[j] \in Owned => i = g /\ j = h

\* add_handler adds one, and nothing that removing it would not undo.
LEMMA OneHandlerIsAdded ==
  ASSUME NEW groups \in Seq(Group), IsClean(groups), NEW matcher \in {None, NeedsInput}
  PROVE  /\ WithHandler(groups, matcher) \in Seq(Group)
         /\ WithHandler(groups, matcher) # <<>>
         /\ IsOnlyOwned(WithHandler(groups, matcher), matcher)
         /\ WithoutOwned(WithHandler(groups, matcher)) = groups
<1>1. PICK n \in Nat : n = Len(groups) /\ DOMAIN groups = 1 .. n
  OBVIOUS
<1>2. PICK more : more = WithHandler(groups, matcher)
  OBVIOUS
<1>3. PICK same : same = {i \in DOMAIN groups : groups[i].matcher = matcher}
  OBVIOUS
<1>4. ASSUME NEW g \in 1 .. n
      PROVE  groups[g] \in Group /\ Stripped(groups[g]) = groups[g]
  <2>1. groups[g] \in Group /\ Foreigners(groups[g]) = DOMAIN groups[g].handlers
    BY <1>1 DEF IsClean
  <2> QED BY <2>1, StrippedStays
<1>5. \A g \in 1 .. n : \A h \in DOMAIN groups[g].handlers :
        groups[g].handlers[h] \notin Owned
  BY <1>1 DEF IsClean, Foreigners
<1>6. CASE same = {}
  <2>1. PICK new : new = [matcher |-> matcher, handlers |-> <<Own>>]
    OBVIOUS
  <2>2. new \in Group
    BY <2>1 DEF Group, Owned
  <2>3. more = Append(groups, new)
    BY <1>2, <1>3, <1>6, <2>1 DEF WithHandler
  <2>4. /\ more \in Seq(Group) /\ Len(more) = n + 1 /\ DOMAIN more = 1 .. n + 1
        /\ more[n + 1] = new /\ \A g \in 1 .. n : more[g] = groups[g]
    BY <1>1, <2>2, <2>3
  <2>5. /\ new.matcher = matcher /\ DOMAIN new.handlers = 1 .. 1
        /\ new.handlers[1] = Own
    BY <2>1
  <2>6. Stripped(new).handlers = <<>>
    <3>1. Foreigners(new) = {}
      BY <2>5 DEF Foreigners, Owned
    <3> QED BY <2>2, <3>1, StrippedIsGroup
  <2>7. WithoutOwned(more) = groups
    BY <1>1, <1>4, <2>4, <2>6, StrippedGroups
  <2>8. IsOnlyOwned(more, matcher)
    <3>1. \A i \in DOMAIN more : \A j \in DOMAIN more[i].handlers :
            more[i].handlers[j] \in Owned => i = n + 1 /\ j = 1
      BY <1>1, <1>5, <2>4, <2>5
    <3>2. n + 1 \in DOMAIN more /\ 1 \in DOMAIN more[n + 1].handlers
      BY <2>4, <2>5
    <3> QED BY <2>4, <2>5, <3>1, <3>2 DEF IsOnlyOwned
  <2> QED BY <1>2, <2>4, <2>7, <2>8
<1>7. CASE same # {}
  <2>1. PICK at \in 1 .. n : at = Min(same) /\ groups[at].matcher = matcher
    <3>1. same \in SUBSET Nat
      BY <1>1, <1>3
    <3>2. Min(same) \in same
      BY <1>7, <3>1, MinIsThere
    <3> QED BY <1>1, <1>3, <3>2
  <2>2. PICK new : new = [groups[at] EXCEPT !.handlers = Append(@, Own)]
    OBVIOUS
  <2>3. new \in Group /\ Stripped(new) = groups[at]
    BY <1>1, <1>4, <2>2, StrippedStays DEF IsClean
  <2>4. PICK handlers \in Seq(Foreign \cup Owned) : handlers = groups[at].handlers
    BY <1>4 DEF Group
  <2>5. PICK k \in Nat : k = Len(handlers) /\ DOMAIN handlers = 1 .. k
    BY <2>4
  <2>6. /\ new.matcher = matcher /\ new.handlers = Append(handlers, Own)
    BY <1>4, <2>1, <2>2, <2>4 DEF Group
  <2>7. /\ DOMAIN new.handlers = 1 .. k + 1 /\ new.handlers[k + 1] = Own
        /\ \A h \in 1 .. k : new.handlers[h] \notin Owned
    BY <1>5, <2>4, <2>5, <2>6 DEF Owned
  <2>8. more = [groups EXCEPT ![at] = new]
    BY <1>2, <1>3, <1>7, <2>1, <2>2 DEF WithHandler
  <2>9. /\ more \in Seq(Group) /\ Len(more) = n /\ DOMAIN more = 1 .. n
        /\ more[at] = new /\ \A g \in 1 .. n : g # at => more[g] = groups[g]
    BY <1>1, <2>3, <2>8
  <2>10. WithoutOwned(more) = groups
    BY <1>1, <1>4, <2>3, <2>9, StrippedGroups
  <2>11. IsOnlyOwned(more, matcher)
    <3>1. \A i \in DOMAIN more : \A j \in DOMAIN more[i].handlers :
            more[i].handlers[j] \in Owned => i = at /\ j = k + 1
      BY <1>5, <2>7, <2>9
    <3>2. at \in DOMAIN more /\ k + 1 \in DOMAIN more[at].handlers
      BY <2>7, <2>9
    <3> QED BY <2>6, <2>7, <2>9, <3>1, <3>2 DEF IsOnlyOwned
  <2>12. more # <<>>
    BY <2>9
  <2> QED BY <1>2, <2>9, <2>10, <2>11, <2>12
<1> QED BY <1>6, <1>7

-----------------------------------------------------------------------------
(* Documents.                                                              *)

\* A settings file that is one: handlers in groups under finitely many names.
IsSettings(doc) ==
  /\ doc = [odd |-> doc.odd, groups |-> doc.groups] /\ doc.odd \in BOOLEAN
  /\ doc.groups \in [DOMAIN doc.groups -> Seq(Group)] /\ IsFiniteSet(DOMAIN doc.groups)
  /\ doc.odd => doc.groups = Empty.groups

\* What a function does to the elements of a finite set is finite.
LEMMA ImageIsFinite ==
  ASSUME NEW S, IsFiniteSet(S), NEW f, f = [x \in S |-> f[x]]
  PROVE  IsFiniteSet({f[x] : x \in S})
<1>1. f \in Surjection(S, {f[x] : x \in S})
  BY DEF Surjection
<1> QED BY <1>1, FS_Surjection

\* A record is of a handler.
LEMMA RecordsAreOfHandlers ==
  ASSUME NEW doc, NEW r
  PROVE  r \in Records(doc) <=>
           \E n \in DOMAIN doc.groups : \E g \in DOMAIN doc.groups[n] :
             \E h \in DOMAIN doc.groups[n][g].handlers :
               r = [name |-> n, matcher |-> doc.groups[n][g].matcher,
                    handler |-> doc.groups[n][g].handlers[h], at |-> <<g, h>>]
BY DEF Records, RecordsOf

\* The handlers in a document are finitely many.
LEMMA RecordsAreFinite ==
  ASSUME NEW doc, IsSettings(doc)
  PROVE  IsFiniteSet(Records(doc)) /\ IsFiniteSet(OwnedRecords(doc))
<1>1. ASSUME NEW n \in DOMAIN doc.groups PROVE IsFiniteSet(RecordsOf(n, doc.groups[n]))
  <2>1. PICK groups \in Seq(Group) : groups = doc.groups[n]
    BY DEF IsSettings
  <2>2. PICK ofGroup :
          ofGroup = [g \in DOMAIN groups |->
            {[name |-> n, matcher |-> groups[g].matcher,
              handler |-> groups[g].handlers[h], at |-> <<g, h>>] :
                h \in DOMAIN groups[g].handlers}]
    OBVIOUS
  <2>3. ASSUME NEW g \in DOMAIN groups PROVE IsFiniteSet(ofGroup[g])
    <3>1. groups[g] \in Group
      OBVIOUS
    <3>2. PICK handlers \in Seq(Foreign \cup Owned) : handlers = groups[g].handlers
      BY <3>1 DEF Group
    <3>3. IsFiniteSet(DOMAIN handlers)
      BY FS_Interval, LenProperties
    <3>4. PICK f : f = [h \in DOMAIN handlers |->
                          [name |-> n, matcher |-> groups[g].matcher,
                           handler |-> handlers[h], at |-> <<g, h>>]]
      OBVIOUS
    <3>5. f = [h \in DOMAIN handlers |-> f[h]]
      BY <3>4
    <3>6. IsFiniteSet({f[h] : h \in DOMAIN handlers})
      BY <3>3, <3>5, ImageIsFinite
    <3>7. ofGroup[g] = {f[h] : h \in DOMAIN handlers}
      BY <2>2, <3>2, <3>4
    <3> QED BY <3>6, <3>7
  <2>4. IsFiniteSet(DOMAIN groups)
    BY FS_Interval, LenProperties
  <2>5. ofGroup = [g \in DOMAIN groups |-> ofGroup[g]]
    BY <2>2
  <2>6. IsFiniteSet({ofGroup[g] : g \in DOMAIN groups})
    BY <2>4, <2>5, ImageIsFinite
  <2>7. IsFiniteSet(UNION {ofGroup[g] : g \in DOMAIN groups})
    BY <2>3, <2>6, FS_UNION
  <2>8. RecordsOf(n, doc.groups[n]) = UNION {ofGroup[g] : g \in DOMAIN groups}
    BY <2>1, <2>2 DEF RecordsOf
  <2> QED BY <2>7, <2>8
<1>2. PICK f : f = [n \in DOMAIN doc.groups |-> RecordsOf(n, doc.groups[n])]
  OBVIOUS
<1>3. IsFiniteSet({f[n] : n \in DOMAIN doc.groups})
  BY <1>2, ImageIsFinite DEF IsSettings
<1>4. IsFiniteSet(UNION {f[n] : n \in DOMAIN doc.groups})
  BY <1>1, <1>2, <1>3, FS_UNION
<1>5. Records(doc) = UNION {f[n] : n \in DOMAIN doc.groups}
  BY <1>2 DEF Records
<1>6. OwnedRecords(doc) \in SUBSET Records(doc)
  BY DEF OwnedRecords
<1> QED BY <1>4, <1>5, <1>6, FS_Subset

\* Which events others have handlers for, and what is theirs.
LEMMA OthersAre ==
  ASSUME NEW doc
  PROVE  Others(doc) = [n \in {n \in DOMAIN doc.groups : HasOthers(doc.groups[n])} |->
                          WithoutOwned(doc.groups[n])]
<1>1. PICK names : names = {r.name : r \in Records(doc) \ OwnedRecords(doc)}
  OBVIOUS
<1>2. ASSUME NEW n
      PROVE  n \in names <=> n \in DOMAIN doc.groups /\ HasOthers(doc.groups[n])
  <2>1. ASSUME n \in names PROVE n \in DOMAIN doc.groups /\ HasOthers(doc.groups[n])
    <3>1. PICK r \in Records(doc) : r \notin OwnedRecords(doc) /\ n = r.name
      BY <1>1, <2>1
    <3>2. r.handler \notin Owned
      BY <3>1 DEF OwnedRecords
    <3> QED BY <3>1, <3>2, RecordsAreOfHandlers DEF HasOthers, Foreigners
  <2>2. ASSUME n \in DOMAIN doc.groups, HasOthers(doc.groups[n]) PROVE n \in names
    <3>1. PICK g \in DOMAIN doc.groups[n] : \E h \in DOMAIN doc.groups[n][g].handlers :
            doc.groups[n][g].handlers[h] \notin Owned
      BY <2>2 DEF HasOthers, Foreigners
    <3>2. PICK h \in DOMAIN doc.groups[n][g].handlers :
            doc.groups[n][g].handlers[h] \notin Owned
      BY <3>1
    <3>3. PICK r : r = [name |-> n, matcher |-> doc.groups[n][g].matcher,
                        handler |-> doc.groups[n][g].handlers[h], at |-> <<g, h>>]
      OBVIOUS
    <3>4. r \in Records(doc) /\ r.name = n /\ r.handler \notin Owned
      BY <2>2, <3>2, <3>3, RecordsAreOfHandlers
    <3> QED BY <1>1, <3>4 DEF OwnedRecords
  <2> QED BY <2>1, <2>2
<1>3. names = {n \in DOMAIN doc.groups : HasOthers(doc.groups[n])}
  BY <1>2
<1> QED BY <1>1, <1>3 DEF Others

\* A document has exactly one owned handler for each event of `wanted`.
IsExactly(doc, provider, wanted) ==
  /\ Cardinality(OwnedRecords(doc)) = Cardinality(wanted)
  /\ {[name |-> r.name, matcher |-> r.matcher, handler |-> r.handler] :
        r \in OwnedRecords(doc)} =
     {[name |-> n, matcher |-> RequiredMatcher(provider, n), handler |-> Own] : n \in wanted}

\* It has if the groups of each of these events have one, and no others do.
LEMMA ExactIfEach ==
  ASSUME NEW doc, IsSettings(doc), NEW provider, NEW wanted \in SUBSET DOMAIN doc.groups,
         \A n \in wanted : IsOnlyOwned(doc.groups[n], RequiredMatcher(provider, n)),
         \A n \in DOMAIN doc.groups : n \notin wanted => IsClean(doc.groups[n])
  PROVE  IsExactly(doc, provider, wanted)
<1>1. PICK owned : owned = OwnedRecords(doc)
  OBVIOUS
<1>2. IsFiniteSet(owned) /\ IsFiniteSet(wanted)
  BY <1>1, RecordsAreFinite, FS_Subset DEF IsSettings
<1>3. ASSUME NEW r \in owned
      PROVE  r.name \in wanted /\ r.matcher = RequiredMatcher(provider, r.name) /\ r.handler = Own
  <2>1. PICK n \in DOMAIN doc.groups : \E g \in DOMAIN doc.groups[n] :
          \E h \in DOMAIN doc.groups[n][g].handlers :
            r = [name |-> n, matcher |-> doc.groups[n][g].matcher,
                 handler |-> doc.groups[n][g].handlers[h], at |-> <<g, h>>]
    BY <1>1, RecordsAreOfHandlers DEF OwnedRecords
  <2>2. PICK g \in DOMAIN doc.groups[n] : \E h \in DOMAIN doc.groups[n][g].handlers :
          r = [name |-> n, matcher |-> doc.groups[n][g].matcher,
               handler |-> doc.groups[n][g].handlers[h], at |-> <<g, h>>]
    BY <2>1
  <2>3. PICK h \in DOMAIN doc.groups[n][g].handlers :
          r = [name |-> n, matcher |-> doc.groups[n][g].matcher,
               handler |-> doc.groups[n][g].handlers[h], at |-> <<g, h>>]
    BY <2>2
  <2>4. doc.groups[n][g].handlers[h] \in Owned /\ r.name = n
    BY <1>1, <2>3 DEF OwnedRecords
  <2>5. n \in wanted
    BY <2>4 DEF IsClean, Foreigners
  <2>6. IsOnlyOwned(doc.groups[n], RequiredMatcher(provider, n))
    BY <2>5
  <2> QED BY <2>3, <2>4, <2>5, <2>6 DEF IsOnlyOwned
<1>4. ASSUME NEW n \in wanted
      PROVE  /\ \E r \in owned : r.name = n
             /\ \A r, s \in owned : r.name = n /\ s.name = n => r = s
  <2>1. PICK groups : groups = doc.groups[n]
    OBVIOUS
  <2>2. PICK g \in DOMAIN groups : \E h \in DOMAIN groups[g].handlers :
          /\ groups[g].handlers[h] = Own
          /\ \A i \in DOMAIN groups : \A j \in DOMAIN groups[i].handlers :
               groups[i].handlers[j] \in Owned => i = g /\ j = h
    BY <2>1 DEF IsOnlyOwned
  <2>3. PICK h \in DOMAIN groups[g].handlers :
          /\ groups[g].handlers[h] = Own
          /\ \A i \in DOMAIN groups : \A j \in DOMAIN groups[i].handlers :
               groups[i].handlers[j] \in Owned => i = g /\ j = h
    BY <2>2
  <2>4. PICK record : record = [name |-> n, matcher |-> groups[g].matcher,
                                handler |-> groups[g].handlers[h], at |-> <<g, h>>]
    OBVIOUS
  <2>5. record \in Records(doc) /\ record.name = n /\ record.handler = Own
    BY <2>1, <2>3, <2>4, RecordsAreOfHandlers
  <2>6. record \in owned
    BY <1>1, <2>5 DEF OwnedRecords, Owned
  <2>7. ASSUME NEW r \in owned, r.name = n PROVE r = record
    <3>1. r \in Records(doc) /\ r.handler \in Owned
      BY <1>1 DEF OwnedRecords
    <3>2. PICK i \in DOMAIN groups : \E j \in DOMAIN groups[i].handlers :
            r = [name |-> n, matcher |-> groups[i].matcher,
                 handler |-> groups[i].handlers[j], at |-> <<i, j>>]
      BY <2>1, <2>7, <3>1, RecordsAreOfHandlers
    <3>3. PICK j \in DOMAIN groups[i].handlers :
            r = [name |-> n, matcher |-> groups[i].matcher,
                 handler |-> groups[i].handlers[j], at |-> <<i, j>>]
      BY <3>2
    <3>4. i = g /\ j = h
      BY <2>3, <3>1, <3>3
    <3> QED BY <2>4, <3>3, <3>4
  <2> QED BY <2>5, <2>6, <2>7
<1>5. Cardinality(owned) = Cardinality(wanted)
  <2>1. PICK f : f = [r \in owned |-> r.name]
    OBVIOUS
  <2>2. f \in [owned -> wanted]
    BY <1>3, <2>1
  <2>3. \A r, s \in owned : f[r] = f[s] => r = s
    BY <1>3, <1>4, <2>1
  <2>4. \A n \in wanted : \E r \in owned : f[r] = n
    BY <1>4, <2>1
  <2>5. f \in Bijection(owned, wanted)
    BY <2>2, <2>3, <2>4 DEF Bijection, Injection, Surjection, IsInjective
  <2>6. ExistsBijection(owned, wanted)
    BY <2>5 DEF ExistsBijection
  <2> QED BY <1>2, <2>6, FS_Bijection
<1>6. {[name |-> r.name, matcher |-> r.matcher, handler |-> r.handler] : r \in owned} =
      {[name |-> n, matcher |-> RequiredMatcher(provider, n), handler |-> Own] : n \in wanted}
  BY <1>3, <1>4
<1> QED BY <1>1, <1>5, <1>6 DEF IsExactly

\* reconcile_value leaves the handlers of others and makes its own exact.
LEMMA ReconciledIsExact ==
  ASSUME NEW doc, IsSettings(doc), NEW provider, NEW desired, IsFiniteSet(desired),
         doc.odd => desired = {},
         NEW new, new = Reconciled(doc, provider, desired)
  PROVE  IsSettings(new) /\ Others(new) = Others(doc) /\ IsExactly(new, provider, desired)
<1> DEFINE kept(n) == IF n \in DOMAIN doc.groups THEN WithoutOwned(doc.groups[n]) ELSE <<>>
           made(n) == IF n \in desired THEN WithHandler(kept(n), RequiredMatcher(provider, n))
                      ELSE kept(n)
           names == {n \in DOMAIN doc.groups \cup desired : made(n) # <<>>}
<1>1. new = [doc EXCEPT !.groups = [n \in names |-> made(n)]]
  BY DEF Reconciled
<1>2. new = [odd |-> doc.odd, groups |-> [n \in names |-> made(n)]]
  <2>1. doc = [odd |-> doc.odd, groups |-> doc.groups]
    BY DEF IsSettings
  <2> HIDE DEF names, made
  <2> QED BY <1>1, <2>1
<1>3. ASSUME NEW n
      PROVE  /\ kept(n) \in Seq(Group) /\ IsClean(kept(n))
             /\ kept(n) # <<>> <=> n \in DOMAIN doc.groups /\ HasOthers(doc.groups[n])
  <2>1. CASE n \in DOMAIN doc.groups
    <3>1. doc.groups[n] \in Seq(Group)
      BY <2>1 DEF IsSettings
    <3> QED BY <2>1, <3>1, WithoutOwnedIsClean
  <2>2. CASE n \notin DOMAIN doc.groups
    BY <2>2 DEF IsClean
  <2> QED BY <2>1, <2>2
<1> HIDE DEF kept
<1>4. ASSUME NEW n
      PROVE  /\ made(n) \in Seq(Group) /\ WithoutOwned(made(n)) = kept(n)
             /\ n \in desired => /\ made(n) # <<>>
                                 /\ IsOnlyOwned(made(n), RequiredMatcher(provider, n))
             /\ n \notin desired => made(n) = kept(n)
  <2>1. CASE n \in desired
    <3>1. RequiredMatcher(provider, n) \in {None, NeedsInput}
      BY DEF RequiredMatcher
    <3> QED BY <1>3, <2>1, <3>1, OneHandlerIsAdded
  <2>2. CASE n \notin desired
    BY <1>3, <2>2, CleanStays
  <2> QED BY <2>1, <2>2
<1>5. \A n : HasOthers(made(n)) <=> kept(n) # <<>>
  BY <1>4, WithoutOwnedIsClean
<1>6. desired \in SUBSET names
  BY <1>4
<1>7. \A n : n \notin desired => (n \in names <=> kept(n) # <<>>)
  BY <1>3, <1>4
<1>8. IsFiniteSet(names)
  <2>1. IsFiniteSet(DOMAIN doc.groups \cup desired)
    BY FS_Union DEF IsSettings
  <2>2. names \in SUBSET (DOMAIN doc.groups \cup desired)
    OBVIOUS
  <2> QED BY <2>1, <2>2, FS_Subset
<1>9. ASSUME doc.odd PROVE names = {}
  <2>1. DOMAIN doc.groups = {} /\ desired = {}
    BY <1>9 DEF IsSettings, Empty
  <2> QED BY <2>1
<1> HIDE DEF made, names
<1>10. PICK groups : groups = [n \in names |-> made(n)]
  OBVIOUS
<1>11. new.groups = groups /\ new.odd = doc.odd /\ DOMAIN groups = names
  BY <1>2, <1>10
<1>12. groups \in [names -> Seq(Group)]
  BY <1>4, <1>10
<1>13. IsSettings(new)
  <2>1. doc.odd => groups = Empty.groups
    BY <1>9, <1>10 DEF Empty
  <2>2. doc.odd \in BOOLEAN
    BY DEF IsSettings
  <2> QED BY <1>2, <1>8, <1>10, <1>11, <1>12, <2>1, <2>2 DEF IsSettings
<1>14. Others(new) = Others(doc)
  <2>1. ASSUME NEW n
        PROVE  n \in names /\ HasOthers(made(n)) <=>
                 n \in DOMAIN doc.groups /\ HasOthers(doc.groups[n])
    BY <1>3, <1>5, <1>6, <1>7
  <2>2. {n \in DOMAIN groups : HasOthers(groups[n])} =
        {n \in DOMAIN doc.groups : HasOthers(doc.groups[n])}
    BY <1>10, <1>11, <2>1
  <2>3. \A n \in {n \in DOMAIN doc.groups : HasOthers(doc.groups[n])} :
          WithoutOwned(groups[n]) = WithoutOwned(doc.groups[n])
    BY <1>4, <1>10, <2>1 DEF kept
  <2> QED BY <1>11, <2>2, <2>3, OthersAre
<1>15. IsExactly(new, provider, desired)
  <2>1. \A n \in desired : IsOnlyOwned(groups[n], RequiredMatcher(provider, n))
    BY <1>4, <1>6, <1>10
  <2>2. \A n \in names : n \notin desired => IsClean(groups[n])
    BY <1>3, <1>4, <1>10
  <2> QED BY <1>6, <1>11, <1>13, <2>1, <2>2, ExactIfEach
<1> QED BY <1>13, <1>14, <1>15

-----------------------------------------------------------------------------
(* What agents report.                                                     *)

\* What an event becomes, and under which of the kinds.
LEMMA PartsAreOfAgents ==
  ASSUME NEW provider \in Providers, NEW event, NEW policy,
         Normalized(provider, event, policy) # None
  PROVE  Normalized(provider, event, policy) \in AgentParts
<1>1. CommonParts(event.name) \in AgentParts \cup {None}
  BY DEF CommonParts, AgentParts
<1>2. ClaudeParts(event) \in AgentParts \cup {None}
  BY <1>1 DEF ClaudeParts, AgentParts
<1>3. CodexParts(event) \in AgentParts \cup {None}
  BY <1>1 DEF CodexParts, AgentParts
<1> QED BY <1>2, <1>3 DEF Normalized

\* The names under which an agent can be hooked.
LEMMA DesiredIsFinite ==
  ASSUME NEW provider, NEW policy
  PROVE  IsFiniteSet(Desired(provider, policy))
<1>1. PICK names :
        names = <<"PermissionRequest", "Notification", "Stop", "StopFailure", "SessionStart",
                  "Interrupt", "SubagentStop", "PreToolUse", "PostToolUse">>
  OBVIOUS
<1>2. DOMAIN names = 1 .. 9 /\ names = [i \in 1 .. 9 |-> names[i]]
  BY <1>1
<1>3. IsFiniteSet({names[i] : i \in 1 .. 9})
  <2>1. \A n \in Nat : IsFiniteSet(1 .. n)
    BY FS_Interval
  <2>2. IsFiniteSet(1 .. 9)
    BY <2>1
  <2> QED BY <1>2, <2>2, ImageIsFinite
<1>4. \A kind \in HookEvents : EventNames(provider, kind) \subseteq {names[i] : i \in 1 .. 9}
  <2>1. /\ names[1] = "PermissionRequest" /\ names[2] = "Notification" /\ names[3] = "Stop"
        /\ names[4] = "StopFailure" /\ names[5] = "SessionStart" /\ names[6] = "Interrupt"
        /\ names[7] = "SubagentStop" /\ names[8] = "PreToolUse" /\ names[9] = "PostToolUse"
    BY <1>1
  <2>2. {"PermissionRequest", "Notification", "Stop", "StopFailure", "SessionStart",
         "Interrupt", "SubagentStop", "PreToolUse", "PostToolUse"} \subseteq
        {names[i] : i \in 1 .. 9}
    BY <2>1
  <2>3. \A kind \in HookEvents : EventNames(provider, kind) \subseteq
          {"PermissionRequest", "Notification", "Stop", "StopFailure", "SessionStart",
           "Interrupt", "SubagentStop", "PreToolUse", "PostToolUse"}
    BY DEF EventNames, HookEvents
  <2> QED BY <2>2, <2>3
<1>5. Desired(provider, policy) \in SUBSET {names[i] : i \in 1 .. 9}
  BY <1>4 DEF Desired
<1> QED BY <1>3, <1>5, FS_Subset

\* An event is wanted if and only if its name is hooked, with a matcher that
\* lets it through.
LEMMA EventsAreHooked ==
  ASSUME NEW provider \in Providers, NEW event \in AgentEvents(provider), NEW policy
  PROVE  Normalized(provider, event, policy) # None <=>
           /\ event.name \in Desired(provider, policy)
           /\ RequiredMatcher(provider, event.name) \in {None, event.type}
<1>1. PICK on : on = {kind \in HookEvents : Enabled(policy, kind)}
  OBVIOUS
<1>2. Desired(provider, policy) = UNION {EventNames(provider, kind) : kind \in on}
  BY <1>1 DEF Desired
<1>3. \A kind \in HookEvents : Enabled(policy, kind) <=> kind \in on
  BY <1>1
<1>4. None \notin AgentParts /\ None # NeedsInput
  BY HookConstants
<1>5. PICK parts : parts = IF provider = "claude" THEN ClaudeParts(event) ELSE CodexParts(event)
  OBVIOUS
<1>6. Normalized(provider, event, policy) # None <=> parts # None /\ Enabled(policy, parts.kind)
  BY <1>5 DEF Normalized
<1>7. \A name : name \in Desired(provider, policy) <=>
                \E kind \in HookEvents : kind \in on /\ name \in EventNames(provider, kind)
  BY <1>1, <1>2
<1>8. ASSUME NEW kind \in HookEvents, parts \in AgentParts, parts.kind = kind,
             \A k \in HookEvents : event.name \in EventNames(provider, k) <=> k = kind,
             RequiredMatcher(provider, event.name) \in {None, event.type}
      PROVE  Normalized(provider, event, policy) # None <=>
               /\ event.name \in Desired(provider, policy)
               /\ RequiredMatcher(provider, event.name) \in {None, event.type}
  BY <1>3, <1>4, <1>6, <1>7, <1>8
<1>9. CASE event.name = "PermissionRequest"
  <2>1. parts = Attention
    BY <1>5, <1>9 DEF ClaudeParts, CodexParts, CommonParts
  <2>2. parts \in AgentParts /\ parts.kind = "needs-attention"
    BY <2>1 DEF AgentParts, Attention, Failure, Done, Info, Parts
  <2>3. \A k \in HookEvents :
          event.name \in EventNames(provider, k) <=> k = "needs-attention"
    BY <1>9 DEF EventNames, HookEvents, Providers
  <2>4. RequiredMatcher(provider, event.name) \in {None, event.type}
    BY <1>9 DEF RequiredMatcher
  <2> QED BY <1>8, <2>2, <2>3, <2>4 DEF HookEvents
<1>10. CASE event.name = "Stop"
  <2>1. parts = Done("completed")
    BY <1>5, <1>10 DEF ClaudeParts, CodexParts, CommonParts
  <2>2. parts \in AgentParts /\ parts.kind = "completed"
    BY <2>1 DEF AgentParts, Attention, Failure, Done, Info, Parts
  <2>3. \A k \in HookEvents :
          event.name \in EventNames(provider, k) <=> k = "completed"
    BY <1>10 DEF EventNames, HookEvents, Providers
  <2>4. RequiredMatcher(provider, event.name) \in {None, event.type}
    BY <1>10 DEF RequiredMatcher
  <2> QED BY <1>8, <2>2, <2>3, <2>4 DEF HookEvents
<1>11. CASE event.name = "SessionStart"
  <2>1. parts = Info("started")
    BY <1>5, <1>11 DEF ClaudeParts, CodexParts, CommonParts
  <2>2. parts \in AgentParts /\ parts.kind = "started"
    BY <2>1 DEF AgentParts, Attention, Failure, Done, Info, Parts
  <2>3. \A k \in HookEvents :
          event.name \in EventNames(provider, k) <=> k = "started"
    BY <1>11 DEF EventNames, HookEvents, Providers
  <2>4. RequiredMatcher(provider, event.name) \in {None, event.type}
    BY <1>11 DEF RequiredMatcher
  <2> QED BY <1>8, <2>2, <2>3, <2>4 DEF HookEvents
<1>12. CASE event.name = "SubagentStop"
  <2>1. parts = Done("subagent-completed")
    BY <1>5, <1>12 DEF ClaudeParts, CodexParts, CommonParts
  <2>2. parts \in AgentParts /\ parts.kind = "subagent-completed"
    BY <2>1 DEF AgentParts, Attention, Failure, Done, Info, Parts
  <2>3. \A k \in HookEvents :
          event.name \in EventNames(provider, k) <=> k = "subagent-completed"
    BY <1>12 DEF EventNames, HookEvents, Providers
  <2>4. RequiredMatcher(provider, event.name) \in {None, event.type}
    BY <1>12 DEF RequiredMatcher
  <2> QED BY <1>8, <2>2, <2>3, <2>4 DEF HookEvents
<1>13. CASE event.name = "PreToolUse"
  <2>1. parts = Info("tool-started")
    BY <1>5, <1>13 DEF ClaudeParts, CodexParts, CommonParts
  <2>2. parts \in AgentParts /\ parts.kind = "tool-started"
    BY <2>1 DEF AgentParts, Attention, Failure, Done, Info, Parts
  <2>3. \A k \in HookEvents :
          event.name \in EventNames(provider, k) <=> k = "tool-started"
    BY <1>13 DEF EventNames, HookEvents, Providers
  <2>4. RequiredMatcher(provider, event.name) \in {None, event.type}
    BY <1>13 DEF RequiredMatcher
  <2> QED BY <1>8, <2>2, <2>3, <2>4 DEF HookEvents
<1>14. CASE event.name = "PostToolUse"
  <2>1. parts = Info("tool-completed")
    BY <1>5, <1>14 DEF ClaudeParts, CodexParts, CommonParts
  <2>2. parts \in AgentParts /\ parts.kind = "tool-completed"
    BY <2>1 DEF AgentParts, Attention, Failure, Done, Info, Parts
  <2>3. \A k \in HookEvents :
          event.name \in EventNames(provider, k) <=> k = "tool-completed"
    BY <1>14 DEF EventNames, HookEvents, Providers
  <2>4. RequiredMatcher(provider, event.name) \in {None, event.type}
    BY <1>14 DEF RequiredMatcher
  <2> QED BY <1>8, <2>2, <2>3, <2>4 DEF HookEvents
<1>15. CASE event.name = "StopFailure"
  <2>0. provider = "claude"
    BY <1>15 DEF AgentEvents, Providers
  <2>1. parts = Failure
    BY <1>5, <1>15, <2>0 DEF ClaudeParts, CodexParts, CommonParts
  <2>2. parts \in AgentParts /\ parts.kind = "failed"
    BY <2>1 DEF AgentParts, Attention, Failure, Done, Info, Parts
  <2>3. \A k \in HookEvents :
          event.name \in EventNames(provider, k) <=> k = "failed"
    BY <1>15, <2>0 DEF EventNames, HookEvents, Providers
  <2>4. RequiredMatcher(provider, event.name) \in {None, event.type}
    BY <1>15 DEF RequiredMatcher
  <2> QED BY <1>8, <2>2, <2>3, <2>4 DEF HookEvents
<1>16. CASE event.name = "Interrupt"
  <2>0. provider = "codex"
    BY <1>16 DEF AgentEvents, Providers
  <2>1. parts = Info("interrupted")
    BY <1>5, <1>16, <2>0 DEF ClaudeParts, CodexParts, CommonParts
  <2>2. parts \in AgentParts /\ parts.kind = "interrupted"
    BY <2>1 DEF AgentParts, Attention, Failure, Done, Info, Parts
  <2>3. \A k \in HookEvents :
          event.name \in EventNames(provider, k) <=> k = "interrupted"
    BY <1>16, <2>0 DEF EventNames, HookEvents, Providers
  <2>4. RequiredMatcher(provider, event.name) \in {None, event.type}
    BY <1>16 DEF RequiredMatcher
  <2> QED BY <1>8, <2>2, <2>3, <2>4 DEF HookEvents
<1>17. CASE event.name = "Notification" /\ event.type = NeedsInput
  <2>0. provider = "claude"
    BY <1>17 DEF AgentEvents, Providers
  <2>1. parts = Attention
    BY <1>5, <1>17, <2>0 DEF ClaudeParts, CodexParts, CommonParts
  <2>2. parts \in AgentParts /\ parts.kind = "needs-attention"
    BY <2>1 DEF AgentParts, Attention, Failure, Done, Info, Parts
  <2>3. \A k \in HookEvents :
          event.name \in EventNames(provider, k) <=> k = "needs-attention"
    BY <1>17, <2>0 DEF EventNames, HookEvents, Providers
  <2>4. RequiredMatcher(provider, event.name) \in {None, event.type}
    BY <1>17 DEF RequiredMatcher
  <2> QED BY <1>8, <2>2, <2>3, <2>4 DEF HookEvents
<1>18. CASE event.name = "SessionEnd"
  <2>1. parts = None
    BY <1>5, <1>18 DEF ClaudeParts, CodexParts, CommonParts
  <2>2. \A k \in HookEvents : event.name \notin EventNames(provider, k)
    BY <1>18 DEF EventNames, HookEvents
  <2> QED BY <1>6, <1>7, <2>1, <2>2
<1>19. CASE event.name = "Notification" /\ event.type # NeedsInput
  <2>1. provider = "claude"
    BY <1>19 DEF AgentEvents, Providers
  <2>2. parts = None
    BY <1>5, <1>19, <2>1 DEF ClaudeParts
  <2>3. event.type = "idle_prompt"
    BY <1>19, <2>1 DEF AgentEvents
  <2>4. RequiredMatcher(provider, event.name) \notin {None, event.type}
    BY <1>4, <1>19, <2>1, <2>3 DEF RequiredMatcher, NeedsInput
  <2> QED BY <1>6, <2>2, <2>4
<1>20. event.name \in {"PermissionRequest", "Stop", "SessionStart", "SubagentStop", "PreToolUse",
                       "PostToolUse", "StopFailure", "Interrupt", "Notification", "SessionEnd"}
  BY DEF AgentEvents, Providers
<1> QED
  BY <1>9, <1>10, <1>11, <1>12, <1>13, <1>14, <1>15, <1>16, <1>17, <1>18, <1>19, <1>20

-----------------------------------------------------------------------------
(* The status.                                                             *)

\* Two sequences, one after the other, have the elements of both.
LEMMA JoinedHaveBoth ==
  ASSUME NEW S, NEW s \in Seq(S), NEW t \in Seq(S)
  PROVE  ToSet(s) \cup ToSet(t) \subseteq ToSet(s \o t)
<1>1. PICK n \in Nat, m \in Nat :
        n = Len(s) /\ m = Len(t) /\ DOMAIN s = 1 .. n /\ DOMAIN t = 1 .. m
  OBVIOUS
<1>2. PICK both : both = s \o t
  OBVIOUS
<1>3. DOMAIN both = 1 .. n + m
  BY <1>1, <1>2
<1>4. ASSUME NEW i \in 1 .. n PROVE s[i] \in ToSet(both)
  <2>1. i \in 1 .. n + m /\ both[i] = s[i]
    BY <1>1, <1>2
  <2> QED BY <1>3, <2>1 DEF ToSet
<1>5. ASSUME NEW i \in 1 .. m PROVE t[i] \in ToSet(both)
  <2>1. n + i \in 1 .. n + m /\ both[n + i] = t[i]
    BY <1>1, <1>2
  <2> QED BY <1>3, <2>1 DEF ToSet
<1>6. ToSet(s) = {s[i] : i \in 1 .. n} /\ ToSet(t) = {t[i] : i \in 1 .. m}
  BY <1>1 DEF ToSet
<1> QED BY <1>2, <1>4, <1>5, <1>6

\* The scopes of all providers are those of each.
LEMMA PlacesAreOfProviders ==
  ASSUME NEW provider \in Providers
  PROVE  \A p \in ToSet(PlacesOf(provider)) : p \in Places /\ p[1] = provider
<1>1. PlacesOf("claude") = << <<"claude", "user">>, <<"claude", "project">>, <<"claude", "local">> >>
  BY DEF PlacesOf, Scopes
<1>2. PlacesOf("codex") = << <<"codex", "user">>, <<"codex", "project">> >>
  BY DEF PlacesOf, Scopes
<1>3. PICK S : S = Providers \X {"user", "project", "local"}
  OBVIOUS
<1>4. PlacesOf("claude") \in Seq(S)
  <2>1. PICK a \in S, b \in S, c \in S :
          a = <<"claude", "user">> /\ b = <<"claude", "project">> /\ c = <<"claude", "local">>
    BY <1>3 DEF Providers
  <2>2. <<a, b, c>> \in Seq(S)
    OBVIOUS
  <2> QED BY <1>1, <2>1, <2>2
<1>5. PlacesOf("codex") \in Seq(S)
  <2>1. PICK a \in S, b \in S : a = <<"codex", "user">> /\ b = <<"codex", "project">>
    BY <1>3 DEF Providers
  <2>2. <<a, b>> \in Seq(S)
    OBVIOUS
  <2> QED BY <1>2, <2>1, <2>2
<1>6. ToSet(PlacesOf("claude")) \cup ToSet(PlacesOf("codex")) \subseteq Places
  BY <1>4, <1>5, JoinedHaveBoth DEF Places
<1>7. ToSet(PlacesOf("claude")) =
      {<<"claude", "user">>, <<"claude", "project">>, <<"claude", "local">>}
  BY <1>1 DEF ToSet
<1>8. ToSet(PlacesOf("codex")) = {<<"codex", "user">>, <<"codex", "project">>}
  BY <1>2 DEF ToSet
<1> QED BY <1>6, <1>7, <1>8 DEF Providers

\* What is in sync tells of each event that is wanted, once, and of no other.
LEMMA InSyncTells ==
  ASSUME NEW doc, IsSettings(doc), NEW provider \in Providers, NEW policy,
         InSync(doc, provider, policy), ~Doubled(doc), NEW event \in AgentEvents(provider)
  PROVE  Cardinality(Runs(doc, event)) =
           IF Normalized(provider, event, policy) # None THEN 1 ELSE 0
<1>1. PICK owned : owned = OwnedRecords(doc)
  OBVIOUS
<1>2. PICK wanted : wanted = Desired(provider, policy)
  OBVIOUS
<1>3. IsFiniteSet(owned) /\ IsFiniteSet(wanted)
  BY <1>1, <1>2, RecordsAreFinite, DesiredIsFinite
<1>4. /\ Cardinality(owned) = Cardinality(wanted)
      /\ \A r \in owned : /\ r.handler = Own /\ r.name \in wanted
                          /\ r.matcher = RequiredMatcher(provider, r.name)
  BY <1>1, <1>2 DEF InSync
<1>5. \A r, s \in owned : r.name = s.name => r = s
  BY <1>1 DEF Doubled
<1>6. ASSUME NEW n \in wanted PROVE \E r \in owned : r.name = n
  <2>1. PICK f : f = [r \in owned |-> r.name]
    OBVIOUS
  <2>2. f \in Injection(owned, wanted)
    BY <1>4, <1>5, <2>1 DEF Injection, IsInjective
  <2>3. f \in Surjection(owned, wanted)
    BY <1>3, <1>4, <2>2, FS_Injection
  <2> QED BY <2>1, <2>3 DEF Surjection
<1>7. PICK runs : runs = Runs(doc, event)
  OBVIOUS
<1>8. \A r : r \in runs <=> r \in owned /\ r.name = event.name /\ r.matcher \in {None, event.type}
  BY <1>1, <1>4, <1>7 DEF Runs, OwnedRecords, Owned
<1>9. CASE Normalized(provider, event, policy) # None
  <2>1. /\ event.name \in wanted
        /\ RequiredMatcher(provider, event.name) \in {None, event.type}
    BY <1>2, <1>9, EventsAreHooked
  <2>2. PICK r \in owned : r.name = event.name
    BY <1>6, <2>1
  <2>3. runs = {r}
    BY <1>4, <1>5, <1>8, <2>1, <2>2
  <2>4. Cardinality({r}) = 1
    BY FS_Singleton
  <2> QED BY <1>7, <1>9, <2>3, <2>4
<1>10. CASE ~(Normalized(provider, event, policy) # None)
  <2>1. ~(/\ event.name \in wanted
          /\ RequiredMatcher(provider, event.name) \in {None, event.type})
    BY <1>2, <1>10, EventsAreHooked
  <2>2. runs = {}
    BY <1>4, <1>8, <2>1
  <2> QED BY <1>7, <1>10, <2>2, FS_EmptySet
<1> QED BY <1>9, <1>10

\* What is not installed tells of nothing.
LEMMA NotInstalledTellsNothing ==
  ASSUME NEW doc, ~ContainsOwned(doc), NEW event
  PROVE  Cardinality(Runs(doc, event)) = 0
<1>1. Runs(doc, event) = {}
  BY DEF Runs, ContainsOwned, OwnedRecords, Owned
<1> QED BY <1>1, FS_EmptySet

AreSettings ==
  \A p \in Places : settings[p] \in {Missing, Broken} \/ IsSettings(settings[p])

\* `hook status` and `doctor` say what is so.
LEMMA StatusSaysWhatIs ==
  ASSUME AreSettings
  PROVE  StatusIsTrue
<1> SUFFICES ASSUME CanLoad, NEW provider \in Providers
    PROVE
      LET status    == HookStatus({provider}, Loaded.hooks)
          places    == ToSet(PlacesOf(provider))
          wanted(e) == Normalized(provider, e, Loaded.hooks[provider]) # None
          tells(p)  == [e \in AgentEvents(provider) |-> Cardinality(Runs(settings[p], e))]
      IN  /\ status # Error =>
               \A p \in places :
                 /\ status[p] = "in-sync" /\ ~Doubled(settings[p]) =>
                      \A e \in AgentEvents(provider) :
                        tells(p)[e] = IF wanted(e) THEN 1 ELSE 0
                 /\ status[p] = "not-installed" /\ settings[p] # Missing =>
                      \A e \in AgentEvents(provider) : tells(p)[e] = 0
          /\ Synchronized(provider, Loaded.hooks) =>
               \A e \in {e \in AgentEvents(provider) : wanted(e)} :
                 \E p \in places :
                   settings[p] # Missing /\ (Doubled(settings[p]) \/ tells(p)[e] = 1)
  BY DEF StatusIsTrue
<1> DEFINE places == ToSet(PlacesOf(provider))
           wanted(e) == Normalized(provider, e, Loaded.hooks[provider]) # None
           count(p, e) == Cardinality(Runs(settings[p], e))
<1>1. PICK hooks : hooks = Loaded.hooks
  OBVIOUS
<1>2. PICK status : status = HookStatus({provider}, hooks)
  OBVIOUS
<1>3. \A p \in places : p \in Places /\ p[1] = provider
  BY PlacesAreOfProviders
<1>4. UNION {ToSet(PlacesOf(q)) : q \in {provider}} = places
  OBVIOUS
<1>5. PICK each : each = [p \in places |-> Status(settings[p], p[1], hooks[p[1]])]
  OBVIOUS
<1>6. \A p \in places : each[p] = Status(settings[p], provider, hooks[provider])
  BY <1>3, <1>5
<1>7. status = IF \E p \in places : each[p] = Error THEN Error ELSE each
  BY <1>2, <1>4, <1>5 DEF HookStatus
<1>8. ASSUME NEW p \in places, each[p] # Error
      PROVE  /\ each[p] = "in-sync" =>
                  /\ settings[p] # Missing
                  /\ ~Doubled(settings[p]) =>
                       \A e \in AgentEvents(provider) :
                         count(p, e) = IF wanted(e) THEN 1 ELSE 0
             /\ each[p] = "not-installed" /\ settings[p] # Missing =>
                  \A e \in AgentEvents(provider) : count(p, e) = 0
  <2>1. PICK doc : doc = settings[p]
    OBVIOUS
  <2>2. each[p] = Status(doc, provider, hooks[provider])
    BY <1>6, <2>1
  <2>3. doc # Broken
    BY <1>8, <2>2 DEF Status
  <2>4. doc # Missing => IsSettings(doc)
    BY <1>3, <2>1, <2>3 DEF AreSettings
  <2>5. ASSUME each[p] = "in-sync" PROVE doc # Missing /\ InSync(doc, provider, hooks[provider])
    BY <2>2, <2>3, <2>5 DEF Status
  <2>6. ASSUME each[p] = "not-installed", doc # Missing PROVE ~ContainsOwned(doc)
    BY <2>2, <2>3, <2>6 DEF Status
  <2>7. ASSUME each[p] = "in-sync", ~Doubled(doc), NEW e \in AgentEvents(provider)
        PROVE  Cardinality(Runs(doc, e)) = IF wanted(e) THEN 1 ELSE 0
    BY <1>1, <2>4, <2>5, <2>7, InSyncTells
  <2>8. ASSUME each[p] = "not-installed", doc # Missing, NEW e \in AgentEvents(provider)
        PROVE  Cardinality(Runs(doc, e)) = 0
    BY <2>6, <2>8, NotInstalledTellsNothing
  <2> QED BY <2>1, <2>5, <2>7, <2>8
<1>9. ASSUME Synchronized(provider, hooks)
      PROVE  \E p \in places : each[p] = "in-sync" /\ each[p] # Error
  <2>1. PICK whole : whole = UNION {ToSet(PlacesOf(q)) : q \in Providers}
    OBVIOUS
  <2>2. places \subseteq whole
    BY <2>1
  <2>3. "in-sync" \in IF HookStatus(Providers, hooks) = Error THEN {} ELSE Range(status)
    BY <1>2, <1>9 DEF Synchronized
  <2>4. HookStatus(Providers, hooks) # Error /\ "in-sync" \in Range(status)
    BY <2>3
  <2>5. PICK all : all = [p \in whole |-> Status(settings[p], p[1], hooks[p[1]])]
    OBVIOUS
  <2>6. HookStatus(Providers, hooks) = IF \E p \in whole : all[p] = Error THEN Error ELSE all
    BY <2>1, <2>5 DEF HookStatus
  <2>7. \A p \in whole : all[p] # Error
    BY <2>4, <2>6
  <2>8. \A p \in places : each[p] # Error
    BY <1>5, <2>2, <2>5, <2>7
  <2>9. status = each
    BY <1>7, <2>8
  <2> QED BY <1>5, <2>4, <2>8, <2>9 DEF Range
<1>10. ASSUME status # Error, NEW p \in places PROVE status[p] = each[p] /\ each[p] # Error
  BY <1>7, <1>10
<1> HIDE DEF places, wanted
<1>11. ASSUME status # Error, NEW p \in places
       PROVE  /\ status[p] = "in-sync" /\ ~Doubled(settings[p]) =>
                   \A e \in AgentEvents(provider) :
                     count(p, e) = IF wanted(e) THEN 1 ELSE 0
              /\ status[p] = "not-installed" /\ settings[p] # Missing =>
                   \A e \in AgentEvents(provider) : count(p, e) = 0
  BY <1>8, <1>10, <1>11
<1>12. ASSUME Synchronized(provider, hooks), NEW e \in AgentEvents(provider), wanted(e)
       PROVE  \E p \in places :
                settings[p] # Missing /\ (Doubled(settings[p]) \/ count(p, e) = 1)
  BY <1>8, <1>9, <1>12
<1> QED BY <1>1, <1>2, <1>11, <1>12 DEF places, wanted

-----------------------------------------------------------------------------
(* The events.                                                             *)

\* What an event of an agent asks the daemon to show.
EventDraft(provider, parts, source) ==
  [key |-> <<provider, "session", parts.purpose>>,
   level |-> parts.level, priority |-> parts.priority, presentation |-> parts.presentation,
   title |-> "plain", body |-> "plain",
   timeout |-> IF parts.presentation = "attention" THEN Never ELSE 3 * Units.s,
   source |-> source, position |-> None, kind |-> parts.kind]

\* What was submitted for an event: an Attention says where the agent waits.
IsOfEvent(did) ==
  \E provider \in Providers, parts \in AgentParts, source \in Sources \cup {None} :
    /\ did = [op |-> "submit", draft |-> EventDraft(provider, parts, source)]
    /\ parts.presentation = "attention" => source \in Sources

\* The tables of the agents: a purpose is of one kind, and looks in one way.
LEMMA PartsAreTyped ==
  ASSUME NEW parts \in AgentParts
  PROVE  /\ parts.kind \in HookEvents /\ parts.purpose \in HookEvents \cup {"attention"}
         /\ parts.level \in Levels /\ parts.priority \in Priorities
         /\ parts.presentation \in {"toast", "attention"}
         /\ \A other \in AgentParts : other.purpose = parts.purpose => other = parts
BY DEF AgentParts, Attention, Failure, Done, Info, Parts, HookEvents, Levels, Priorities

\* What is submitted for an event is a draft.
LEMMA EventDraftsAreDrafts ==
  ASSUME NEW provider \in Providers, NEW parts \in AgentParts, NEW source \in Sources \cup {None}
  PROVE  /\ EventDraft(provider, parts, source) \in Drafts
         /\ EventDraft(provider, parts, source).timeout \in Nat \cup {Never}
<1>1. 3 * Units.s \in Nat
  BY SMT DEF Units
<1>2. PICK timeout \in Nat \cup {Never} :
        timeout = IF parts.presentation = "attention" THEN Never ELSE 3 * Units.s
  BY <1>1
<1>3. PICK key : key = <<provider, "session", parts.purpose>>
  OBVIOUS
<1>4. key \in Providers \X {"session"} \X (HookEvents \cup {"attention"})
  BY <1>3, PartsAreTyped
<1> QED BY <1>2, <1>3, <1>4, PartsAreTyped DEF EventDraft, Drafts, Words

\* make_draft: refused only for an Attention outside a pane.
LEMMA HookDraftIsOfEvent ==
  ASSUME NEW provider \in Providers, NEW parts \in AgentParts, NEW pane \in {None, "pane"},
         NEW draft, draft = HookDraft(provider, "session", parts, pane), draft # Error
  PROVE  \E source \in Sources \cup {None} :
           /\ draft = EventDraft(provider, parts, source)
           /\ parts.presentation = "attention" => source \in Sources /\ source # None
<1>1. PICK source : source = IF pane = None THEN None ELSE Source(pane, provider, "session")
  OBVIOUS
<1>2. source \in Sources \cup {None}
  BY <1>1 DEF Source, Sources
<1>3. DraftOK(parts.presentation, "plain", "plain", source)
  BY <1>1 DEF HookDraft
<1>4. parts.presentation = "attention" => source # None
  BY <1>3 DEF DraftOK
<1>5. PICK new : new = NewDraft(parts.presentation, "plain", "plain", source)
  OBVIOUS
<1>6. new = [key |-> None, level |-> "info", priority |-> "normal",
             presentation |-> parts.presentation, title |-> "plain", body |-> "plain",
             timeout |-> IF parts.presentation = "attention" THEN Never ELSE 3 * Units.s,
             source |-> source, position |-> None, kind |-> None]
  BY <1>5 DEF NewDraft, PlainText
<1>7. draft = [new EXCEPT !.key = <<provider, "session", parts.purpose>>,
                          !.level = parts.level, !.priority = parts.priority,
                          !.kind = parts.kind]
  BY <1>1, <1>3, <1>5 DEF HookDraft
<1>8. draft = EventDraft(provider, parts, source)
  BY <1>6, <1>7 DEF EventDraft
<1> QED BY <1>2, <1>4, <1>8

\* RuntimeHookSubmitter: the daemon reads what was made of the event.
LEMMA EventsArrive ==
  ASSUME NEW provider \in Providers, NEW parts \in AgentParts, NEW pane \in {None, "pane"},
         NEW draft, draft = HookDraft(provider, "session", parts, pane), draft # Error
  PROVE  IsOfEvent(Submitted(draft))
<1>1. PICK source \in Sources \cup {None} :
        /\ draft = EventDraft(provider, parts, source)
        /\ parts.presentation = "attention" => source \in Sources /\ source # None
  BY HookDraftIsOfEvent
<1>2. draft \in Drafts /\ draft.timeout \in Nat \cup {Never}
  BY <1>1, EventDraftsAreDrafts
<1>3. /\ draft.presentation = "attention" => draft.timeout = Never /\ draft.source # None
      /\ draft.title # "long" /\ draft.body # "long"
  BY <1>1 DEF EventDraft
<1>4. WriteDraft(draft) \in Drafts /\ ReadDraft(WriteDraft(draft)) = draft
  BY <1>2, <1>3, DraftsArrive
<1>5. PICK asks : asks = [type |-> "send", notification |-> WriteDraft(draft)]
  OBVIOUS
<1>6. asks \in Wire
  BY <1>4, <1>5 DEF Wire
<1>7. asks.type = "send" /\ asks.notification = WriteDraft(draft)
  BY <1>5
<1>8. ValidCommand(asks)
  BY <1>2, <1>4, <1>7, CommandConstants DEF ValidCommand
<1>9. Operation(asks) = [op |-> "submit", draft |-> draft]
  BY <1>4, <1>7 DEF Operation
<1>10. Submitted(draft) = [op |-> "submit", draft |-> draft]
  BY <1>5, <1>6, <1>8, <1>9, RequestsAreAsked DEF Submitted
<1> QED BY <1>1, <1>10 DEF IsOfEvent

\* Of two events with a key, one may stand for the other.
LEMMA EventsAgree ==
  ASSUME \A did \in told : IsOfEvent(did)
  PROVE  /\ KeysAgree
         /\ \A did \in told : did # Error /\ did.op = "submit" /\ did.draft.kind \in HookEvents
<1>1. ASSUME NEW did \in told
      PROVE  did # Error /\ did.op = "submit" /\ did.draft.kind \in HookEvents
  <2>1. PICK provider \in Providers, parts \in AgentParts, source \in Sources \cup {None} :
          did = [op |-> "submit", draft |-> EventDraft(provider, parts, source)]
    BY DEF IsOfEvent
  <2>2. did \in [op : {"submit"}, draft : Drafts]
    BY <2>1, EventDraftsAreDrafts
  <2>3. EventDraft(provider, parts, source).kind \in HookEvents
    BY PartsAreTyped DEF EventDraft
  <2> QED BY <2>1, <2>2, <2>3, CommandConstants
<1>2. ASSUME NEW a \in told, NEW b \in told, a.draft.key = b.draft.key
      PROVE  [a.draft EXCEPT !.source = None] = [b.draft EXCEPT !.source = None]
  <2>1. PICK p \in Providers, x \in AgentParts, s \in Sources \cup {None} :
          a = [op |-> "submit", draft |-> EventDraft(p, x, s)]
    BY DEF IsOfEvent
  <2>2. PICK q \in Providers, y \in AgentParts, t \in Sources \cup {None} :
          b = [op |-> "submit", draft |-> EventDraft(q, y, t)]
    BY DEF IsOfEvent
  <2>3. <<p, "session", x.purpose>> = <<q, "session", y.purpose>>
    BY <1>2, <2>1, <2>2 DEF EventDraft
  <2>4. p = q /\ x = y
    BY <2>3, PartsAreTyped
  <2>5. \A u : [EventDraft(p, x, u) EXCEPT !.source = None] = EventDraft(p, x, None)
    BY DEF EventDraft
  <2> QED BY <2>1, <2>2, <2>4, <2>5
<1>3. ASSUME NEW a \in told, a.draft.presentation = "attention"
      PROVE  a.draft.timeout = Never /\ a.draft.source.pane # None
  <2>1. PICK p \in Providers, x \in AgentParts, s \in Sources \cup {None} :
          /\ a = [op |-> "submit", draft |-> EventDraft(p, x, s)]
          /\ x.presentation = "attention" => s \in Sources
    BY DEF IsOfEvent
  <2>2. x.presentation = "attention"
    BY <1>3, <2>1 DEF EventDraft
  <2>3. s.pane = "pane" /\ None # "pane"
    BY <2>1, <2>2, CommandConstants DEF Sources
  <2> QED BY <2>1, <2>2, <2>3 DEF EventDraft
<1> QED BY <1>1, <1>2, <1>3 DEF KeysAgree

-----------------------------------------------------------------------------
(* The steps of commands, agents and users.                                *)

\* What a command starts from, and what it wants there.
Base(doc) == IF doc = Missing THEN Empty ELSE doc

Wanted(cmd) ==
  LET provider == Head(cmd.work)[1]
  IN  IF cmd.op = "remove" THEN {} ELSE Desired(provider, cmd.hooks[provider])

\* A command under way has places to go to, and what it is about to write was
\* made of what it read.
IsCommand(cmd) ==
  /\ DOMAIN cmd = DOMAIN NoCommand
  /\ cmd.pc \in {"idle", "read", "backup", "replace"}
  /\ cmd.pc # "idle" => cmd.work \in Seq(Places) /\ cmd.work # <<>>
  /\ cmd.pc \in {"backup", "replace"} =>
       /\ IsSettings(Base(cmd.original)) /\ (Base(cmd.original).odd => Wanted(cmd) = {})
       /\ cmd.rendered = Reconciled(Base(cmd.original), Head(cmd.work)[1], Wanted(cmd))

HookInv ==
  /\ DOMAIN settings = Places /\ AreSettings
  /\ DOMAIN command = Commands /\ \A c \in Commands : IsCommand(command[c])
  /\ \A x \in firing : x.provider \in Providers
  /\ \A did \in told : IsOfEvent(did)

\* The file that a command makes of none.
LEMMA EmptyIsSettings == IsSettings(Empty) /\ ~Empty.odd
BY FS_EmptySet DEF IsSettings, Empty

\* A command wants finitely many events.
LEMMA WantedIsFinite ==
  ASSUME NEW cmd
  PROVE  IsFiniteSet(Wanted(cmd))
BY DesiredIsFinite, FS_EmptySet DEF Wanted

\* What a command is about to write.
LEMMA RenderedIsSettings ==
  ASSUME NEW cmd, IsCommand(cmd), cmd.pc = "replace"
  PROVE  /\ IsSettings(cmd.rendered) /\ Others(cmd.rendered) = Others(Base(cmd.original))
         /\ IsExactly(cmd.rendered, Head(cmd.work)[1], Wanted(cmd))
BY ReconciledIsExact, WantedIsFinite DEF IsCommand

\* A command that does nothing.
LEMMA IdleIsCommand == IsCommand(NoCommand)
BY DEF IsCommand, NoCommand

\* A command that changes leaves the others as they are.
LEMMA CommandChanged ==
  ASSUME HookInv, NEW c \in Commands, NEW new, IsCommand(new),
         command' = [command EXCEPT ![c] = new]
  PROVE  DOMAIN command' = Commands /\ \A d \in Commands : IsCommand(command'[d])
BY DEF HookInv

\* A command that is done with a place goes on to the next, if there is one.
LEMMA NextPlaceKept ==
  ASSUME HookInv, NEW c \in Commands, command[c].pc # "idle", NextPlace(c)
  PROVE  DOMAIN command' = Commands /\ \A d \in Commands : IsCommand(command'[d])
<1>1. PICK cmd : cmd = command[c]
  OBVIOUS
<1>2. IsCommand(cmd) /\ cmd.work \in Seq(Places) /\ cmd.work # <<>>
  BY <1>1 DEF HookInv, IsCommand
<1>3. CASE Len(cmd.work) = 1
  BY <1>1, <1>3, IdleIsCommand, CommandChanged DEF NextPlace, Ended
<1>4. CASE Len(cmd.work) # 1
  <2>1. PICK new : new = [cmd EXCEPT !.pc = "read", !.work = Tail(@),
                                     !.original = None, !.rendered = None]
    OBVIOUS
  <2>2. Tail(cmd.work) \in Seq(Places) /\ Tail(cmd.work) # <<>>
    <3>1. PICK work \in Seq(Places) : work = cmd.work /\ work # <<>> /\ Len(work) # 1
      BY <1>2, <1>4
    <3>2. Tail(work) \in Seq(Places) /\ Len(Tail(work)) = Len(work) - 1
      BY <3>1, HeadTailProperties
    <3>3. Len(work) \in Nat /\ Len(work) # 0
      BY <3>1
    <3>4. Len(Tail(work)) # 0
      BY <3>1, <3>2, <3>3
    <3> QED BY <3>1, <3>2, <3>4
  <2>3. DOMAIN new = DOMAIN NoCommand /\ new.pc = "read" /\ new.work = Tail(cmd.work)
    BY <1>2, <2>1 DEF IsCommand, NoCommand
  <2>4. IsCommand(new)
    BY <2>2, <2>3 DEF IsCommand
  <2>5. command' = [command EXCEPT ![c] = new]
    BY <1>1, <1>4, <2>1 DEF NextPlace, HookInv
  <2> QED BY <2>4, <2>5, CommandChanged
<1> QED BY <1>3, <1>4

\* A command starts with the places of its request.
LEMMA BeginKeepsHooks ==
  ASSUME HookInv, NEW c \in Commands, NEW request \in Requests, Begin(c, request)
  PROVE  HookInv'
<1>1. PICK new :
        new = [NoCommand EXCEPT !.pc = "read", !.op = request.op, !.work = request.work,
                                !.allow = request.allow, !.hooks = Loaded.hooks]
  OBVIOUS
<1>2. DOMAIN new = DOMAIN NoCommand /\ new.pc = "read" /\ new.work = request.work
  BY <1>1 DEF NoCommand
<1>3. IsCommand(new)
  BY <1>2, HookConstants DEF IsCommand
<1>4. command' = [command EXCEPT ![c] = new]
  BY <1>1 DEF Begin
<1>5. DOMAIN command' = Commands /\ \A d \in Commands : IsCommand(command'[d])
  BY <1>3, <1>4, CommandChanged
<1> QED BY <1>5 DEF Begin, HookInv, AreSettings

\* A command that writes has read a document whose `hooks` it can change, or none.
LEMMA ReadKeepsHooks ==
  ASSUME HookInv, NEW c \in Commands, Read(c)
  PROVE  HookInv'
<1>1. PICK cmd : cmd = command[c]
  OBVIOUS
<1>2. IsCommand(cmd) /\ cmd.pc = "read"
  BY <1>1 DEF HookInv, Read
<1>3. PICK place \in Places : place = Head(cmd.work)
  BY <1>2 DEF IsCommand
<1>4. PICK doc : doc = settings[place]
  OBVIOUS
<1>5. PICK outcome : outcome = Outcome(cmd.op, place, cmd.hooks[place[1]], cmd.allow, doc)
  OBVIOUS
<1>6. PICK desired :
        desired = IF cmd.op = "remove" THEN {} ELSE Desired(place[1], cmd.hooks[place[1]])
  OBVIOUS
<1>7. desired = Wanted(cmd)
  BY <1>3, <1>6 DEF Wanted
<1>8. PICK new : new = [cmd EXCEPT !.pc = IF doc = Missing THEN "replace" ELSE "backup",
                                   !.original = doc,
                                   !.rendered = Reconciled(Base(doc), place[1], desired)]
  OBVIOUS
<1>9. outcome \in {"error", "unchanged", "write"}
  BY <1>5 DEF Outcome
<1>10. DOMAIN command' = Commands /\ \A d \in Commands : IsCommand(command'[d])
  <2>1. CASE outcome = "error"
    <3>1. command' = [command EXCEPT ![c] = NoCommand]
      BY <1>1, <1>3, <1>4, <1>5, <2>1 DEF Read, Ended
    <3> QED BY <3>1, IdleIsCommand, CommandChanged
  <2>2. CASE outcome = "unchanged"
    <3>1. NextPlace(c)
      BY <1>1, <1>3, <1>4, <1>5, <2>2 DEF Read
    <3> QED BY <1>1, <1>2, <3>1, NextPlaceKept
  <2>3. CASE outcome = "write"
    <3>1. command' = [command EXCEPT ![c] = new]
      BY <1>1, <1>3, <1>4, <1>5, <1>6, <1>8, <2>3 DEF Read, Base, HookInv
    <3>2. /\ DOMAIN new = DOMAIN NoCommand /\ new.pc \in {"replace", "backup"}
          /\ new.original = doc /\ new.rendered = Reconciled(Base(doc), place[1], desired)
          /\ new.work = cmd.work /\ new.op = cmd.op /\ new.hooks = cmd.hooks
      BY <1>2, <1>8 DEF IsCommand, NoCommand
    <3>3. Wanted(new) = desired
      BY <1>7, <3>2 DEF Wanted
    <3>4. doc # Broken
      BY <1>5, <2>3 DEF Outcome
    <3>5. IsSettings(Base(doc))
      BY <1>4, <3>4, EmptyIsSettings DEF HookInv, AreSettings, Base
    <3>6. Base(doc).odd => desired = {}
      BY <1>5, <1>6, <2>3 DEF Outcome, Base
    <3>7. IsCommand(new)
      BY <1>2, <1>3, <3>2, <3>3, <3>5, <3>6 DEF IsCommand
    <3> QED BY <3>1, <3>7, CommandChanged
  <2> QED BY <1>9, <2>1, <2>2, <2>3
<1> QED BY <1>10 DEF Read, HookInv, AreSettings

\* The backup is made beside the settings.
LEMMA BackupKeepsHooks ==
  ASSUME HookInv, NEW c \in Commands, Backup(c)
  PROVE  HookInv'
<1>1. PICK cmd : cmd = command[c]
  OBVIOUS
<1>2. IsCommand(cmd) /\ cmd.pc = "backup"
  BY <1>1 DEF HookInv, Backup
<1>3. PICK new : new = [cmd EXCEPT !.pc = "replace"]
  OBVIOUS
<1>4. /\ DOMAIN new = DOMAIN NoCommand /\ new.pc = "replace"
      /\ new.original = cmd.original /\ new.rendered = cmd.rendered
      /\ new.work = cmd.work /\ new.op = cmd.op /\ new.hooks = cmd.hooks
  BY <1>2, <1>3 DEF IsCommand, NoCommand
<1>5. Wanted(new) = Wanted(cmd)
  BY <1>4 DEF Wanted
<1>6. IsCommand(new)
  BY <1>2, <1>4, <1>5 DEF IsCommand
<1>7. command' = [command EXCEPT ![c] = new]
  BY <1>1, <1>3 DEF Backup, HookInv
<1>8. DOMAIN command' = Commands /\ \A d \in Commands : IsCommand(command'[d])
  BY <1>6, <1>7, CommandChanged
<1> QED BY <1>8 DEF Backup, HookInv, AreSettings

\* Where a command replaces a file, its own document is then.
LEMMA ReplaceWrites ==
  ASSUME HookInv, NEW c \in Commands, Replace(c)
  PROVE  /\ settings'[Head(command[c].work)] = command[c].rendered
         /\ HookInv'
<1>1. PICK cmd : cmd = command[c]
  OBVIOUS
<1>2. IsCommand(cmd) /\ cmd.pc = "replace"
  BY <1>1 DEF HookInv, Replace
<1>3. PICK place \in Places : place = Head(cmd.work)
  BY <1>2 DEF IsCommand
<1>4. settings' = [settings EXCEPT ![place] = cmd.rendered]
  BY <1>1, <1>3 DEF Replace
<1>5. IsSettings(cmd.rendered)
  BY <1>2, RenderedIsSettings
<1>6. DOMAIN settings' = Places /\ settings'[place] = cmd.rendered
  BY <1>4 DEF HookInv
<1>7. AreSettings'
  BY <1>4, <1>5, <1>6 DEF HookInv, AreSettings
<1>8. DOMAIN command' = Commands /\ \A d \in Commands : IsCommand(command'[d])
  BY <1>1, <1>2, NextPlaceKept DEF Replace
<1>9. HookInv'
  BY <1>6, <1>7, <1>8 DEF Replace, HookInv
<1> QED BY <1>1, <1>3, <1>6, <1>9

\* A command that is killed leaves the files.
LEMMA DieKeepsHooks ==
  ASSUME HookInv, NEW c \in Commands, Die(c)
  PROVE  HookInv'
<1>1. DOMAIN command' = Commands /\ \A d \in Commands : IsCommand(command'[d])
  BY IdleIsCommand, CommandChanged DEF Die, Ended
<1> QED BY <1>1 DEF Die, HookInv, AreSettings

\* What others make of a settings file.
LEMMA AddedIsSettings ==
  ASSUME NEW doc, doc \in {Missing, Broken} \/ IsSettings(doc), doc # Odd,
         NEW name, NEW handler \in Foreign \cup Owned
  PROVE  IsSettings(Added(doc, name, handler))
<1>1. PICK old : old = IF IsDocument(doc) THEN doc ELSE Empty
  OBVIOUS
<1>2. PICK group : group = [matcher |-> None, handlers |-> <<handler>>]
  OBVIOUS
<1>3. IsSettings(old) /\ old # Odd
  <2>1. Odd.odd
    BY DEF Odd
  <2>2. Empty # Odd
    BY <2>1, EmptyIsSettings
  <2> QED BY <1>1, <2>2, EmptyIsSettings DEF IsDocument
<1>4. ~old.odd
  <2>1. ASSUME old.odd PROVE FALSE
    <3>1. PICK odd \in BOOLEAN : odd = old.odd
      BY <1>3 DEF IsSettings
    <3>2. odd = TRUE
      BY <2>1, <3>1
    <3>3. old = [odd |-> TRUE, groups |-> Empty.groups]
      BY <1>3, <2>1, <3>1, <3>2 DEF IsSettings
    <3> QED BY <1>3, <3>3 DEF Odd
  <2> QED BY <2>1
<1>5. group \in Group
  BY <1>2 DEF Group
<1> DEFINE more(n) == IF n # name THEN old.groups[n]
                      ELSE IF n \notin DOMAIN old.groups THEN <<group>>
                      ELSE [old.groups[n] EXCEPT ![1].handlers = Append(@, handler)]
           names == DOMAIN old.groups \cup {name}
<1>6. ASSUME NEW n \in names PROVE more(n) \in Seq(Group)
  <2>1. CASE n # name
    BY <1>3, <2>1 DEF IsSettings
  <2>2. CASE n = name /\ n \notin DOMAIN old.groups
    BY <1>5, <2>2
  <2>3. CASE n = name /\ n \in DOMAIN old.groups
    <3>1. PICK groups \in Seq(Group) : groups = old.groups[n]
      BY <1>3, <2>3 DEF IsSettings
    <3>2. PICK k \in Nat : DOMAIN groups = 1 .. k /\ \A i \in 1 .. k : groups[i] \in Group
      BY <3>1
    <3>3. PICK new : new = [groups[1] EXCEPT !.handlers = Append(groups[1].handlers, handler)]
      OBVIOUS
    <3>4. ASSUME 1 \in 1 .. k PROVE new \in Group
      <4>1. PICK handlers \in Seq(Foreign \cup Owned) : handlers = groups[1].handlers
        BY <3>2, <3>4 DEF Group
      <4>2. Append(handlers, handler) \in Seq(Foreign \cup Owned)
        OBVIOUS
      <4> QED BY <3>2, <3>3, <3>4, <4>1, <4>2 DEF Group
    <3>5. PICK all : all = [groups EXCEPT ![1] = new]
      OBVIOUS
    <3>6. more(n) = all
      BY <2>3, <3>1, <3>3, <3>5
    <3>7. all = [i \in 1 .. k |-> IF i = 1 THEN new ELSE groups[i]]
      BY <3>2, <3>5
    <3>8. all \in Seq(Group)
      BY <3>2, <3>4, <3>7
    <3> HIDE DEF more
    <3> QED BY <3>6, <3>8
  <2> QED BY <2>1, <2>2, <2>3
<1>7. Added(doc, name, handler) = [old EXCEPT !.groups = [n \in names |-> more(n)]]
  BY <1>1, <1>2 DEF Added
<1> HIDE DEF more
<1>8. PICK groups : groups = [n \in names |-> more(n)]
  OBVIOUS
<1>9. groups \in [names -> Seq(Group)]
  BY <1>6, <1>8
<1>10. IsFiniteSet(names)
  BY <1>3, FS_AddElement DEF IsSettings
<1> HIDE DEF names
<1>11. PICK new : new = [old EXCEPT !.groups = groups]
  OBVIOUS
<1>12. new = [odd |-> FALSE, groups |-> groups]
  BY <1>3, <1>4, <1>11 DEF IsSettings
<1>13. IsSettings(new)
  BY <1>9, <1>10, <1>12 DEF IsSettings
<1> QED BY <1>7, <1>8, <1>11, <1>13

\* Whoever edits a file leaves settings, or none that can be read.
LEMMA EditKeepsHooks ==
  ASSUME HookInv, NEW place \in Places, NEW doc,
         doc \in {Missing, Broken} \/ IsSettings(doc), EditSettings(place, doc)
  PROVE  HookInv'
<1>1. settings' = [settings EXCEPT ![place] = doc]
  BY DEF EditSettings
<1>2. DOMAIN settings' = Places /\ AreSettings'
  BY <1>1 DEF HookInv, AreSettings
<1> QED BY <1>2 DEF EditSettings, HookInv

\* An agent fires an event of its provider.
LEMMA FireKeepsHooks ==
  ASSUME HookInv, NEW report \in Reports, Fire(report[1], report[2])
  PROVE  HookInv'
<1>1. report[1] \in Providers
  BY HookConstants
<1>2. \A x \in firing' : x \in firing \/ x.provider = report[1]
  BY DEF Fire
<1> QED BY <1>1, <1>2 DEF Fire, HookInv, AreSettings

\* What is told of an event is what the event says.
LEMMA ReceiveKeepsHooks ==
  ASSUME HookInv, NEW x \in firing, NEW pane \in {None, "pane"}, Receive(x, pane)
  PROVE  HookInv'
<1>1. PICK parts :
        parts = IF CanLoad THEN Normalized(x.provider, x.event, Loaded.hooks[x.provider]) ELSE None
  OBVIOUS
<1>2. PICK draft : draft = IF parts = None THEN Error
                           ELSE HookDraft(x.provider, "session", parts, pane)
  OBVIOUS
<1>3. PICK sent : sent = IF draft = Error THEN {} ELSE {Submitted(draft)}
  OBVIOUS
<1>4. told' \in {told, told \cup sent} /\ firing' = firing \ {x}
  BY <1>1, <1>2, <1>3 DEF Receive
<1>5. ASSUME draft # Error PROVE IsOfEvent(Submitted(draft))
  <2>1. x.provider \in Providers
    BY DEF HookInv
  <2>2. parts # None
    BY <1>2, <1>5
  <2>3. parts \in AgentParts
    BY <1>1, <2>1, <2>2, PartsAreOfAgents
  <2> QED BY <1>2, <1>5, <2>1, <2>2, <2>3, EventsArrive
<1>6. \A did \in told' : IsOfEvent(did)
  BY <1>3, <1>4, <1>5 DEF HookInv
<1> QED BY <1>4, <1>6 DEF Receive, HookInv, AreSettings

\* A document of a shape that is refused.
LEMMA OddIsSettings == IsSettings(Odd)
<1>1. PICK groups : groups = Empty.groups
  OBVIOUS
<1>2. groups \in [{} -> Seq(Group)] /\ DOMAIN groups = {}
  BY <1>1 DEF Empty
<1>3. Odd = [odd |-> TRUE, groups |-> groups]
  BY <1>1 DEF Odd
<1> QED BY <1>1, <1>2, <1>3, FS_EmptySet DEF IsSettings

\* Every step keeps what the hooks' proofs rest on.
LEMMA HooksKept ==
  ASSUME HookInv, [ClientNext]_<<settingsVars, asked>>
  PROVE  HookInv'
<1>1. CASE UNCHANGED hookVars
  BY <1>1 DEF hookVars, HookInv, AreSettings
<1>2. CASE HookNext
  <2>1. ASSUME NEW c \in Commands,
               (\E request \in Requests : Begin(c, request))
                 \/ Read(c) \/ Backup(c) \/ Replace(c) \/ Die(c)
        PROVE  HookInv'
    BY <2>1, BeginKeepsHooks, ReadKeepsHooks, BackupKeepsHooks, ReplaceWrites, DieKeepsHooks
  <2>2. ASSUME NEW p \in EditedPlaces, NEW doc \in {Missing, Broken, Odd}, EditSettings(p, doc)
        PROVE  HookInv'
    BY <2>2, OddIsSettings, EditKeepsHooks, HookConstants
  <2>3. ASSUME NEW p \in EditedPlaces, NEW h \in Foreign \cup Owned, NEW n \in EditedEvents,
               settings[p] \notin {Broken, Odd}, EditSettings(p, Added(settings[p], n, h))
        PROVE  HookInv'
    <3>1. p \in Places
      BY HookConstants
    <3>2. IsSettings(Added(settings[p], n, h))
      BY <2>3, <3>1, AddedIsSettings DEF HookInv, AreSettings
    <3> QED BY <2>3, <3>1, <3>2, EditKeepsHooks
  <2> QED BY <1>2, <2>1, <2>2, <2>3, FireKeepsHooks, ReceiveKeepsHooks DEF HookNext
<1> QED BY <1>1, <1>2 DEF ClientNext, SettingsNext, Submit, Browse, settingsVars

\* At the start there are no settings, no commands and no events.
LEMMA HooksStart ==
  ASSUME HookInit
  PROVE  HookInv
BY IdleIsCommand DEF HookInit, HookInv, AreSettings

\* What the invariant says of events, commands and the status.
LEMMA EventsAreTrue ==
  ASSUME HookInv
  PROVE  EventsAreTold
<1>1. ASSUME NEW p \in Places, IsDocument(settings[p]), settings[p].odd
      PROVE  settings[p].groups = Empty.groups
  BY <1>1 DEF HookInv, AreSettings, IsDocument, IsSettings
<1>2. ASSUME NEW c \in Commands, command[c].pc # "idle"
      PROVE  command[c].work # <<>> /\ ToSet(command[c].work) \subseteq Places
  <2>1. PICK work \in Seq(Places) : work = command[c].work /\ work # <<>>
    BY <1>2 DEF HookInv, IsCommand
  <2>2. ToSet(work) \subseteq Places
    BY DEF ToSet
  <2> QED BY <2>1, <2>2
<1>3. HookTypeOK /\ KeysAgree
  BY <1>1, <1>2, EventsAgree DEF HookTypeOK, HookInv
<1>4. StatusIsTrue
  BY StatusSaysWhatIs DEF HookInv
<1> QED BY <1>3, <1>4 DEF EventsAreTold

\* Whatever commands, users and agents do: what `hook status` and `doctor` say of
\* a settings file is so, of each event that the configuration asks for, unless
\* somebody doubled a handler; and a key tells the kinds of events apart.
\* The tables of src/providers and src/hooks.rs, status_with_config, make_draft.
THEOREM EventsStayTold == ClientSpec => []EventsAreTold
<1>1. ClientInit => HookInv
  BY HooksStart DEF ClientInit, SettingsInit
<1>2. HookInv /\ [ClientNext]_<<settingsVars, asked>> => HookInv'
  BY HooksKept
<1>3. HookInv => EventsAreTold
  BY EventsAreTrue
<1> QED BY <1>1, <1>2, <1>3, PTL DEF ClientSpec

\* A command that replaces a file writes what it rendered, whatever is there.
LEMMA ReplacedIsExact ==
  ASSUME HookInv, [ClientNext]_<<settingsVars, asked>>, NEW c \in Commands,
         command[c].pc = "replace", command'[c] # command[c], settings' # settings
  PROVE  /\ settings'[Head(command[c].work)] = command[c].rendered
         /\ IsCommand(command[c])
<1>1. Replace(c)
  <2>1. HookNext
    BY DEF ClientNext, SettingsNext, Submit, Browse, settingsVars, hookVars
  <2>2. ASSUME NEW d \in Commands,
               (\E request \in Requests : Begin(d, request))
                 \/ Read(d) \/ Backup(d) \/ Replace(d) \/ Die(d)
        PROVE  Replace(c)
    <3>1. Replace(d)
      BY <2>2 DEF Begin, Read, Backup, Die
    <3>2. \A e \in Commands : e # d => command'[e] = command[e]
      BY <3>1 DEF Replace, NextPlace, Ended, HookInv
    <3> QED BY <3>1, <3>2
  <2>3. ASSUME UNCHANGED command PROVE FALSE
    BY <2>3
  <2> QED BY <2>1, <2>2, <2>3 DEF HookNext, EditSettings, Fire, Receive
<1> QED BY <1>1, ReplaceWrites DEF HookInv

\* `hook install`, `remove` and `sync` leave the handlers of others as they were
\* read, and of their own exactly those that the configuration asks for, however
\* many commands run at once, whoever edits the files, and wherever a command
\* is killed: reconcile_value and atomic_replace of src/hooks.rs.
THEOREM CommandsStayExact == ClientSpec => CommandsAreExact
<1>1. ASSUME HookInv, [ClientNext]_<<settingsVars, asked>>, NEW c \in Commands
      PROVE  ReplacesExactly(c)
  <2>1. PICK cmd : cmd = command[c]
    OBVIOUS
  <2>2. PICK new : new = settings'[Head(cmd.work)]
    OBVIOUS
  <2>3. ASSUME cmd.pc = "replace", command'[c] # cmd, settings' # settings
        PROVE  /\ Others(new) = Others(Base(cmd.original))
               /\ IsExactly(new, Head(cmd.work)[1], Wanted(cmd))
    <3>1. new = cmd.rendered /\ IsCommand(cmd)
      BY <1>1, <2>1, <2>2, <2>3, ReplacedIsExact
    <3> QED BY <2>3, <3>1, RenderedIsSettings
  <2> QED BY <2>1, <2>2, <2>3 DEF ReplacesExactly, IsExactly, Wanted, Base
<1>2. HookInv /\ [ClientNext]_<<settingsVars, asked>> =>
        [\A c \in Commands : ReplacesExactly(c)]_settingsVars
  BY <1>1
<1>3. ClientInit => HookInv
  BY HooksStart DEF ClientInit, SettingsInit
<1>4. HookInv /\ [ClientNext]_<<settingsVars, asked>> => HookInv'
  BY HooksKept
<1> QED BY <1>2, <1>3, <1>4, PTL DEF ClientSpec, CommandsAreExact

=============================================================================
