--------------------------- MODULE RequestServer ---------------------------
(***************************************************************************)
(* serve_inner, connection_loop and process_frame of src/daemon/runtime.rs *)
(* with the RequestResultCache of src/protocol.rs: the connections of the  *)
(* daemon's socket, the requests that run at the same time, the results    *)
(* kept for a retry, and the shutdown.  Whoever connects may send any      *)
(* frame, and the same one again, here or on another connection.           *)
(*                                                                         *)
(* A frame is known by its place in `frames`, in the order of the reads,   *)
(* and once it is decided nothing else of it is kept.  The result of a     *)
(* request is the request whose handler made it.  Reading a part of a      *)
(* frame changes nothing but a buffer and is left out.  Peers read what    *)
(* they are sent.                                                          *)
(* Fault marks a plausible slip, as in Scheduler.                          *)
(***************************************************************************)
EXTENDS Integers, Sequences, FiniteSets, Functions, SequencesExt

CONSTANTS
  Conns,          \* the connections that peers make
  Ids,            \* request IDs
  Payloads,       \* the requests, but for their ID
  StripeOf,       \* idempotency lock of each ID
  Large,          \* the payloads whose response exceeds MAX_REQUEST_BYTES
  MaxConnections, MaxInflight, MaxInflightPerConnection,  \* RuntimeLimits
  CacheCapacity, CacheTtl,  \* REQUEST_CACHE_CAPACITY, REQUEST_CACHE_TTL
  MaxFrames,      \* bound on the frames read
  MaxClock,       \* bound on the clock
  None

\* A frame without a request: it is no JSON object with a version, an ID and a
\* type that are known, or it is a renderer's credential.
Odd == {"malformed", "redeem"}

ASSUME ServerConstants ==
  /\ Large \subseteq Payloads
  /\ {MaxConnections, MaxInflight, MaxInflightPerConnection, CacheCapacity,
      CacheTtl} \subseteq Nat \ {0}
  /\ {MaxFrames, MaxClock} \subseteq Nat
  /\ Payloads \cap Odd = {}
  /\ None \notin Ids

VARIABLES
  conn,    \* connection_loop of each connection: where it is, and first_frame
  frames,  \* the frames in the order they were read: what became of each,
           \* when its handler began and with which result it is answered
  cache,   \* RequestResultCache
  phase,   \* where serve_inner is
  clock,
  memory   \* history: per ID, when its result was last used, and the IDs
           \* whose results were used since

vars == <<conn, frames, cache, phase, clock, memory>>

\* `order`, the queue of IDs, is the set of pairs of one and a later one.
NoResults == [entries |-> [i \in {} |-> None], order |-> {}]

Init ==
  /\ conn = [c \in Conns |-> [pc |-> "none", first |-> TRUE]]
  /\ frames = <<>>
  /\ cache = NoResults
  /\ phase = "serving"
  /\ clock = 0
  /\ memory = [i \in {} |-> None]

At(c, pc) == conn[c].pc = pc

Frames == DOMAIN frames

\* The frames of connection c in one of these states.
Of(c, states) == {n \in Frames : frames[n].conn = c /\ frames[n].pc \in states}

\* A spawned task is waiting for its stripe, in the handler, or about to answer.
TaskStates == {"stripe", "handler", "replying"}

Step(n, pc) == frames' = [frames EXCEPT ![n].pc = pc]

\* Frames that are decided.
Ends == {"replied", "silent", "lost", "aborted"}

Is(n, states) == n \in Frames /\ frames[n].pc \in states

Decided(pc) == [conn |-> None, id |-> None, payload |-> None, pc |-> pc,
                at |-> 0, result |-> None]

\* The frames of S come to this end.
Decide(S, pc) == [n \in Frames |-> IF n \in S THEN Decided(pc) ELSE frames[n]]

-----------------------------------------------------------------------------
(* RequestResultCache.                                                     *)

With(f, i, x) == [j \in DOMAIN f \cup {i} |-> IF j = i THEN x ELSE f[j]]

\* touch: the ID goes behind all others.
Touched(k, i) ==
  {p \in k.order : p[1] # i /\ p[2] # i} \cup ((DOMAIN k.entries \ {i}) \X {i})

Before(k, i) == {j \in DOMAIN k.entries : <<j, i>> \in k.order}

Kept(k, ids) ==
  [entries |-> Restrict(k.entries, ids), order |-> k.order \cap (ids \X ids)]

\* expire: entries are dropped from the front up to the first young one.
Outdated(k, now) ==
  {i \in DOMAIN k.entries :
     \A j \in Before(k, i) \cup {i} : now - k.entries[j].at >= CacheTtl}

Expired(k, now) == Kept(k, DOMAIN k.entries \ Outdated(k, now))

\* Fault: a retry is known by its ID alone.
LookupById(k, i, p) == IF i \in DOMAIN k.entries THEN "replay" ELSE "miss"

\* lookup, after it has expired what is old.
Lookup(k, i, p) ==
  IF i \notin DOMAIN k.entries THEN "miss"
  ELSE IF k.entries[i].payload # p THEN "mismatch" ELSE "replay"

Replayed(k, i, now) ==
  [entries |-> [k.entries EXCEPT ![i].at = now], order |-> Touched(k, i)]

\* insert: what was used least recently goes when there are too many.
Inserted(k, i, e) ==
  LET added == [entries |-> With(k.entries, i, e), order |-> Touched(k, i)]
      ids   == DOMAIN added.entries
  IN  IF Cardinality(ids) <= CacheCapacity THEN added
      ELSE Kept(added, {j \in ids : Before(added, j) # {}})

\* The result of ID i has been used, at a time.
Remembers(i, at) ==
  memory' = With([j \in DOMAIN memory |-> [memory[j] EXCEPT !.others = @ \cup {i}]],
                 i, [at |-> at, others |-> {}])

-----------------------------------------------------------------------------
(* The peers.                                                              *)

\* Without a permit the stream is dropped.
Connect(c) ==
  /\ phase = "serving" /\ At(c, "none")
  /\ conn' = [conn EXCEPT ![c].pc =
       IF Cardinality({d \in Conns : conn[d].pc \notin {"none", "closed"}}) < MaxConnections
       THEN "reading" ELSE "closed"]
  /\ UNCHANGED <<frames, cache, phase, clock, memory>>

\* Time is told for the cache only, which no request reads when all are gone.
Tick ==
  /\ phase \in {"serving", "stopping"}
  /\ clock < MaxClock
  /\ clock' = clock + 1
  /\ UNCHANGED <<conn, frames, cache, phase, memory>>

-----------------------------------------------------------------------------
(* connection_loop                                                         *)

\* The frames that the last read brought are served before the next read.
Batch(c) == Of(c, {"read"})
First(S) == CHOOSE n \in S : \A m \in S : n <= m

\* The connection closes; requests that run are aborted with its JoinSet.
Cut(c) ==
  /\ conn' = [conn EXCEPT ![c].pc = "closed"]
  /\ frames' = [n \in Frames |->
       IF n \in Of(c, TaskStates) THEN Decided("aborted")
       ELSE IF n \in Of(c, {"read"}) THEN Decided("lost")
       ELSE frames[n]]

\* Fault: an end of the input closes the connection at once.
CloseAtOnce(c) == Cut(c)

\* break: no more is read, what runs is joined.
Drains(c) == conn' = [conn EXCEPT ![c].pc = "draining"] /\ UNCHANGED frames

\* What a peer may send: any request, again too, or something odd.
Sendable == [id : Ids, payload : Payloads] \cup [id : {None}, payload : Odd]

Arrived(c, m) == [conn |-> c, id |-> m.id, payload |-> m.payload, pc |-> "read",
                  at |-> 0, result |-> None]

\* A read brings one or more frames.
Read(c) ==
  /\ phase = "serving" /\ At(c, "reading") /\ Batch(c) = {}
  /\ \E chunk \in SeqOf(Sendable, MaxFrames - Len(frames)) \ {<<>>} :
       frames' = frames \o [n \in DOMAIN chunk |-> Arrived(c, chunk[n])]
  /\ UNCHANGED <<conn, cache, phase, clock, memory>>

\* The end of the input, connection_idle, a frame that is too long, with which
\* the others of its read are lost, or the stop signal, which is looked at
\* first.
StopsReading(c) ==
  /\ At(c, "reading") /\ Batch(c) = {}
  /\ Drains(c)
  /\ UNCHANGED <<cache, phase, clock, memory>>

\* A first frame that redeems makes this a renderer's connection; its further
\* frames are not requests.  A later one, or one that is refused, closes it.
Redeems(c) ==
  /\ At(c, "reading") /\ Batch(c) # {}
  /\ frames[First(Batch(c))].payload = "redeem"
  /\ \/ Cut(c)
     \/ /\ conn[c].first
        /\ conn' = [conn EXCEPT ![c].pc = "renderer"]
        /\ frames' = Decide(Batch(c), "lost")
  /\ UNCHANGED <<cache, phase, clock, memory>>

RendererEnds(c) ==
  /\ At(c, "renderer")
  /\ Cut(c)
  /\ UNCHANGED <<cache, phase, clock, memory>>

\* The permits that requests of this connection hold.
Held(c) == Of(c, TaskStates)

\* Both permits are free: of the connection and of the daemon.
Permits(c) ==
  /\ Cardinality(Held(c)) < MaxInflightPerConnection
  /\ Cardinality(UNION {Held(d) : d \in Conns}) < MaxInflight

Admit(c) ==
  /\ phase = "serving" /\ At(c, "reading") /\ Batch(c) # {}
  /\ frames[First(Batch(c))].payload # "redeem"
  /\ Permits(c)
  /\ Step(First(Batch(c)), "stripe")
  /\ conn' = [conn EXCEPT ![c].first = FALSE]
  /\ UNCHANGED <<cache, phase, clock, memory>>

\* The stop signal while a frame waits for its permits.
StopsAdmitting(c) ==
  /\ phase # "serving" /\ At(c, "reading") /\ Batch(c) # {}
  /\ frames[First(Batch(c))].payload # "redeem"
  /\ Cut(c)
  /\ UNCHANGED <<cache, phase, clock, memory>>

Joined(c) ==
  /\ At(c, "draining") /\ Of(c, TaskStates) = {}
  /\ conn' = [conn EXCEPT ![c].pc = "closed"]
  /\ UNCHANGED <<frames, cache, phase, clock, memory>>

Connection(c) ==
  StopsReading(c) \/ Redeems(c) \/ RendererEnds(c) \/ Admit(c)
    \/ StopsAdmitting(c) \/ Joined(c)

-----------------------------------------------------------------------------
(* process_frame                                                           *)

RequestOf(n) == [id |-> frames[n].id, payload |-> frames[n].payload]

Stripe(n) == StripeOf[frames[n].id]

\* Fault: nobody waits.
StripeUnlocked(n) == TRUE

\* The lock is held from before the lookup until the result is recorded.
StripeFree(n) ==
  \A m \in Frames : frames[m].pc = "handler" => Stripe(m) # Stripe(n)

\* RequestEnvelope::decode fails: there is no answer.
Malformed(n) ==
  /\ frames[n].pc = "stripe" /\ frames[n].payload = "malformed"
  /\ frames' = Decide({n}, "silent")
  /\ UNCHANGED <<conn, cache, phase, clock, memory>>

\* Under the lock: replay, refuse, or run the handler.
Begin(n) ==
  /\ frames[n].pc = "stripe" /\ frames[n].payload # "malformed"
  /\ StripeFree(n)
  /\ LET i     == frames[n].id
         young == Expired(cache, clock)
         found == Lookup(young, i, frames[n].payload)
     IN  CASE found = "replay" ->
                /\ frames' = [frames EXCEPT ![n].pc = "replying",
                                            ![n].result = young.entries[i].result]
                /\ cache' = Replayed(young, i, clock)
                /\ Remembers(i, clock)
           [] found = "mismatch" ->
                Step(n, "replying") /\ cache' = young /\ UNCHANGED memory
           [] found = "miss" ->
                /\ frames' = [frames EXCEPT ![n].pc = "handler", ![n].at = clock]
                /\ cache' = young /\ UNCHANGED memory
  /\ UNCHANGED <<conn, phase, clock>>

\* The handler has ended with a value or an error.  The result is recorded with
\* the time at which it began; a response that is too large is neither recorded
\* nor sent.
Handled(n) ==
  /\ frames[n].pc = "handler"
  /\ IF frames[n].payload \in Large
     THEN frames' = Decide({n}, "silent") /\ UNCHANGED <<cache, memory>>
     ELSE LET e == [payload |-> frames[n].payload, at |-> frames[n].at,
                    result |-> RequestOf(n)]
          IN  /\ frames' = [frames EXCEPT ![n].pc = "replying", ![n].at = 0,
                                          ![n].result = e.result]
              /\ cache' = Inserted(Expired(cache, frames[n].at), frames[n].id, e)
              /\ Remembers(frames[n].id, frames[n].at)
  /\ UNCHANGED <<conn, phase, clock>>

\* A peer that has hung up makes the write fail, which nobody looks at.
Answer(n) ==
  /\ frames[n].pc = "replying"
  /\ frames' = Decide({n}, "replied")
  /\ UNCHANGED <<conn, cache, phase, clock, memory>>

Request(n) == Malformed(n) \/ Begin(n) \/ Handled(n) \/ Answer(n)

-----------------------------------------------------------------------------
(* serve_inner                                                             *)

Accepted == {c \in Conns : conn[c].pc # "none"}

\* No task is left, and with the last one the cache goes.
Forgets == cache' = NoResults /\ memory' = [i \in {} |-> None]

\* Every connection task is gone.
AllJoined == \A c \in Accepted : At(c, "closed")

\* abort_all, or what dropping the JoinSet does.
AbortAll ==
  /\ conn' = [c \in Conns |-> IF c \in Accepted THEN [conn[c] EXCEPT !.pc = "closed"]
                              ELSE conn[c]]
  /\ frames' = [n \in Frames |->
       IF frames[n].pc \in TaskStates THEN Decided("aborted")
       ELSE IF frames[n].pc \in Ends THEN frames[n]
       ELSE Decided("lost")]

Shutdown ==
  /\ phase = "serving"
  /\ phase' = "stopping"
  /\ UNCHANGED <<conn, frames, cache, clock, memory>>

AllEnded ==
  /\ phase = "stopping" /\ AllJoined
  /\ phase' = "cleanup"
  /\ Forgets
  /\ UNCHANGED <<conn, frames, clock>>

\* Fault: the shutdown waits for the connections.
WaitForAll == FALSE /\ UNCHANGED vars

\* REQUEST_SHUTDOWN_GRACE is over.
GraceOver ==
  /\ phase = "stopping" /\ ~AllJoined
  /\ AbortAll
  /\ phase' = "late"
  /\ Forgets
  /\ UNCHANGED clock

\* The cleanup ends, or runs out of its budget; after a connection that had to
\* be aborted the daemon reports a timeout, but it has cleaned up.
CleanedUp ==
  /\ phase \in {"cleanup", "late"}
  /\ phase' \in IF phase = "late" THEN {"timed out"} ELSE {"stopped", "timed out"}
  /\ UNCHANGED <<conn, frames, cache, clock, memory>>

\* accept() fails: the daemon ends at once, without the stop signal, a grace or
\* a cleanup, and what runs is aborted with its JoinSet.
AcceptFails ==
  /\ phase = "serving"
  /\ AbortAll
  /\ phase' = "failed"
  /\ Forgets
  /\ UNCHANGED clock

\* The second interrupt, which may be seen together with the first one.
Forced ==
  /\ phase \in {"serving", "stopping", "cleanup", "late"}
  /\ AbortAll
  /\ phase' = "forced"
  /\ Forgets
  /\ UNCHANGED clock

Serve == AllEnded \/ GraceOver \/ CleanedUp

Next ==
  \/ \E c \in Conns : Connect(c) \/ Read(c) \/ Connection(c)
  \/ \E n \in Frames : Request(n)
  \/ Shutdown \/ AcceptFails \/ Serve \/ Forced
  \/ Tick

Spec == Init /\ [][Next]_vars

\* Connection(c), or Request(n), can be taken.
CanServe(c) ==
  \/ /\ At(c, "reading")
     /\ \/ Batch(c) = {} \/ phase # "serving"
        \/ frames[First(Batch(c))].payload = "redeem"
        \/ Permits(c)
  \/ At(c, "renderer")
  \/ At(c, "draining") /\ Of(c, TaskStates) = {}

CanGoOn(n) ==
  \/ Is(n, {"stripe"}) /\ (frames[n].payload = "malformed" \/ StripeFree(n))
  \/ Is(n, {"handler", "replying"})

\* The tasks run, timers run out, and a handler ends while the daemon serves:
\* its calls to tmux and to History have timeouts of their own.  Locks and
\* permits are handed out in the order in which they were asked for; with
\* MaxFrames frames that needs no more than weak fairness.  A connection and a
\* frame take a bounded number of steps, so weak fairness is that they do not
\* stay able to take one.
FairSpec ==
  /\ Spec
  /\ \A c \in Conns : []<>~CanServe(c)
  /\ \A n \in 1 .. MaxFrames :
       []<>~(CanGoOn(n) /\ (phase = "serving" \/ ~Is(n, {"handler"})))
  /\ WF_vars(Serve)

-----------------------------------------------------------------------------
(* Safety.                                                                 *)

Frame == [conn : Conns, id : Ids \cup {None}, payload : Payloads \cup Odd,
          pc : {"read"} \cup TaskStates, at : Nat,
          result : [id : Ids, payload : Payloads] \cup {None}]
           \cup {Decided(pc) : pc \in Ends}

\* The connections, the frames and the cache have their types and keep to their
\* limits.
TypeOK ==
  /\ conn \in [Conns -> [pc : {"none", "reading", "draining", "renderer", "closed"},
                         first : BOOLEAN]]
  /\ frames \in Seq(Frame)
  /\ \A c \in Conns : Cardinality(Of(c, TaskStates)) <= MaxInflightPerConnection
  /\ LET ids == DOMAIN cache.entries
     IN  /\ Cardinality(ids) <= CacheCapacity
         /\ cache.order \subseteq ids \X ids
         /\ \A i, j \in ids : <<i, j>> \in cache.order <=>
                                i # j /\ <<j, i>> \notin cache.order
  /\ phase \in {"serving", "stopping", "cleanup", "late", "stopped", "timed out",
               "forced", "failed"}

\* A request is answered with the result of its own ID and payload: its own, or
\* that of the attempt it repeats, whichever connection that came from.
AnswersItsRequest ==
  \A n \in Frames : frames[n].result \in {None, RequestOf(n)}

-----------------------------------------------------------------------------
(* What a step may never do.                                               *)

\* The result of ID i must be in the cache: it is young, and fewer others than
\* the cache has places for were used since.
MustRemember(i) ==
  /\ i \in DOMAIN memory
  /\ clock - memory[i].at < CacheTtl
  /\ Cardinality(memory[i].others) < CacheCapacity

\* A retry "may arrive while the first attempt is still executing"
\* (src/daemon/runtime.rs:769) or after it: no handler runs for an ID while
\* another does, nor as long as its result must be remembered.
RetriesRunOnce ==
  [][\A n \in Frames :
       (frames'[n].pc = "handler" /\ frames[n].pc # "handler") =>
         /\ ~MustRemember(frames[n].id)
         /\ \A m \in Frames : frames[m].pc = "handler" => frames[m].id # frames[n].id]_vars

\* "Complete accepted work before releasing the connection task"
\* (src/daemon/runtime.rs:692): a request that runs is aborted only by the end
\* of the grace, by force, when accept() fails, or with a connection that has
\* read another frame which redeems, or which still waits for a permit when the
\* daemon stops.
AcceptedIsCompleted ==
  [][\A n \in Frames :
       (frames[n].pc \in TaskStates /\ frames'[n].pc = "aborted") =>
         \/ phase' \in {"late", "forced", "failed"}
         \/ Batch(frames[n].conn) # {}]_vars

\* Every frame that was read is decided, although requests wait for permits of
\* their connection and of the daemon and then for the lock of their ID.
FramesAreDecided ==
  \A n \in 1 .. MaxFrames : Is(n, TaskStates \cup {"read"}) ~> Is(n, Ends)

\* The daemon stops, also when a handler never ends.
ServerStops ==
  phase = "stopping" ~> phase \in {"stopped", "timed out", "forced"}

\* The state of the server, and what requests are answered with.
AnswersAreOwn == TypeOK /\ AnswersItsRequest

\* Whatever was accepted comes to an end, and so does the daemon.
WorkEnds == FramesAreDecided /\ ServerStops
=============================================================================
