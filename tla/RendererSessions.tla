-------------------------- MODULE RendererSessions --------------------------
(***************************************************************************)
(* The processes that draw the Window Displays: RendererSessions of        *)
(* src/render.rs, which hands out a credential for each and keeps the      *)
(* stream to it; ProductionBackend of src/tmux/production.rs, which makes  *)
(* their panes; renderer_connection_loop of src/daemon/runtime.rs, which   *)
(* serves them; and the processes of src/renderer_runtime.rs.              *)
(*                                                                         *)
(* A process is known by its generation, which stands for its token too:   *)
(* tokens are random and do not repeat.  The list of retired tokens is     *)
(* left out: it only words a refusal that nobody is told.  Geometry and    *)
(* the order of windows are in WindowReconciler, the shutdown of a         *)
(* connection is in RequestServer.                                         *)
(* Fault marks a plausible slip, as in Scheduler.                          *)
(***************************************************************************)
EXTENDS Integers, Sequences, FiniteSets, SequencesExt

CONSTANTS
  Displays,         \* Window Display IDs: a Notification in a window
  Contents,         \* RendererContent
  ContentsOf,       \* what the Notification of a display may say
  Modal,            \* the contents that are presented as an Attention
  MaxSessions, ChannelCapacity,  \* SessionLimits
  MaxPendingFrames, \* MAX_PENDING_FRAMES
  MaxMessagesPerTick,  \* MAX_MESSAGES_PER_TICK
  MaxGenerations,   \* bound on the processes
  MaxEvents,        \* bound on the changes of the plan and the keys pressed
  None

ASSUME RendererConstants ==
  /\ Modal \subseteq Contents
  /\ ContentsOf \in [Displays -> SUBSET Contents]
  /\ {MaxSessions, ChannelCapacity, MaxPendingFrames, MaxMessagesPerTick} \subseteq Nat \ {0}
  /\ {MaxGenerations, MaxEvents} \subseteq Nat
  /\ None \notin Contents \cup [generation : Nat, content : Contents]
                \cup [generation : Nat, pending : BOOLEAN, sender : BOOLEAN, content : Contents]

VARIABLES
  target,   \* the plan: what each display is to say, if it is to be
  events,   \* how often the plan has changed or a key was pressed
  sessions, \* RendererSessions
  old,      \* credentials whose time to live is over
  actual,   \* ProductionBackend.displays
  backend,  \* what the backend is waiting for
  child     \* the processes by generation, each with its connection

vars == <<target, events, sessions, old, actual, backend, child>>

Idle == [pc |-> "idle"]

Init ==
  /\ target = [d \in Displays |-> None]
  /\ events = 0
  /\ sessions = [displays |-> [d \in Displays |-> None], credentials |-> {}]
  /\ old = {}
  /\ actual = [d \in Displays |-> None]
  /\ backend = Idle
  /\ child = <<>>

Generations == DOMAIN child

Kind(content) == IF content \in Modal THEN "attention" ELSE "toast"

\* The messages of a stream.
Says(content) == [type |-> "content", content |-> content]
Terminate == [type |-> "terminate", content |-> None]
Error     == [type |-> "error", content |-> None]

-----------------------------------------------------------------------------
(* RendererSessions.                                                       *)

IsCurrentGeneration(d, g) ==
  sessions.displays[d] # None /\ sessions.displays[d].generation = g

\* A session holds the sending end of this process's channel.
HasSender(g) ==
  IsCurrentGeneration(child[g].display, g) /\ sessions.displays[child[g].display].sender

\* The connection holds the receiving end.
HasReceiver(g) == child[g].task \in {"pumping", "acting"}

HasRoom(g) == Len(child[g].channel) < ChannelCapacity

\* retire_pending, for some displays.
Pending(s, D) ==
  {s.displays[d].generation : d \in {d \in D : s.displays[d] # None /\ s.displays[d].pending}}

\* Fault: the credential of a display that goes stays good.
WithoutRetiring(s, D) ==
  [s EXCEPT !.displays = [d \in Displays |-> IF d \in D THEN None ELSE @[d]]]

\* The displays of D and their credentials go.
Without(s, D) ==
  [displays    |-> [d \in Displays |-> IF d \in D THEN None ELSE s.displays[d]],
   credentials |-> s.credentials \ Pending(s, D)]

\* expire_credentials
Expired(s) ==
  Without(s, {d \in Displays : s.displays[d] # None /\ s.displays[d].generation \in s.credentials \cap old})

\* create, which replaces what there is.
WithSession(s, d, g, content) ==
  LET rest == Without(s, {d})
  IN  [displays    |-> [rest.displays EXCEPT ![d] =
                          [generation |-> g, pending |-> TRUE, sender |-> FALSE, content |-> content]],
       credentials |-> rest.credentials \cup {g}]

\* Nothing is left of a credential's age but for those that count.
Aging(s) == old' = old \cap s.credentials

\* The processes after terminate of the displays of D: the message is lost
\* when the channel is full, the sender is dropped in any case.
Told(D) ==
  [g \in Generations |->
     IF child[g].display \in D /\ HasSender(g) /\ HasReceiver(g) /\ HasRoom(g)
     THEN [child[g] EXCEPT !.channel = Append(@, Terminate)] ELSE child[g]]

\* A process has ended; what was on its way is lost.
Gone(c) == [c EXCEPT !.pc = "gone", !.shown = None, !.wire = <<>>]

-----------------------------------------------------------------------------
(* What is to be shown, and what happens to the processes.                 *)

Want(d, c) ==
  /\ events < MaxEvents /\ c # target[d]
  /\ target' = [target EXCEPT ![d] = c]
  /\ events' = events + 1
  /\ UNCHANGED <<sessions, old, actual, backend, child>>

\* DEFAULT_RENDERER_TOKEN_TTL is over for a credential.
Age(g) ==
  /\ g \in sessions.credentials \ old
  /\ old' = old \cup {g}
  /\ UNCHANGED <<target, events, sessions, actual, backend, child>>

\* The process ends: it failed, was interrupted, or its pane was closed by hand.
Die(g) ==
  /\ child[g].pc = "up"
  /\ child' = [child EXCEPT ![g] = Gone(@)]
  /\ UNCHANGED <<target, events, sessions, old, actual, backend>>

-----------------------------------------------------------------------------
(* ProductionBackend, one call after the other.                            *)

Alive(d) == child[actual[d].generation].pc = "up"

\* The panes of D are killed, and what is told to their processes is no news.
Killed(D) ==
  [g \in Generations |->
     IF \E d \in D : actual[d].generation = g THEN Gone(Told(D)[g])
     ELSE Told(D)[g]]

\* The displays of D are not registered any more; their sessions end.
Unregister(D) ==
  /\ actual' = [d \in Displays |-> IF d \in D THEN None ELSE actual[d]]
  /\ sessions' = Without(sessions, D)
  /\ Aging(Without(sessions, D))

\* Fault: content of another Presentation is sent to the process there is.
Stays(d) == target[d] # None

\* The display stays; another Presentation takes another process.
Remains(d) == target[d] # None /\ Kind(target[d]) = Kind(actual[d].content)

\* close_displays.  A pane that is gone already cannot be killed, and then
\* nothing changes; nor does it when the connection is lost, whether or not
\* tmux still killed the pane.
Close(d) ==
  /\ backend = Idle /\ actual[d] # None /\ ~Remains(d)
  /\ Alive(d)
  /\ \/ Unregister({d}) /\ child' = Killed({d})
     \/ /\ child' = [child EXCEPT ![actual[d].generation] = Gone(@)]
        /\ UNCHANGED <<sessions, old, actual>>
  /\ UNCHANGED <<target, events, backend>>

Sessions(s) == {d \in Displays : s.displays[d] # None}

\* create_display up to the command that makes the pane.
Create(d) ==
  /\ backend = Idle /\ target[d] # None /\ actual[d] = None
  /\ Len(child) < MaxGenerations
  /\ LET g     == Len(child) + 1
         young == Expired(sessions)
     IN  IF d \notin Sessions(young) /\ Cardinality(Sessions(young)) >= MaxSessions
         THEN /\ sessions' = young /\ Aging(young)
              /\ UNCHANGED <<backend, child>>
         ELSE /\ sessions' = WithSession(young, d, g, target[d])
              /\ Aging(young)
              /\ child' = Append(Told({d}),
                   [display |-> d, kind |-> Kind(target[d]), pc |-> "asked", shown |-> None,
                    task |-> "none", channel |-> <<>>, wire |-> <<>>, frames |-> <<>>])
              /\ backend' = [pc |-> "creating", display |-> d, generation |-> g,
                             content |-> target[d]]
  /\ UNCHANGED <<target, events, actual>>

\* tmux makes the pane, or cannot.
Split(g) ==
  /\ child[g].pc = "asked"
  /\ \E pc \in {"up", "never"} : child' = [child EXCEPT ![g].pc = pc]
  /\ UNCHANGED <<target, events, sessions, old, actual, backend>>

Register ==
  /\ actual' = [actual EXCEPT ![backend.display] =
       [generation |-> backend.generation, content |-> backend.content]]
  /\ backend' = Idle
  /\ UNCHANGED <<sessions, old, child>>

\* terminate_renderer
Abandoned(s, d) == Without(s, {d})

\* create_display fails.
GiveUp ==
  /\ backend' = Idle
  /\ sessions' = Abandoned(sessions, backend.display)
  /\ Aging(sessions')
  /\ UNCHANGED actual

\* The answer to split-window or new-pane comes, or the connection is lost;
\* tmux may make the pane all the same.
Created ==
  /\ backend.pc = "creating"
  /\ \/ /\ child[backend.generation].pc \in {"up", "gone"}
        /\ IF Kind(backend.content) = "attention" THEN Register
           ELSE /\ backend' = [backend EXCEPT !.pc = "breaking"]
                /\ UNCHANGED <<sessions, old, actual, child>>
     \/ GiveUp /\ child' = Told({backend.display})
  /\ UNCHANGED <<target, events>>

\* The pane of a Toast becomes a floating one, or is killed, if it can be.
Broken ==
  /\ backend.pc = "breaking"
  /\ \/ child[backend.generation].pc = "up" /\ Register
     \/ /\ GiveUp
        /\ \/ child' = Told({backend.display})
           \/ child' = [Told({backend.display}) EXCEPT ![backend.generation] = Gone(@)]
  /\ UNCHANGED <<target, events>>

\* update keeps the newest content for a process that has not redeemed yet.
Newest(s, d, c) == [s EXCEPT !.displays[d].content = c]

\* update_display.  It fails when there is no session any more, when the
\* channel is full, and when the connection is gone, once.
Update(d) ==
  /\ backend = Idle /\ actual[d] # None /\ Remains(d) /\ target[d] # actual[d].content
  /\ sessions.displays[d] # None
  /\ LET g      == sessions.displays[d].generation
         newest == Newest(sessions, d, target[d])
         done   == actual' = [actual EXCEPT ![d].content = target[d]]
     IN  \/ ~HasSender(g) /\ sessions' = newest /\ done /\ UNCHANGED child
         \/ /\ HasSender(g) /\ HasReceiver(g) /\ HasRoom(g)
            /\ sessions' = newest /\ done
            /\ child' = [child EXCEPT ![g].channel = Append(@, Says(target[d]))]
         \/ /\ HasSender(g) /\ HasReceiver(g) /\ ~HasRoom(g)
            /\ sessions' = newest
            /\ UNCHANGED <<actual, child>>
         \/ /\ HasSender(g) /\ ~HasReceiver(g)
            /\ sessions' = [newest EXCEPT !.displays[d].sender = FALSE]
            /\ UNCHANGED <<actual, child>>
  /\ UNCHANGED <<target, events, old, backend>>

\* The registered displays whose panes are gone.
Missing == {d \in Displays : actual[d] # None /\ ~Alive(d)}

\* prune_missing_displays, with every look at the topology.
Prune ==
  /\ backend = Idle /\ Missing # {}
  /\ Unregister(Missing)
  /\ child' = Told(Missing)
  /\ UNCHANGED <<target, events, backend>>

Reconcile == Created \/ Broken \/ \E d \in Displays : Close(d) \/ Create(d) \/ Update(d)

-----------------------------------------------------------------------------
(* connection_loop and renderer_connection_loop                            *)

\* return: the stream to the process closes.
Refused == "returned"

\* redeem
Redeem(g) ==
  /\ child[g].task = "asked"
  /\ LET d     == child[g].display
         young == Expired(sessions)
     IN  IF /\ g \in young.credentials
            /\ young.displays[d] # None /\ young.displays[d].generation = g
         THEN /\ sessions' = [displays |-> [young.displays EXCEPT ![d].pending = FALSE,
                                                                  ![d].sender = TRUE],
                              credentials |-> young.credentials \ {g}]
              /\ child' = [child EXCEPT ![g].task = "pumping",
                                        ![g].channel = <<Says(young.displays[d].content)>>]
         ELSE /\ sessions' = young
              /\ child' = [child EXCEPT ![g].task = Refused]
  /\ Aging(sessions')
  /\ UNCHANGED <<target, events, actual, backend>>

\* The connection ends with what it still had to send.
Returned(c, g) == [c EXCEPT ![g].task = "returned", ![g].channel = <<>>, ![g].frames = <<>>]

\* A write to a process that has ended fails.
Sent(c, g, m) ==
  IF c[g].pc = "gone" THEN Returned(c, g) ELSE [c EXCEPT ![g].wire = Append(@, m)]

\* Fault: the end of the session is not noticed.
OnlyWhenTold(g) == FALSE

\* Disconnected: nothing is left in the channel, and nobody can fill it.
Cut(g) == child[g].channel = <<>> /\ ~HasSender(g)

\* A message is on its way to the process.
Pump(g) ==
  /\ child[g].task = "pumping"
  /\ \/ Cut(g) /\ child' = Returned(child, g)
     \/ /\ child[g].channel # <<>>
        /\ LET m == Head(child[g].channel)
               c == Sent([child EXCEPT ![g].channel = Tail(@)], g, m)
           IN  child' = IF m = Terminate THEN Returned(c, g) ELSE c
  /\ UNCHANGED <<target, events, sessions, old, actual, backend>>

\* A process that has ended is noticed when all it sent is read.
HangUp(g) ==
  /\ child[g].task = "pumping" /\ child[g].pc = "gone"
  /\ child[g].frames = <<>>
  /\ child' = Returned(child, g)
  /\ UNCHANGED <<target, events, sessions, old, actual, backend>>

\* Too many frames came at once.
Flooded(g) ==
  /\ child[g].task = "pumping" /\ Len(child[g].frames) > MaxMessagesPerTick
  /\ child' = Returned(child, g)
  /\ UNCHANGED <<target, events, sessions, old, actual, backend>>

\* An action of a renderer of another generation is refused; one of the current
\* generation is executed, and meanwhile nothing is sent.
Act(g) ==
  /\ child[g].task = "pumping" /\ child[g].frames # <<>>
  /\ IF IsCurrentGeneration(child[g].display, g)
     THEN child' = [child EXCEPT ![g].task = "acting"]
     ELSE child' = Sent([child EXCEPT ![g].frames = Tail(@)], g, Error)
  /\ UNCHANGED <<target, events, sessions, old, actual, backend>>

\* The action is over.
Acted(c, g) == [c EXCEPT ![g].task = "pumping", ![g].frames = Tail(@)]

Failed(g) ==
  /\ child' = Sent(Acted(child, g), g, Error)
  /\ UNCHANGED <<target, sessions, old, actual>>

\* handle_renderer_action: the Notification is live and still an Attention.
IsLive(g) == target[child[g].display] \in Modal

DismissEnds(g) ==
  /\ child[g].task = "acting" /\ Head(child[g].frames) = "dismiss"
  /\ IF IsLive(g)
     THEN /\ target' = [target EXCEPT ![child[g].display] = None]
          /\ child' = Acted(child, g)
          /\ UNCHANGED <<sessions, old, actual>>
     ELSE Failed(g)
  /\ UNCHANGED <<events, backend>>

\* jump_from_attention looks at the topology and closes the Attentions, then
\* tmux switches, or does not.
JumpEnds(g) ==
  /\ child[g].task = "acting" /\ Head(child[g].frames) = "jump"
  /\ backend = Idle
  /\ \/ Failed(g)
     \/ LET D     == {d \in Displays : actual[d] # None /\ actual[d].content \in Modal}
        IN  /\ IsLive(g) /\ Missing = {}
            /\ Unregister(D)
            /\ \/ /\ child' = Acted(Killed(D), g)
                  /\ target' = [target EXCEPT ![child[g].display] = None]
               \/ /\ child' = Sent(Acted(Killed(D), g), g, Error)
                  /\ UNCHANGED target
  /\ UNCHANGED <<events, backend>>

Serves(g) ==
  Redeem(g) \/ Pump(g) \/ HangUp(g) \/ Act(g) \/ DismissEnds(g) \/ JumpEnds(g)

-----------------------------------------------------------------------------
(* renderer_runtime: run_toast and run_attention                           *)

\* connect and redeem
Connect(g) ==
  /\ child[g].pc = "up" /\ child[g].task = "none"
  /\ child' = [child EXCEPT ![g].task = "asked"]
  /\ UNCHANGED <<target, events, sessions, old, actual, backend>>

\* The last content of some messages.
LastContent(messages, otherwise) ==
  LET said == {i \in DOMAIN messages : messages[i].type = "content"}
  IN  IF said = {} THEN otherwise
      ELSE messages[CHOOSE i \in said : \A j \in said : j <= i].content

\* from_renderer_content, and ToastTerminal::draw for the other kind.
Presentable(g, content) == Kind(content) = child[g].kind

\* handle_key: Enter, and Esc or q; any other key does nothing, or interrupts.
AttentionActions == {"jump", "dismiss"}

\* poll: some of the frames that were sent come with a read, and all of them
\* are looked at before the next.  Content for the other Presentation, and too
\* many frames, are errors that end the process.
Poll(g) ==
  /\ child[g].pc = "up" /\ child[g].wire # <<>>
  /\ \E n \in 1 .. Len(child[g].wire) :
       LET read == SubSeq(child[g].wire, 1, n)
           ends == \/ n > MaxPendingFrames
                   \/ \E i \in 1 .. n : \/ read[i] = Terminate
                                        \/ /\ read[i].type = "content"
                                           /\ ~Presentable(g, read[i].content)
           rest == [child[g] EXCEPT !.wire  = SubSeq(@, n + 1, Len(@)),
                                    !.shown = LastContent(read, @)]
       IN  child' = [child EXCEPT ![g] = IF ends THEN Gone(@) ELSE rest]
  /\ UNCHANGED <<target, events, sessions, old, actual, backend>>

\* DaemonDisconnected
EndOfStream(g) ==
  /\ child[g].pc = "up" /\ child[g].task = "returned" /\ child[g].wire = <<>>
  /\ child' = [child EXCEPT ![g] = Gone(@)]
  /\ UNCHANGED <<target, events, sessions, old, actual, backend>>

\* A key in an Attention that has something to show.
Key(g, action) ==
  /\ child[g].pc = "up" /\ child[g].kind = "attention" /\ child[g].shown # None
  /\ events < MaxEvents /\ HasReceiver(g)
  /\ events' = events + 1
  /\ child' = [child EXCEPT ![g].frames = Append(@, action)]
  /\ UNCHANGED <<target, sessions, old, actual, backend>>

Draws(g) == Connect(g) \/ Poll(g) \/ EndOfStream(g)

Next ==
  \/ \E d \in Displays : \E c \in ContentsOf[d] \cup {None} : Want(d, c)
  \/ Reconcile \/ Prune
  \/ \E g \in Generations :
       \/ Age(g) \/ Die(g) \/ Split(g) \/ Serves(g) \/ Flooded(g) \/ Draws(g)
       \/ \E action \in AttentionActions : Key(g, action)

Spec == Init /\ [][Next]_vars

\* The reconcile loop looks at tmux and goes on with what it began; tmux, the
\* connections and the processes run.
FairSpec ==
  /\ Spec
  /\ WF_vars(Reconcile) /\ WF_vars(Prune)
  /\ \A g \in 1 .. MaxGenerations :
       WF_vars(g \in Generations /\ (Split(g) \/ Serves(g) \/ Draws(g)))

-----------------------------------------------------------------------------
(* Safety.                                                                 *)

Messages == {Says(c) : c \in Contents} \cup {Terminate, Error}

Process ==
  [display : Displays, kind : {"toast", "attention"},
   pc : {"asked", "never", "up", "gone"}, shown : Contents \cup {None},
   task : {"none", "asked", "pumping", "acting", "returned"},
   channel : Seq(Messages), wire : Seq(Messages), frames : Seq(AttentionActions)]

TypeOK ==
  /\ target \in [Displays -> Contents \cup {None}]
  /\ events \in 0 .. MaxEvents
  /\ sessions.displays \in
       [Displays -> [generation : Generations, pending : BOOLEAN, sender : BOOLEAN,
                     content : Contents] \cup {None}]
  /\ old \subseteq sessions.credentials /\ sessions.credentials \subseteq Generations
  /\ Cardinality(Sessions(sessions)) <= MaxSessions
  /\ actual \in [Displays -> [generation : Generations, content : Contents] \cup {None}]
  /\ child \in Seq(Process)
  /\ \A g \in Generations : Len(child[g].channel) <= ChannelCapacity

\* After any order of launches, redemptions, expiries and ends a credential is
\* good exactly as long as a session waits for it: none works twice, and none
\* opens a display that was closed or made again.
CredentialsArePending == sessions.credentials = Pending(sessions, Displays)

\* No session is left behind: each is of a display in tmux or in the making,
\* and of the process that was started for it.
SessionsAreDisplays ==
  \A d \in Displays :
    sessions.displays[d] # None =>
      \/ actual[d] # None /\ actual[d].generation = sessions.displays[d].generation
      \/ /\ backend # Idle /\ backend.display = d
         /\ backend.generation = sessions.displays[d].generation

\* What the backend believes a display to say is what its stream was last sent,
\* although updates come before the redemption and may be refused.
BelievedIsSent ==
  \A d \in Displays :
    (actual[d] # None /\ sessions.displays[d] # None) =>
      LET g == actual[d].generation
      IN  HasSender(g) /\ HasReceiver(g) /\ child[g].pc = "up" =>
            LastContent(child[g].wire \o child[g].channel, child[g].shown) = actual[d].content

\* A process is sent nothing of the other Presentation, which would end it.
RightPresentation ==
  \A g \in Generations :
    \A m \in ToSet(child[g].channel \o child[g].wire) :
      m.type = "content" => Kind(m.content) = child[g].kind

-----------------------------------------------------------------------------
(* Liveness.                                                               *)

\* A display does not say what the backend believes it to.
Behind(d) == actual[d] # None /\ child[actual[d].generation].shown # actual[d].content

\* What the backend believes to be shown is drawn in the end, unless it takes it
\* back: whatever a process misses ends it, and then the display is made again.
BelievedIsDrawn == \A d \in Displays : Behind(d) ~> ~Behind(d)

\* A process that runs and that the backend does not know.
Leftover(g) ==
  /\ g \in Generations /\ child[g].pc = "up"
  /\ actual[child[g].display] = None \/ actual[child[g].display].generation # g
  /\ backend = Idle \/ backend.generation # g

\* No process is left over, even if the answer of tmux to its creation or the
\* message to terminate was lost.
LeftoversEnd == \A g \in 1 .. MaxGenerations : Leftover(g) ~> ~Leftover(g)

\* Sessions and credentials are those of the displays there are.
SessionsAreExact == TypeOK /\ CredentialsArePending /\ SessionsAreDisplays

\* The stream to a process says what the backend believes, in its Presentation.
StreamsAreTrue == BelievedIsSent /\ RightPresentation

\* In the end the displays are the ones the backend knows, and say what it
\* believes.
DisplaysSettle == BelievedIsDrawn /\ LeftoversEnd
=============================================================================
