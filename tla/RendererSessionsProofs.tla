----------------------- MODULE RendererSessionsProofs -----------------------
(***************************************************************************)
(* Proofs about RendererSessions, for any displays, contents and limits:   *)
(* credentials are those that are waited for, no session is left behind,   *)
(* and a stream says what the backend believes.                            *)
(***************************************************************************)
EXTENDS RendererSessions, FiniteSetTheorems, SequenceTheorems, WellFoundedInduction, TLAPS

-----------------------------------------------------------------------------
(* The invariant.                                                          *)

\* The record of a session.
Session == [generation : Generations, pending : BOOLEAN, sender : BOOLEAN, content : Contents]

\* Sessions are of processes that were started for their display, and their
\* credentials are those that are waited for.
SessionsOk(s) ==
  /\ s \in [displays : [Displays -> Session \cup {None}], credentials : SUBSET Generations]
  /\ \A d \in Displays :
       s.displays[d] # None => child[s.displays[d].generation].display = d
  /\ s.credentials = Pending(s, Displays)
  /\ IsFiniteSet(Sessions(s)) /\ Cardinality(Sessions(s)) <= MaxSessions

\* A process that was not made has no connection, and none is sent anything of
\* the other Presentation.
ProcessOk(p) ==
  /\ p \in Process
  /\ p.pc \in {"asked", "never"} => p.task = "none"
  /\ p.task = "acting" => p.frames # <<>>
  /\ Len(p.channel) <= ChannelCapacity
  /\ \A n \in DOMAIN p.channel :
       p.channel[n].type = "content" => Kind(p.channel[n].content) = p.kind
  /\ \A n \in DOMAIN p.wire :
       p.wire[n].type = "content" => Kind(p.wire[n].content) = p.kind

ProcessesOk == child \in Seq(Process) /\ \A g \in Generations : ProcessOk(child[g])

\* Process g was started for display d and the Presentation of a content.
Fits(g, d, content) == child[g].display = d /\ child[g].kind = Kind(content)

ActualOk ==
  /\ actual \in [Displays -> [generation : Generations, content : Contents] \cup {None}]
  /\ \A d \in Displays :
       actual[d] # None => Fits(actual[d].generation, d, actual[d].content)

\* A display in the making is in tmux not yet.
BackendOk ==
  \/ backend = Idle
  \/ /\ backend \in [pc : {"creating", "breaking"}, display : Displays,
                     generation : Generations, content : Contents]
     /\ actual[backend.display] = None
     /\ Fits(backend.generation, backend.display, backend.content)

\* The process and the content that the backend has, or will have, for a display.
Believed(d) ==
  IF actual[d] # None THEN actual[d]
  ELSE IF backend # Idle /\ backend.display = d
  THEN [generation |-> backend.generation, content |-> backend.content]
  ELSE None

Listens(p) == p.task \in {"pumping", "acting"} /\ p.pc = "up"

\* What a process will show when it has read all that is on its way.
Heard(p) == LastContent(p.channel, LastContent(p.wire, p.shown))

\* A process after a step of its own, of its connection or of others: it does
\* not begin to listen, and will show the same.
SamePlace(p, q) == q.display = p.display /\ q.kind = p.kind

SameTask(p, q) == SamePlace(p, q) /\ q.task = p.task /\ q.frames = p.frames

Follows(p, q) ==
  /\ ProcessOk(q) /\ SamePlace(p, q)
  /\ Listens(q) => Listens(p) /\ Heard(q) = Heard(p)

\* A session is of a display that the backend believes in; what it keeps for
\* the redemption, or what was sent after it, is what the backend believes.
SessionOk(d) ==
  sessions.displays[d] # None =>
    LET s == sessions.displays[d]
    IN  /\ Believed(d) # None /\ Believed(d).generation = s.generation
        /\ Kind(s.content) = child[s.generation].kind
        /\ s.pending => ~s.sender /\ s.content = Believed(d).content
        /\ s.sender /\ Listens(child[s.generation]) =>
             Heard(child[s.generation]) = Believed(d).content

PlanOk == target \in [Displays -> Contents \cup {None}] /\ events \in 0 .. MaxEvents

Core ==
  /\ SessionsOk(sessions) /\ old \subseteq sessions.credentials
  /\ ProcessesOk /\ ActualOk /\ BackendOk
  /\ \A d \in Displays : SessionOk(d)

IInv == PlanOk /\ Core

-----------------------------------------------------------------------------
(* What a stream says.                                                     *)

\* A set of natural numbers has a least one.
LEMMA Least ==
  ASSUME NEW T \in SUBSET Nat, T # {}
  PROVE  \E n \in T : \A m \in T : n <= m
<1>1. PICK R : IsWellFoundedOn(R, Nat) /\ R = {p \in Nat \X Nat : p[1] < p[2]}
  BY NatLessThanWellFounded DEF OpToRel
<1>2. PICK n \in T : \A m \in T : <<m, n>> \notin R
  BY <1>1, WFMin
<1>3. ASSUME NEW m \in T PROVE n <= m
  <2>1. n \in Nat /\ m \in Nat
    OBVIOUS
  <2>2. <<m, n>> \in Nat \X Nat /\ <<m, n>>[1] = m /\ <<m, n>>[2] = n
    BY <2>1
  <2>3. ~(m < n)
    BY <1>1, <1>2, <2>2
  <2> QED BY <2>1, <2>3
<1> QED BY <1>3

\* A bounded one has a greatest.
LEMMA Greatest ==
  ASSUME NEW k \in Nat, NEW T \in SUBSET (1 .. k), T # {}
  PROVE  \E n \in T : \A m \in T : m <= n
<1> DEFINE U == {k - n : n \in T}
<1>1. U \in SUBSET Nat /\ U # {}
  <2>1. \A n \in T : k - n \in Nat
    OBVIOUS
  <2> QED BY <2>1
<1>2. PICK u \in U : \A v \in U : u <= v
  <2> HIDE DEF U
  <2> QED BY <1>1, Least
<1>3. PICK n \in T : u = k - n
  OBVIOUS
<1>4. ASSUME NEW m \in T PROVE m <= n
  <2>1. k - m \in U
    OBVIOUS
  <2>2. k - n <= k - m
    BY <1>2, <1>3, <2>1
  <2> QED BY <2>2
<1> QED BY <1>4

\* The content that no other one follows is the last.
LEMMA LastIs ==
  ASSUME NEW s \in Seq(Messages), NEW o, NEW n \in DOMAIN s, s[n].type = "content",
         \A m \in DOMAIN s : s[m].type = "content" => m <= n
  PROVE  LastContent(s, o) = s[n].content
<1> DEFINE said == {i \in DOMAIN s : s[i].type = "content"}
<1> DEFINE c == CHOOSE i \in said : \A j \in said : j <= i
<1>1. DOMAIN s = 1 .. Len(s) /\ Len(s) \in Nat
  OBVIOUS
<1>2. n \in said /\ \A j \in said : j <= n
  OBVIOUS
<1>3. c \in said /\ \A j \in said : j <= c
  <2> HIDE DEF said
  <2> QED BY <1>2
<1>4. c = n
  <2>1. c \in Nat /\ n \in Nat
    BY <1>1, <1>3
  <2>2. c <= n /\ n <= c
    BY <1>2, <1>3
  <2> HIDE DEF c, said
  <2> QED BY <2>1, <2>2
<1>5. LastContent(s, o) = s[c].content
  BY <1>2 DEF LastContent
<1> HIDE DEF c
<1> QED BY <1>4, <1>5

\* Where nothing is said, what was shown stays.
LEMMA NothingSaid ==
  ASSUME NEW s, NEW o, \A m \in DOMAIN s : s[m].type # "content"
  PROVE  LastContent(s, o) = o
BY DEF LastContent

\* Either nothing is said or something is said last.
LEMMA SaysLast ==
  ASSUME NEW s \in Seq(Messages)
  PROVE  \/ \A m \in DOMAIN s : s[m].type # "content"
         \/ \E n \in DOMAIN s :
              /\ s[n].type = "content"
              /\ \A m \in DOMAIN s : s[m].type = "content" => m <= n
<1> DEFINE T == {m \in DOMAIN s : s[m].type = "content"}
<1>1. CASE T = {}
  BY <1>1
<1>2. CASE T # {}
  <2>1. T \in SUBSET (1 .. Len(s)) /\ Len(s) \in Nat
    OBVIOUS
  <2>2. PICK n \in T : \A m \in T : m <= n
    <3> HIDE DEF T
    <3> QED BY <1>2, <2>1, Greatest
  <2> QED BY <2>2
<1> QED BY <1>1, <1>2

\* A stream may be read in two parts.
LEMMA ReadInParts ==
  ASSUME NEW s \in Seq(Messages), NEW t \in Seq(Messages), NEW o
  PROVE  LastContent(s \o t, o) = LastContent(t, LastContent(s, o))
<1>0. PICK k, u : k = Len(s) /\ u = s \o t
  OBVIOUS
<1>1. /\ k \in Nat /\ Len(t) \in Nat /\ DOMAIN s = 1 .. k /\ DOMAIN t = 1 .. Len(t)
      /\ u \in Seq(Messages) /\ DOMAIN u = 1 .. k + Len(t)
      /\ \A m \in DOMAIN s : m \in DOMAIN u /\ u[m] = s[m]
      /\ \A m \in DOMAIN t : k + m \in DOMAIN u /\ u[k + m] = t[m]
      /\ \A m \in DOMAIN u : m \in DOMAIN s \/ (m - k \in DOMAIN t /\ k + (m - k) = m)
  BY <1>0
<1>a. u \in Seq(Messages)
  BY <1>1
<1>2. CASE \A m \in DOMAIN t : t[m].type # "content"
  <2>1. LastContent(t, LastContent(s, o)) = LastContent(s, o)
    BY <1>2, NothingSaid
  <2>2. CASE \A m \in DOMAIN s : s[m].type # "content"
    <3>1. \A m \in DOMAIN u : u[m].type # "content"
      BY <1>1, <1>2, <2>2
    <3> QED BY <1>0, <2>1, <2>2, <3>1, NothingSaid
  <2>3. ASSUME NEW n \in DOMAIN s, s[n].type = "content",
               \A m \in DOMAIN s : s[m].type = "content" => m <= n
        PROVE  LastContent(u, o) = LastContent(s, o)
    <3>1. LastContent(s, o) = s[n].content
      BY <2>3, LastIs
    <3>2. \A m \in DOMAIN u : u[m].type = "content" => m <= n
      BY <1>1, <1>2, <2>3
    <3>3. n \in DOMAIN u /\ u[n] = s[n]
      BY <1>1
    <3>4. LastContent(u, o) = u[n].content
      BY <1>a, <2>3, <3>2, <3>3, LastIs
    <3> QED BY <3>1, <3>3, <3>4
  <2> QED BY <1>0, <2>1, <2>2, <2>3, SaysLast
<1>3. ASSUME NEW n \in DOMAIN t, t[n].type = "content",
             \A m \in DOMAIN t : t[m].type = "content" => m <= n
      PROVE  LastContent(u, o) = LastContent(t, LastContent(s, o))
  <2>1. LastContent(t, LastContent(s, o)) = t[n].content
    BY <1>3, LastIs
  <2> PICK i : i = k + n
    OBVIOUS
  <2>2. i \in DOMAIN u /\ u[i] = t[n]
    BY <1>1
  <2>3. \A m \in DOMAIN u : u[m].type = "content" => m <= i
    <3> SUFFICES ASSUME NEW m \in DOMAIN u, u[m].type = "content" PROVE m <= i
      OBVIOUS
    <3>1. CASE m \in DOMAIN s
      BY <1>1, <3>1
    <3>2. CASE m - k \in DOMAIN t /\ k + (m - k) = m
      <4>1. t[m - k].type = "content"
        BY <1>1, <3>2
      <4> QED BY <1>1, <1>3, <3>2, <4>1
    <3> QED BY <1>1, <3>1, <3>2
  <2>4. LastContent(u, o) = u[i].content
    BY <1>a, <1>3, <2>2, <2>3, LastIs
  <2> QED BY <2>1, <2>2, <2>4
<1> QED BY <1>0, <1>2, <1>3, SaysLast

\* One more message: a content is what is shown then, anything else is not.
LEMMA OneSaid ==
  ASSUME NEW m \in Messages, NEW o
  PROVE  /\ <<m>> \in Seq(Messages)
         /\ LastContent(<<m>>, o) = IF m.type = "content" THEN m.content ELSE o
<1>1. /\ <<m>> \in Seq(Messages) /\ DOMAIN <<m>> = {1} /\ <<m>>[1] = m
  <2>1. <<m>> \in Seq(Messages) /\ Len(<<m>>) = 1 /\ <<m>>[1] = m
    OBVIOUS
  <2>2. DOMAIN <<m>> = 1 .. 1
    BY <2>1
  <2> QED BY <2>1, <2>2
<1> PICK q : q = <<m>>
  OBVIOUS
<1>2. CASE m.type = "content"
  <2>1. /\ 1 \in DOMAIN q /\ q[1].type = "content" /\ q \in Seq(Messages)
        /\ \A i \in DOMAIN q : i <= 1
    BY <1>1, <1>2
  <2>2. LastContent(q, o) = q[1].content
    BY <2>1, LastIs
  <2> QED BY <1>1, <1>2, <2>2
<1>3. CASE m.type # "content"
  BY <1>1, <1>3, NothingSaid
<1> QED BY <1>1, <1>2, <1>3

LEMMA OneMoreSaid ==
  ASSUME NEW s \in Seq(Messages), NEW m \in Messages, NEW o
  PROVE  LastContent(Append(s, m), o) =
           IF m.type = "content" THEN m.content ELSE LastContent(s, o)
<1>1. Append(s, m) = s \o <<m>>
  OBVIOUS
<1>2. LastContent(s \o <<m>>, o) = LastContent(<<m>>, LastContent(s, o))
  BY ZenonT(30), OneSaid, ReadInParts
<1> PICK x : x = LastContent(s, o)
  OBVIOUS
<1>3. LastContent(<<m>>, x) = IF m.type = "content" THEN m.content ELSE x
  BY OneSaid
<1> QED BY <1>1, <1>2, <1>3

\* What the head of the channel says is said earlier, and as well, by the wire.
LEMMA HeadIsSent ==
  ASSUME NEW w \in Seq(Messages), NEW c \in Seq(Messages), c # <<>>, NEW o
  PROVE  LastContent(Tail(c), LastContent(Append(w, Head(c)), o)) =
           LastContent(c, LastContent(w, o))
<1>1. /\ Head(c) \in Messages /\ Tail(c) \in Seq(Messages)
      /\ c = <<Head(c)>> \o Tail(c) /\ <<Head(c)>> \in Seq(Messages)
      /\ Append(w, Head(c)) = w \o <<Head(c)>>
  OBVIOUS
<1> PICK x : x = LastContent(w, o)
  OBVIOUS
<1> PICK h : h = <<Head(c)>>
  OBVIOUS
<1>2. LastContent(w \o h, o) = LastContent(h, x)
  BY <1>1, ReadInParts
<1>3. LastContent(h \o Tail(c), x) = LastContent(Tail(c), LastContent(h, x))
  BY ZenonT(30), <1>1, ReadInParts
<1> QED BY <1>1, <1>2, <1>3
-----------------------------------------------------------------------------
(* Sessions.                                                               *)

\* A function on the generations is a sequence of processes.
LEMMA ProcessesAreSequence ==
  ASSUME NEW c, NEW n \in Nat, NEW S, c \in [1 .. n -> S]
  PROVE  c \in Seq(S) /\ Len(c) = n /\ DOMAIN c = 1 .. n
OBVIOUS

LEMMA GenerationsOk ==
  ASSUME ProcessesOk
  PROVE  /\ Len(child) \in Nat /\ Generations = 1 .. Len(child)
         /\ child \in [Generations -> Process]
BY DEF ProcessesOk, Generations

\* Each credential is of the one display that waits for it.
LEMMA CredentialOf ==
  ASSUME NEW s, SessionsOk(s), NEW g
  PROVE  g \in s.credentials <=>
           \E d \in Displays : s.displays[d] # None /\ s.displays[d].pending
                                 /\ s.displays[d].generation = g
<1>1. s.credentials = Pending(s, Displays)
  BY DEF SessionsOk
<1> QED BY <1>1 DEF Pending

\* Displays go together with what is waited for.
LEMMA WithoutOk ==
  ASSUME NEW s, SessionsOk(s), NEW D \in SUBSET Displays
  PROVE  /\ SessionsOk(Without(s, D))
         /\ Without(s, D).credentials \subseteq s.credentials
         /\ \A d \in Displays :
              Without(s, D).displays[d] = IF d \in D THEN None ELSE s.displays[d]
<1>0. PICK w : w = Without(s, D)
  OBVIOUS
<1>1. /\ w.displays = [d \in Displays |-> IF d \in D THEN None ELSE s.displays[d]]
      /\ w.credentials = s.credentials \ Pending(s, D)
      /\ w = [displays |-> w.displays, credentials |-> w.credentials]
  BY <1>0 DEF Without
<1>2. /\ s.displays \in [Displays -> Session \cup {None}]
      /\ s.credentials \in SUBSET Generations
      /\ \A d \in Displays :
           s.displays[d] # None => child[s.displays[d].generation].display = d
      /\ IsFiniteSet(Sessions(s)) /\ Cardinality(Sessions(s)) <= MaxSessions
  BY DEF SessionsOk
<1>3. w.displays \in [Displays -> Session \cup {None}]
  BY <1>1, <1>2
<1>4. w.credentials = Pending(w, Displays)
  <2>1. ASSUME NEW g PROVE g \in w.credentials <=> g \in Pending(w, Displays)
    <3>1. g \in w.credentials <=>
            /\ \E d \in Displays : s.displays[d] # None /\ s.displays[d].pending
                                     /\ s.displays[d].generation = g
            /\ ~\E d \in D : s.displays[d] # None /\ s.displays[d].pending
                                /\ s.displays[d].generation = g
      BY <1>1, CredentialOf DEF Pending
    <3>2. g \in Pending(w, Displays) <=>
            \E d \in Displays : w.displays[d] # None /\ w.displays[d].pending
                                  /\ w.displays[d].generation = g
      BY DEF Pending
    <3> QED BY <1>1, <1>2, <3>1, <3>2
  <2> QED BY <2>1
<1>5. IsFiniteSet(Sessions(w)) /\ Cardinality(Sessions(w)) <= MaxSessions
  <2>1. Sessions(w) \in SUBSET Sessions(s)
    BY <1>1 DEF Sessions
  <2>2. /\ IsFiniteSet(Sessions(w)) /\ Cardinality(Sessions(w)) <= Cardinality(Sessions(s))
    BY <1>2, <2>1, FS_Subset
  <2>3. Cardinality(Sessions(w)) \in Nat /\ Cardinality(Sessions(s)) \in Nat
    BY <1>2, <2>2, FS_CardinalityType
  <2> QED BY <1>2, <2>2, <2>3, RendererConstants DEF RendererConstants
<1>6. \A d \in Displays :
        w.displays[d] # None => child[w.displays[d].generation].display = d
  BY <1>1, <1>2
<1>7. w \in [displays : [Displays -> Session \cup {None}], credentials : SUBSET Generations]
  BY <1>1, <1>2, <1>3
<1> QED BY <1>0, <1>1, <1>4, <1>5, <1>6, <1>7 DEF SessionsOk

\* The processes there are continue, and others may begin.
Continues ==
  /\ Generations \subseteq Generations'
  /\ \A g \in Generations :
       child'[g].display = child[g].display /\ child'[g].kind = child[g].kind

LEMMA SessionsContinue ==
  ASSUME NEW s, SessionsOk(s), Continues, sessions' = s
  PROVE  SessionsOk(sessions)'
<1>1. Session \subseteq Session'
  BY DEF Session, Continues
<1>2. s.displays \in [Displays -> Session' \cup {None}]
  BY <1>1 DEF SessionsOk
<1>3. s \in [displays : [Displays -> Session' \cup {None}], credentials : SUBSET Generations']
  BY <1>2 DEF SessionsOk, Continues
<1>4. ASSUME NEW d \in Displays, s.displays[d] # None
      PROVE  child'[s.displays[d].generation].display = d
  <2>1. s.displays[d].generation \in Generations
    BY <1>4 DEF SessionsOk, Session
  <2> QED BY <1>4, <2>1 DEF SessionsOk, Continues
<1> QED BY <1>3, <1>4 DEF SessionsOk, Sessions, Pending

-----------------------------------------------------------------------------
(* Steps in which processes continue and sessions end.                     *)

LEMMA ProcessesContinue ==
  ASSUME Core, child' \in [Generations -> Process],
         \A g \in Generations : ProcessOk(child'[g]) /\ SamePlace(child[g], child'[g])
  PROVE  Generations' = Generations /\ Continues /\ ProcessesOk'
<1>1. Len(child) \in Nat /\ Generations = 1 .. Len(child)
  BY GenerationsOk DEF Core
<1>2. child' \in Seq(Process) /\ DOMAIN child' = Generations
  BY <1>1, ProcessesAreSequence
<1>3. Generations' = Generations
  BY <1>2 DEF Generations
<1> QED BY <1>2, <1>3 DEF ProcessesOk, Continues, SamePlace

\* What the backend knows stays true of processes that continue.
LEMMA ActualContinues ==
  ASSUME Core, Continues, NEW f, actual' = f, DOMAIN f = Displays,
         f = [d \in Displays |-> f[d]],
         \A d \in Displays : f[d] \in {None, actual[d]}
  PROVE  ActualOk'
<1>1. \A d \in Displays :
        actual[d] # None =>
          /\ actual[d] \in [generation : Generations, content : Contents]
          /\ Fits(actual[d].generation, d, actual[d].content)
  BY DEF Core, ActualOk
<1>2. \A d \in Displays :
        f[d] # None =>
          /\ f[d] \in [generation : Generations', content : Contents]
          /\ Fits(f[d].generation, d, f[d].content)'
  BY <1>1 DEF Continues, Fits
<1>3. f \in [Displays -> [generation : Generations', content : Contents] \cup {None}]
  BY <1>2
<1> QED BY <1>2, <1>3 DEF ActualOk

LEMMA BackendContinues ==
  ASSUME Core, Continues, UNCHANGED <<actual, backend>>
  PROVE  BackendOk'
<1>1. CASE backend = Idle
  BY <1>1 DEF BackendOk, Idle
<1>2. CASE /\ backend \in [pc : {"creating", "breaking"}, display : Displays,
                            generation : Generations, content : Contents]
           /\ actual[backend.display] = None
           /\ Fits(backend.generation, backend.display, backend.content)
  BY <1>2 DEF BackendOk, Continues, Fits
<1> QED BY <1>1, <1>2 DEF Core, BackendOk

\* A step that is about the displays of D and their processes.
LEMMA CoreStays ==
  ASSUME Core, NEW D, Continues, ProcessesOk',
         SessionsOk(sessions)', old' \subseteq sessions'.credentials, ActualOk', BackendOk',
         \A g \in Generations : child[g].display \notin D => Follows(child[g], child'[g]),
         \A d \in Displays : d \in D => SessionOk(d)',
         \A d \in Displays : d \notin D =>
           /\ sessions'.displays[d] \in {None, sessions.displays[d]}
           /\ sessions'.displays[d] # None => Believed(d)' = Believed(d)
  PROVE  Core'
<1>1. ASSUME NEW d \in Displays PROVE SessionOk(d)'
  <2>1. CASE sessions'.displays[d] = None
    BY <2>1 DEF SessionOk
  <2>2. CASE sessions'.displays[d] # None /\ d \notin D
    <3> PICK x : x = sessions.displays[d]
      OBVIOUS
    <3> PICK g : g = x.generation
      OBVIOUS
    <3>1. sessions'.displays[d] = x /\ x # None
      BY <2>2
    <3>2. g \in Generations /\ child[g].display = d
      BY <3>1 DEF Core, SessionsOk, Session
    <3>3. /\ Believed(d) # None /\ Believed(d).generation = g
          /\ Kind(x.content) = child[g].kind
          /\ x.pending => ~x.sender /\ x.content = Believed(d).content
          /\ x.sender /\ Listens(child[g]) => Heard(child[g]) = Believed(d).content
      BY <3>1 DEF Core, SessionOk
    <3>4. Believed(d)' = Believed(d) /\ Follows(child[g], child'[g])
      BY <2>2, <3>2
    <3> QED BY <3>1, <3>3, <3>4 DEF SessionOk, Follows, SamePlace
  <2> QED BY <2>1, <2>2
<1> QED BY <1>1 DEF Core

\* Sessions end, and the processes follow.
LEMMA SessionsEnd ==
  ASSUME Core, NEW E \in SUBSET Displays, sessions' = Without(sessions, E),
         old' \subseteq sessions'.credentials,
         child' \in [Generations -> Process],
         \A g \in Generations : Follows(child[g], child'[g]),
         UNCHANGED <<actual, backend>>
  PROVE  Core'
<1>1. SessionsOk(sessions)
  BY DEF Core
<1>2. PICK w : w = Without(sessions, E)
  OBVIOUS
<1>3. SessionsOk(w) /\ \A d \in Displays : w.displays[d] \in {None, sessions.displays[d]}
  BY <1>1, <1>2, WithoutOk
<1>4. Continues /\ ProcessesOk'
  BY ProcessesContinue DEF Follows, SamePlace
<1>5. SessionsOk(sessions)'
  BY <1>2, <1>3, <1>4, SessionsContinue
<1>6. ActualOk'
  <2>1. actual = [d \in Displays |-> actual[d]] /\ DOMAIN actual = Displays
    BY DEF Core, ActualOk
  <2> PICK f : f = actual
    OBVIOUS
  <2>2. f = [d \in Displays |-> f[d]] /\ DOMAIN f = Displays
    BY <2>1
  <2> QED BY <1>4, <2>2, ActualContinues
<1>7. BackendOk'
  BY <1>4, BackendContinues
<1>8. \A d \in Displays : Believed(d)' = Believed(d)
  BY DEF Believed
<1>9. \A d \in Displays : sessions'.displays[d] \in {None, sessions.displays[d]}
  BY <1>2, <1>3
<1>10. Core'
  <2> PICK D : D = {}
    OBVIOUS
  <2>1. \A d : d \notin D
    OBVIOUS
  <2> QED BY <1>4, <1>5, <1>6, <1>7, <1>8, <1>9, <2>1, CoreStays
<1> QED BY <1>10

\* A step of one process, or of its connection.
LEMMA OneMoves ==
  ASSUME Core, NEW g \in Generations, NEW p, Follows(child[g], p),
         child' = [child EXCEPT ![g] = p],
         UNCHANGED <<sessions, old, actual, backend>>
  PROVE  Core'
<1>1. child \in [Generations -> Process]
  BY GenerationsOk DEF Core
<1>2. /\ child'[g] = p
      /\ \A h \in Generations : h # g => child'[h] = child[h]
      /\ p \in Process
  BY <1>1 DEF Follows, ProcessOk
<1>3. child' \in [Generations -> Process]
  BY <1>1, <1>2
<1>4. \A h \in Generations : Follows(child[h], child'[h])
  BY <1>2 DEF Core, ProcessesOk, Follows, SamePlace
<1>5. sessions' = Without(sessions, {})
  <2>1. /\ sessions = [displays |-> sessions.displays, credentials |-> sessions.credentials]
        /\ sessions.displays = [d \in Displays |-> sessions.displays[d]]
    BY DEF Core, SessionsOk
  <2>2. Pending(sessions, {}) = {}
    BY DEF Pending
  <2> QED BY <2>1, <2>2 DEF Without
<1>6. old' \subseteq sessions'.credentials
  BY DEF Core
<1> QED BY <1>3, <1>4, <1>5, <1>6, SessionsEnd

-----------------------------------------------------------------------------
(* What is done to one process.                                            *)

LEMMA GoneOk ==
  ASSUME NEW p, ProcessOk(p)
  PROVE  /\ ProcessOk(Gone(p)) /\ ~Listens(Gone(p))
         /\ Gone(p).display = p.display /\ Gone(p).kind = p.kind
         /\ Gone(p).task = p.task /\ Gone(p).frames = p.frames
<1> PICK q : q = Gone(p)
  OBVIOUS
<1> PICK e : e = <<>>
  OBVIOUS
<1>e. e \in Seq(Messages) /\ DOMAIN e = {} /\ Len(e) = 0
  OBVIOUS
<1>1. /\ p \in Process /\ q = [p EXCEPT !.pc = "gone", !.shown = None, !.wire = e]
  BY DEF ProcessOk, Gone
<1>2. /\ q \in Process /\ q.pc = "gone" /\ q.wire = e /\ q.channel = p.channel
      /\ q.display = p.display /\ q.kind = p.kind /\ q.task = p.task /\ q.frames = p.frames
  BY <1>1, <1>e DEF Process
<1> QED BY <1>1, <1>2, <1>e DEF ProcessOk, Listens

\* A connection that returned, at its end of a process.
Closed(p) == [p EXCEPT !.task = "returned", !.channel = <<>>, !.frames = <<>>]

LEMMA ClosedOk ==
  ASSUME NEW p, ProcessOk(p), p.task # "none"
  PROVE  /\ ProcessOk(Closed(p)) /\ ~Listens(Closed(p))
         /\ Closed(p).display = p.display /\ Closed(p).kind = p.kind
<1> PICK q : q = Closed(p)
  OBVIOUS
<1> PICK e : e = <<>>
  OBVIOUS
<1>e. /\ e \in Seq(Messages) /\ e \in Seq(AttentionActions)
      /\ DOMAIN e = {} /\ Len(e) = 0
  OBVIOUS
<1>1. p \in Process /\ q = [p EXCEPT !.task = "returned", !.channel = e, !.frames = e]
  BY DEF ProcessOk, Closed
<1>2. /\ q \in Process /\ q.task = "returned" /\ q.wire = p.wire /\ q.channel = e
      /\ q.display = p.display /\ q.kind = p.kind /\ q.pc = p.pc
  BY <1>1, <1>e DEF Process
<1> QED BY <1>1, <1>2, <1>e, RendererConstants DEF RendererConstants, ProcessOk, Listens

\* One more message to the end of a line of messages.
Fitting(s, kind) ==
  \A n \in DOMAIN s : s[n].type = "content" => Kind(s[n].content) = kind

LEMMA OneMoreFits ==
  ASSUME NEW s \in Seq(Messages), NEW kind, Fitting(s, kind),
         NEW m \in Messages, m.type = "content" => Kind(m.content) = kind
  PROVE  /\ Append(s, m) \in Seq(Messages) /\ Fitting(Append(s, m), kind)
         /\ Len(Append(s, m)) = Len(s) + 1
<1> PICK u : u = Append(s, m)
  OBVIOUS
<1>1. /\ u \in Seq(Messages) /\ Len(u) = Len(s) + 1 /\ Len(s) \in Nat
      /\ DOMAIN u = 1 .. Len(s) + 1 /\ DOMAIN s = 1 .. Len(s)
      /\ u[Len(s) + 1] = m /\ \A n \in DOMAIN s : u[n] = s[n]
  OBVIOUS
<1>2. \A n \in DOMAIN u : n \in DOMAIN s \/ n = Len(s) + 1
  BY <1>1
<1> QED BY <1>1, <1>2 DEF Fitting

LEMMA PlainMessages ==
  /\ Terminate \in Messages /\ Terminate.type = "terminate"
  /\ Error \in Messages /\ Error.type = "error"
  /\ \A c \in Contents : Says(c) \in Messages /\ Says(c).type = "content" /\ Says(c).content = c
BY DEF Messages, Terminate, Error, Says

\* A message is put into the channel.
Queued(p, m) == [p EXCEPT !.channel = Append(@, m)]

LEMMA QueuedOk ==
  ASSUME NEW p, ProcessOk(p), Len(p.channel) < ChannelCapacity,
         NEW m \in Messages, m.type = "content" => Kind(m.content) = p.kind
  PROVE  /\ ProcessOk(Queued(p, m)) /\ Queued(p, m) \in Process
         /\ Queued(p, m) = [p EXCEPT !.channel = Append(p.channel, m)]
<1> PICK q : q = Queued(p, m)
  OBVIOUS
<1> PICK u : u = Append(p.channel, m)
  OBVIOUS
<1>1. p \in Process /\ q = [p EXCEPT !.channel = u]
  BY DEF ProcessOk, Queued
<1>2. p.channel \in Seq(Messages)
  BY <1>1 DEF Process
<1>3. u \in Seq(Messages) /\ Fitting(u, p.kind) /\ Len(u) = Len(p.channel) + 1
  BY <1>2, OneMoreFits DEF ProcessOk, Fitting
<1>4. /\ q \in Process /\ q.pc = p.pc /\ q.wire = p.wire /\ q.channel = u
      /\ q.kind = p.kind /\ q.task = p.task /\ q.frames = p.frames
  BY <1>1, <1>3 DEF Process
<1>5. Len(u) <= ChannelCapacity
  BY <1>2, <1>3, RendererConstants DEF RendererConstants
<1> QED BY <1>1, <1>3, <1>4, <1>5 DEF ProcessOk, Fitting

\* A message is on its way.
Wired(p, m) == [p EXCEPT !.wire = Append(@, m)]

LEMMA WiredOk ==
  ASSUME NEW p, ProcessOk(p),
         NEW m \in Messages, m.type = "content" => Kind(m.content) = p.kind
  PROVE  /\ ProcessOk(Wired(p, m)) /\ Wired(p, m) \in Process
         /\ Wired(p, m) = [p EXCEPT !.wire = Append(p.wire, m)]
<1> PICK q : q = Wired(p, m)
  OBVIOUS
<1> PICK u : u = Append(p.wire, m)
  OBVIOUS
<1>1. p \in Process /\ q = [p EXCEPT !.wire = u]
  BY DEF ProcessOk, Wired
<1>2. p.wire \in Seq(Messages)
  BY <1>1 DEF Process
<1>3. u \in Seq(Messages) /\ Fitting(u, p.kind)
  BY <1>2, OneMoreFits DEF ProcessOk, Fitting
<1>4. /\ q \in Process /\ q.pc = p.pc /\ q.channel = p.channel /\ q.wire = u
      /\ q.kind = p.kind /\ q.task = p.task /\ q.frames = p.frames
  BY <1>1, <1>3 DEF Process
<1> QED BY <1>1, <1>3, <1>4 DEF ProcessOk, Fitting

-----------------------------------------------------------------------------
(* The processes of displays that end.                                     *)

LEMMA ToldOk ==
  ASSUME Core, NEW D, NEW g \in Generations
  PROVE  /\ ProcessOk(Told(D)[g]) /\ SameTask(child[g], Told(D)[g])
         /\ child[g].display \notin D => Told(D)[g] = child[g]
<1>0. ProcessOk(child[g])
  BY DEF Core, ProcessesOk
<1>1. CASE child[g].display \in D /\ HasSender(g) /\ HasReceiver(g) /\ HasRoom(g)
  <2>1. Told(D)[g] = Queued(child[g], Terminate)
    BY <1>1 DEF Told, Queued
  <2>2. /\ ProcessOk(Queued(child[g], Terminate))
        /\ Queued(child[g], Terminate) \in Process
        /\ Queued(child[g], Terminate) =
             [child[g] EXCEPT !.channel = Append(child[g].channel, Terminate)]
    BY <1>0, <1>1, PlainMessages, QueuedOk DEF HasRoom
  <2>3. SameTask(child[g], Queued(child[g], Terminate))
    BY <1>0, <2>2 DEF SameTask, SamePlace, ProcessOk, Process
  <2> QED BY <1>1, <2>1, <2>2, <2>3
<1>2. CASE ~(child[g].display \in D /\ HasSender(g) /\ HasReceiver(g) /\ HasRoom(g))
  <2>1. Told(D)[g] = child[g]
    BY <1>2 DEF Told
  <2> QED BY <1>0, <2>1 DEF SameTask, SamePlace
<1> QED BY <1>1, <1>2

LEMMA KilledOk ==
  ASSUME Core, NEW D \in SUBSET Displays, \A d \in D : actual[d] # None,
         NEW g \in Generations
  PROVE  /\ ProcessOk(Killed(D)[g]) /\ SameTask(child[g], Killed(D)[g])
         /\ child[g].display \notin D => Killed(D)[g] = child[g]
<1>1. CASE \E d \in D : actual[d].generation = g
  <2>1. Killed(D)[g] = Gone(Told(D)[g])
    BY <1>1 DEF Killed
  <2>2. child[g].display \in D
    BY <1>1 DEF Core, ActualOk, Fits
  <2> QED BY <2>1, <2>2, ToldOk, GoneOk DEF SameTask, SamePlace
<1>2. CASE ~\E d \in D : actual[d].generation = g
  <2>1. Killed(D)[g] = Told(D)[g]
    BY <1>2 DEF Killed
  <2> QED BY <2>1, ToldOk
<1> QED BY <1>1, <1>2

\* The displays of D end, registered or in the making.
LEMMA DisplaysEnd ==
  ASSUME Core, NEW D \in SUBSET Displays,
         sessions' = Without(sessions, D), old' \subseteq sessions'.credentials,
         actual' = [d \in Displays |-> IF d \in D THEN None ELSE actual[d]],
         backend' = Idle, backend # Idle => backend.display \in D,
         child' \in [Generations -> Process],
         \A g \in Generations :
           /\ ProcessOk(child'[g]) /\ SamePlace(child[g], child'[g])
           /\ child[g].display \notin D => Follows(child[g], child'[g])
  PROVE  Core'
<1>1. SessionsOk(sessions)
  BY DEF Core
<1>2. PICK w : w = Without(sessions, D)
  OBVIOUS
<1>3. /\ SessionsOk(w)
      /\ \A d \in Displays : w.displays[d] = IF d \in D THEN None ELSE sessions.displays[d]
  BY <1>1, <1>2, WithoutOk
<1>4. Continues /\ ProcessesOk'
  BY ProcessesContinue
<1>5. SessionsOk(sessions)'
  BY <1>2, <1>3, <1>4, SessionsContinue
<1>6. ActualOk'
  <2> PICK f : f = actual'
    OBVIOUS
  <2>1. /\ f = [d \in Displays |-> f[d]] /\ DOMAIN f = Displays
        /\ \A d \in Displays : f[d] \in {None, actual[d]}
    OBVIOUS
  <2> QED BY <1>4, <2>1, ActualContinues
<1>7. BackendOk'
  BY DEF BackendOk, Idle
<1>8. ASSUME NEW d \in Displays
      PROVE  /\ d \in D => SessionOk(d)'
             /\ d \notin D => /\ sessions'.displays[d] \in {None, sessions.displays[d]}
                              /\ sessions'.displays[d] # None => Believed(d)' = Believed(d)
  <2>1. CASE d \in D
    BY <1>2, <1>3, <2>1 DEF SessionOk
  <2>2. CASE d \notin D
    BY <1>2, <1>3, <2>2 DEF Believed
  <2> QED BY <2>1, <2>2
<1> QED BY <1>4, <1>5, <1>6, <1>7, <1>8, CoreStays

-----------------------------------------------------------------------------
(* What a process or its connection does.                                  *)

LEMMA FollowsAgain ==
  ASSUME NEW p, NEW q, NEW r, Follows(p, q), Follows(q, r)
  PROVE  Follows(p, r)
BY DEF Follows, SamePlace

LEMMA GoneFollows ==
  ASSUME NEW p, ProcessOk(p)
  PROVE  Follows(p, Gone(p))
BY GoneOk DEF Follows, SamePlace

LEMMA ClosedFollows ==
  ASSUME NEW p, ProcessOk(p), p.task # "none"
  PROVE  Follows(p, Closed(p))
BY ClosedOk DEF Follows, SamePlace

\* A write, which fails when the process has ended.
Written(p, m) == IF p.pc = "gone" THEN Closed(p) ELSE Wired(p, m)

LEMMA SentIs ==
  ASSUME NEW c \in [Generations -> Process], NEW g \in Generations, NEW m
  PROVE  /\ Sent(c, g, m) = [c EXCEPT ![g] = Written(c[g], m)]
         /\ Returned(c, g) = [c EXCEPT ![g] = Closed(c[g])]
<1>1. Returned(c, g) = [c EXCEPT ![g] = Closed(c[g])]
  BY DEF Returned, Closed
<1>2. [c EXCEPT ![g].wire = Append(@, m)] = [c EXCEPT ![g] = Wired(c[g], m)]
  BY DEF Wired
<1> QED BY <1>1, <1>2 DEF Sent, Written

\* An error changes nothing of what is shown.
LEMMA ErrorFollows ==
  ASSUME NEW p, ProcessOk(p), p.task # "none"
  PROVE  Follows(p, Written(p, Error))
<1>1. CASE p.pc = "gone"
  BY <1>1, ClosedFollows DEF Written
<1>2. CASE p.pc # "gone"
  <2> PICK q : q = Wired(p, Error)
    OBVIOUS
  <2>1. ProcessOk(q) /\ q = [p EXCEPT !.wire = Append(p.wire, Error)]
    BY PlainMessages, WiredOk
  <2>2. p \in Process /\ p.wire \in Seq(Messages)
    BY DEF ProcessOk, Process
  <2>3. /\ q.display = p.display /\ q.kind = p.kind /\ q.task = p.task /\ q.pc = p.pc
        /\ q.channel = p.channel /\ q.shown = p.shown /\ q.wire = Append(p.wire, Error)
    BY <2>1, <2>2 DEF Process
  <2>4. LastContent(Append(p.wire, Error), p.shown) = LastContent(p.wire, p.shown)
    BY <2>2, PlainMessages, OneMoreSaid
  <2> QED BY <1>2, <2>1, <2>3, <2>4 DEF Follows, SamePlace, Listens, Heard, Written
<1> QED BY <1>1, <1>2

\* The action of a process is over.
LEMMA ActedFollows ==
  ASSUME NEW p, ProcessOk(p), p.task = "acting", NEW q,
         q = [p EXCEPT !.task = "pumping", !.frames = Tail(@)]
  PROVE  Follows(p, q) /\ q.task = "pumping"
<1>1. p \in Process /\ p.frames \in Seq(AttentionActions) /\ p.frames # <<>>
  BY DEF ProcessOk, Process
<1> PICK u : u = Tail(p.frames)
  OBVIOUS
<1>2. u \in Seq(AttentionActions)
  BY <1>1
<1>3. /\ q \in Process /\ q.task = "pumping" /\ q.display = p.display /\ q.kind = p.kind
      /\ q.pc = p.pc /\ q.channel = p.channel /\ q.wire = p.wire /\ q.shown = p.shown
  BY <1>1, <1>2 DEF Process
<1> QED BY <1>3 DEF Follows, SamePlace, Listens, Heard, ProcessOk

\* What is shown is a content, if any.
LEMMA LastContentType ==
  ASSUME NEW s \in Seq(Messages), NEW o \in Contents \cup {None}
  PROVE  LastContent(s, o) \in Contents \cup {None}
<1>1. CASE \A m \in DOMAIN s : s[m].type # "content"
  BY <1>1, NothingSaid
<1>2. ASSUME NEW n \in DOMAIN s, s[n].type = "content",
             \A m \in DOMAIN s : s[m].type = "content" => m <= n
      PROVE  LastContent(s, o) \in Contents
  <2>1. LastContent(s, o) = s[n].content
    BY <1>2, LastIs
  <2>2. s[n] \in Messages
    OBVIOUS
  <2>3. s[n].content \in Contents
    BY <1>2, <2>2 DEF Messages, Says, Terminate, Error
  <2> QED BY <2>1, <2>3
<1> QED BY <1>1, <1>2, SaysLast

\* A sequence is what comes first and what comes then.
LEMMA TwoParts ==
  ASSUME NEW w \in Seq(Messages), NEW n \in 1 .. Len(w)
  PROVE  \A r, t : r = SubSeq(w, 1, n) /\ t = SubSeq(w, n + 1, Len(w)) =>
           /\ r \in Seq(Messages) /\ t \in Seq(Messages) /\ w = r \o t
           /\ \A i \in DOMAIN t : i + n \in DOMAIN w /\ t[i] = w[i + n]
<1> SUFFICES ASSUME NEW r, NEW t, r = SubSeq(w, 1, n), t = SubSeq(w, n + 1, Len(w))
             PROVE  /\ r \in Seq(Messages) /\ t \in Seq(Messages) /\ w = r \o t
                    /\ \A i \in DOMAIN t : i + n \in DOMAIN w /\ t[i] = w[i + n]
  OBVIOUS
<1>1. /\ r \in Seq(Messages) /\ Len(r) = n /\ \A i \in 1 .. n : r[i] = w[i]
  BY SubSeqProperties
<1>2. /\ t \in Seq(Messages) /\ Len(t) = Len(w) - n
      /\ \A i \in 1 .. Len(w) - n : t[i] = w[i + n]
  <2>1. /\ n + 1 \in 1 .. Len(w) + 1 /\ Len(w) \in n .. Len(w)
        /\ \A i \in 1 .. Len(w) - n : i + n \in 1 .. Len(w)
    OBVIOUS
  <2> QED BY <2>1
<1>3. w = r \o t
  <2>1. 1 \in 1 .. Len(w) + 1 /\ n \in 1 - 1 .. Len(w) /\ Len(w) \in n .. Len(w)
    OBVIOUS
  <2>2. SubSeq(w, 1, n) \o SubSeq(w, n + 1, Len(w)) = SubSeq(w, 1, Len(w))
    BY <2>1, ConcatAdjacentSubSeq
  <2>3. SubSeq(w, 1, Len(w)) = w
    BY SubSeqFull
  <2>4. r \o t = SubSeq(w, 1, n) \o SubSeq(w, n + 1, Len(w))
    OBVIOUS
  <2> QED BY <2>2, <2>3, <2>4
<1>4. \A i \in DOMAIN t : i + n \in DOMAIN w /\ t[i] = w[i + n]
  <2>1. DOMAIN t = 1 .. Len(w) - n /\ DOMAIN w = 1 .. Len(w) /\ Len(w) \in Nat
    BY <1>2
  <2>2. \A i \in 1 .. Len(w) - n : i + n \in 1 .. Len(w)
    BY <2>1
  <2> QED BY <1>2, <2>1, <2>2
<1> QED BY <1>1, <1>2, <1>3, <1>4, Zenon

\* A process reads some messages.
LEMMA ReadFollows ==
  ASSUME NEW p, ProcessOk(p), p.pc = "up", NEW n \in 1 .. Len(p.wire), NEW q,
         q = [p EXCEPT !.wire  = SubSeq(@, n + 1, Len(@)),
                       !.shown = LastContent(SubSeq(p.wire, 1, n), @)]
  PROVE  Follows(p, q)
<1>1. p \in Process /\ p.wire \in Seq(Messages) /\ p.shown \in Contents \cup {None}
  BY DEF ProcessOk, Process
<1>w. PICK w, o : w = p.wire /\ o = p.shown
  OBVIOUS
<1>r. PICK r, t : r = SubSeq(w, 1, n) /\ t = SubSeq(w, n + 1, Len(w))
  OBVIOUS
<1>a. w \in Seq(Messages) /\ n \in 1 .. Len(w) /\ o \in Contents \cup {None}
  BY <1>1, <1>w
<1>b. q = [p EXCEPT !.wire = t, !.shown = LastContent(r, o)]
  BY <1>w, <1>r
<1>2. /\ r \in Seq(Messages) /\ t \in Seq(Messages) /\ w = r \o t
      /\ \A i \in DOMAIN t : i + n \in DOMAIN w /\ t[i] = w[i + n]
  <2>1. \A x, y : x = SubSeq(w, 1, n) /\ y = SubSeq(w, n + 1, Len(w)) =>
           /\ x \in Seq(Messages) /\ y \in Seq(Messages) /\ w = x \o y
           /\ \A i \in DOMAIN y : i + n \in DOMAIN w /\ y[i] = w[i + n]
    BY <1>a, TwoParts, Zenon
  <2> QED BY <1>r, <2>1, Zenon
<1>3. /\ LastContent(r, o) \in Contents \cup {None}
      /\ LastContent(w, o) = LastContent(t, LastContent(r, o))
  BY <1>a, <1>2, LastContentType, ReadInParts
<1>4. /\ q \in Process /\ q.task = p.task /\ q.display = p.display /\ q.kind = p.kind
      /\ q.pc = p.pc /\ q.channel = p.channel /\ q.wire = t /\ q.frames = p.frames
      /\ q.shown = LastContent(r, o)
  BY <1>1, <1>b, <1>2, <1>3 DEF Process
<1>5. \A i \in DOMAIN t : t[i].type = "content" => Kind(t[i].content) = p.kind
  BY <1>2, <1>w DEF ProcessOk
<1>6. ProcessOk(q)
  BY <1>4, <1>5 DEF ProcessOk
<1> QED BY <1>w, <1>3, <1>4, <1>6 DEF Follows, SamePlace, Listens, Heard

\* The head of the channel goes on its way, or the write fails.
LEMMA PumpFollows ==
  ASSUME NEW p, ProcessOk(p), p.task # "none", p.channel # <<>>, NEW q,
         q = [p EXCEPT !.channel = Tail(@)]
  PROVE  /\ Follows(p, Written(q, Head(p.channel)))
         /\ Follows(p, Closed(Written(q, Head(p.channel))))
         /\ q \in Process
<1>1. p \in Process /\ p.wire \in Seq(Messages) /\ p.channel \in Seq(Messages)
  BY DEF ProcessOk, Process
<1> PICK m, t : m = Head(p.channel) /\ t = Tail(p.channel)
  OBVIOUS
<1>2. /\ m \in Messages /\ t \in Seq(Messages) /\ Len(t) <= Len(p.channel)
      /\ 1 \in DOMAIN p.channel /\ p.channel[1] = m
      /\ \A i \in DOMAIN t : i + 1 \in DOMAIN p.channel /\ t[i] = p.channel[i + 1]
  BY <1>1
<1>3. /\ q \in Process /\ q.task = p.task /\ q.display = p.display /\ q.kind = p.kind
      /\ q.pc = p.pc /\ q.channel = t /\ q.wire = p.wire /\ q.frames = p.frames
      /\ q.shown = p.shown
  BY <1>1, <1>2 DEF Process
<1>4. \A i \in DOMAIN t : t[i].type = "content" => Kind(t[i].content) = p.kind
  BY <1>2 DEF ProcessOk
<1>5. Len(t) <= ChannelCapacity
  BY <1>1, <1>2, RendererConstants DEF RendererConstants, ProcessOk
<1>6. ProcessOk(q)
  BY <1>3, <1>4, <1>5 DEF ProcessOk
<1>7. m.type = "content" => Kind(m.content) = q.kind
  BY <1>2, <1>3 DEF ProcessOk
<1>8. Follows(p, Written(q, m)) /\ Written(q, m).task # "none"
  <2>1. CASE q.pc = "gone"
    <3>1. Closed(q).task = "returned"
      BY <1>3 DEF Closed, Process
    <3> QED BY <1>3, <1>6, <2>1, <3>1, ClosedOk DEF Written, Follows, SamePlace
  <2>2. CASE q.pc # "gone"
    <3> PICK r : r = Wired(q, m)
      OBVIOUS
    <3>1. ProcessOk(r) /\ r = [q EXCEPT !.wire = Append(q.wire, m)]
      BY <1>2, <1>6, <1>7, WiredOk
    <3>2. /\ r.display = p.display /\ r.kind = p.kind /\ r.task = p.task /\ r.pc = p.pc
          /\ r.channel = t /\ r.shown = p.shown /\ r.wire = Append(p.wire, m)
      BY <1>3, <3>1 DEF Process
    <3>3. LastContent(t, LastContent(Append(p.wire, m), p.shown)) =
            LastContent(p.channel, LastContent(p.wire, p.shown))
      BY <1>1, HeadIsSent
    <3>4. Written(q, m) = r
      BY <2>2 DEF Written
    <3>5. Follows(p, r)
      BY <3>1, <3>2, <3>3 DEF Follows, SamePlace, Listens, Heard
    <3> QED BY <3>2, <3>4, <3>5
  <2> QED BY <2>1, <2>2
<1>9. Follows(p, Closed(Written(q, m)))
  <2>1. ProcessOk(Written(q, m))
    BY <1>8 DEF Follows
  <2>2. Follows(Written(q, m), Closed(Written(q, m)))
    BY <1>8, <2>1, ClosedFollows
  <2> QED BY <1>8, <2>2, FollowsAgain
<1> QED BY <1>3, <1>8, <1>9

-----------------------------------------------------------------------------
(* Steps of one process or of its connection.                              *)

\* What every such step starts from.
LEMMA OfProcess ==
  ASSUME Core, NEW g \in Generations
  PROVE  ProcessOk(child[g]) /\ child[g] \in Process /\ child \in [Generations -> Process]
BY GenerationsOk DEF Core, ProcessesOk, ProcessOk

LEMMA DieKeeps ==
  ASSUME Core, NEW g \in Generations, Die(g)
  PROVE  Core'
<1>1. Follows(child[g], Gone(child[g]))
  BY OfProcess, GoneFollows
<1> PICK p : p = Gone(child[g])
  OBVIOUS
<1> QED BY <1>1, OneMoves DEF Die

LEMMA EndOfStreamKeeps ==
  ASSUME Core, NEW g \in Generations, EndOfStream(g)
  PROVE  Core'
<1>1. Follows(child[g], Gone(child[g]))
  BY OfProcess, GoneFollows
<1> QED BY <1>1, OneMoves DEF EndOfStream

LEMMA SplitKeeps ==
  ASSUME Core, NEW g \in Generations, Split(g)
  PROVE  Core'
<1>1. PICK pc \in {"up", "never"} : child' = [child EXCEPT ![g].pc = pc]
  BY DEF Split
<1> PICK p : p = [child[g] EXCEPT !.pc = pc]
  OBVIOUS
<1>2. child[g].task = "none" /\ ProcessOk(child[g]) /\ child[g] \in Process
  BY OfProcess DEF Split, ProcessOk
<1>3. /\ p \in Process /\ p.task = "none" /\ p.display = child[g].display
      /\ p.kind = child[g].kind /\ p.channel = child[g].channel /\ p.wire = child[g].wire
  BY <1>2 DEF Process
<1>4. Follows(child[g], p)
  BY <1>2, <1>3 DEF Follows, SamePlace, Listens, ProcessOk
<1> QED BY <1>1, <1>4, OneMoves DEF Split

LEMMA ConnectKeeps ==
  ASSUME Core, NEW g \in Generations, Connect(g)
  PROVE  Core'
<1> PICK p : p = [child[g] EXCEPT !.task = "asked"]
  OBVIOUS
<1>1. child[g].pc = "up" /\ ProcessOk(child[g]) /\ child[g] \in Process
  BY OfProcess DEF Connect
<1>2. /\ p \in Process /\ p.task = "asked" /\ p.display = child[g].display /\ p.pc = "up"
      /\ p.kind = child[g].kind /\ p.channel = child[g].channel /\ p.wire = child[g].wire
  BY <1>1 DEF Process
<1>3. Follows(child[g], p)
  BY <1>1, <1>2 DEF Follows, SamePlace, Listens, ProcessOk
<1> QED BY <1>3, OneMoves DEF Connect

LEMMA PollKeeps ==
  ASSUME Core, NEW g \in Generations, Poll(g)
  PROVE  Core'
<1>0. ProcessOk(child[g]) /\ child[g].pc = "up"
  BY OfProcess DEF Poll
<1> DEFINE read(n) == SubSeq(child[g].wire, 1, n)
           ends(n) == \/ n > MaxPendingFrames
                      \/ \E i \in 1 .. n : \/ read(n)[i] = Terminate
                                           \/ /\ read(n)[i].type = "content"
                                              /\ ~Presentable(g, read(n)[i].content)
           rest(n) == [child[g] EXCEPT !.wire  = SubSeq(@, n + 1, Len(@)),
                                       !.shown = LastContent(read(n), @)]
<1>1. PICK n \in 1 .. Len(child[g].wire) :
        child' = [child EXCEPT ![g] = IF ends(n) THEN Gone(child[g]) ELSE rest(n)]
  BY Zenon DEF Poll
<1>2. Follows(child[g], rest(n))
  BY <1>0, ReadFollows
<1> HIDE DEF read, ends, rest
<1>3. PICK p : Follows(child[g], p) /\ child' = [child EXCEPT ![g] = p]
  <2>1. CASE ends(n)
    BY <1>0, <1>1, <2>1, GoneFollows
  <2>2. CASE ~ends(n)
    BY <1>1, <1>2, <2>2
  <2> QED BY <2>1, <2>2
<1> QED BY <1>3, OneMoves DEF Poll

LEMMA KeyKeeps ==
  ASSUME Core, NEW g \in Generations, NEW action \in AttentionActions, Key(g, action)
  PROVE  Core'
<1>1. child[g] \in Process /\ ProcessOk(child[g]) /\ child[g].frames \in Seq(AttentionActions)
  BY OfProcess DEF Process
<1> PICK f : f = Append(child[g].frames, action)
  OBVIOUS
<1>2. f \in Seq(AttentionActions) /\ f # <<>>
  BY <1>1
<1> PICK p : p = [child[g] EXCEPT !.frames = f]
  OBVIOUS
<1>3. /\ p \in Process /\ p.task = child[g].task /\ p.display = child[g].display
      /\ p.kind = child[g].kind /\ p.channel = child[g].channel /\ p.wire = child[g].wire
      /\ p.pc = child[g].pc /\ p.shown = child[g].shown /\ p.frames = f
  BY <1>1, <1>2 DEF Process
<1>4. Follows(child[g], p)
  BY <1>1, <1>2, <1>3 DEF Follows, SamePlace, Listens, Heard, ProcessOk
<1>5. child' = [child EXCEPT ![g] = p]
  BY DEF Key
<1> QED BY <1>4, <1>5, OneMoves DEF Key

\* The connection returns.
LEMMA ReturnKeeps ==
  ASSUME Core, NEW g \in Generations, child[g].task # "none",
         child' = Returned(child, g), UNCHANGED <<sessions, old, actual, backend>>
  PROVE  Core'
<1>1. Follows(child[g], Closed(child[g]))
  BY OfProcess, ClosedFollows
<1>2. child' = [child EXCEPT ![g] = Closed(child[g])]
  <2>1. child \in [Generations -> Process]
    BY OfProcess
  <2> QED BY <2>1 DEF Returned, Closed
<1> QED BY <1>1, <1>2, OneMoves

LEMMA PumpKeeps ==
  ASSUME Core, NEW g \in Generations, Pump(g)
  PROVE  Core'
<1>1. /\ ProcessOk(child[g]) /\ child[g] \in Process /\ child \in [Generations -> Process]
      /\ child[g].task = "pumping"
  BY OfProcess DEF Pump
<1>2. CASE child' = Returned(child, g)
  BY <1>1, <1>2, ReturnKeeps DEF Pump
<1>3. CASE /\ child[g].channel # <<>>
           /\ LET m == Head(child[g].channel)
                  c == Sent([child EXCEPT ![g].channel = Tail(@)], g, m)
              IN  child' = IF m = Terminate THEN Returned(c, g) ELSE c
  <2>0. PICK m, q : /\ m = Head(child[g].channel)
                    /\ q = [child[g] EXCEPT !.channel = Tail(@)]
    OBVIOUS
  <2>1. PICK c : c = [child EXCEPT ![g] = q]
    OBVIOUS
  <2>2. /\ Follows(child[g], Written(q, m)) /\ Follows(child[g], Closed(Written(q, m)))
        /\ q \in Process
    BY <1>1, <1>3, <2>0, PumpFollows
  <2>3. c = [child EXCEPT ![g].channel = Tail(@)]
    BY <2>0, <2>1
  <2>4. c \in [Generations -> Process] /\ c[g] = q
    BY <1>1, <2>1, <2>2
  <2>5. PICK w : w = Sent(c, g, m)
    OBVIOUS
  <2>6. w = [c EXCEPT ![g] = Written(q, m)]
    BY <2>4, <2>5, SentIs
  <2>7. child' = IF m = Terminate THEN Returned(w, g) ELSE w
    BY <1>3, <2>0, <2>3, <2>5
  <2>8. w = [child EXCEPT ![g] = Written(q, m)]
    BY <2>1, <2>6
  <2>9. w \in [Generations -> Process] /\ w[g] = Written(q, m)
    BY <1>1, <2>2, <2>8 DEF Follows, ProcessOk
  <2>10. Returned(w, g) = [w EXCEPT ![g] = Closed(Written(q, m))]
    BY <2>9, SentIs
  <2>11. Returned(w, g) = [child EXCEPT ![g] = Closed(Written(q, m))]
    BY <2>8, <2>10
  <2>12. PICK p : child' = [child EXCEPT ![g] = p] /\ Follows(child[g], p)
    BY <2>2, <2>7, <2>8, <2>11
  <2> QED BY <2>12, OneMoves DEF Pump
<1> QED BY <1>2, <1>3 DEF Pump

LEMMA HangUpKeeps ==
  ASSUME Core, NEW g \in Generations, HangUp(g) \/ Flooded(g)
  PROVE  Core'
BY ReturnKeeps DEF HangUp, Flooded

\* The error of an action that failed.
LEMMA ErrorKeeps ==
  ASSUME Core, NEW g \in Generations, NEW c, NEW q,
         Follows(child[g], q), q.task # "none", c = [child EXCEPT ![g] = q],
         child' = Sent(c, g, Error), UNCHANGED <<sessions, old, actual, backend>>
  PROVE  Core'
<1>1. /\ child \in [Generations -> Process] /\ ProcessOk(q) /\ q \in Process
  BY OfProcess DEF Follows, ProcessOk
<1>2. c \in [Generations -> Process] /\ c[g] = q
  BY <1>1
<1>3. child' = [c EXCEPT ![g] = Written(q, Error)]
  BY <1>2, SentIs
<1>4. child' = [child EXCEPT ![g] = Written(q, Error)]
  BY <1>3
<1>5. Follows(child[g], Written(q, Error))
  BY <1>1, ErrorFollows, FollowsAgain
<1> QED BY <1>4, <1>5, OneMoves

LEMMA ActKeeps ==
  ASSUME Core, NEW g \in Generations, Act(g)
  PROVE  Core'
<1>1. /\ ProcessOk(child[g]) /\ child[g] \in Process /\ child[g].task = "pumping"
      /\ child[g].frames \in Seq(AttentionActions) /\ child[g].frames # <<>>
  BY OfProcess DEF Act, Process
<1>2. CASE child' = [child EXCEPT ![g].task = "acting"]
  <2> PICK p : p = [child[g] EXCEPT !.task = "acting"]
    OBVIOUS
  <2>1. /\ p \in Process /\ p.task = "acting" /\ p.display = child[g].display
        /\ p.kind = child[g].kind /\ p.channel = child[g].channel /\ p.wire = child[g].wire
        /\ p.pc = child[g].pc /\ p.shown = child[g].shown /\ p.frames = child[g].frames
    BY <1>1 DEF Process
  <2>2. Follows(child[g], p)
    BY <1>1, <2>1 DEF Follows, SamePlace, Listens, Heard, ProcessOk
  <2> QED BY <1>2, <2>2, OneMoves DEF Act
<1>3. CASE child' = Sent([child EXCEPT ![g].frames = Tail(@)], g, Error)
  <2>1. PICK f : f = Tail(child[g].frames)
    OBVIOUS
  <2>2. f \in Seq(AttentionActions)
    BY <1>1, <2>1
  <2>3. PICK q : q = [child[g] EXCEPT !.frames = f]
    OBVIOUS
  <2>4. /\ q \in Process /\ q.task = "pumping" /\ q.display = child[g].display
        /\ q.kind = child[g].kind /\ q.channel = child[g].channel /\ q.wire = child[g].wire
        /\ q.pc = child[g].pc /\ q.shown = child[g].shown
    BY <1>1, <2>2, <2>3 DEF Process
  <2>5. Follows(child[g], q)
    BY <1>1, <2>4 DEF Follows, SamePlace, Listens, Heard, ProcessOk
  <2>6. PICK c : c = [child EXCEPT ![g] = q]
    OBVIOUS
  <2>7. c = [child EXCEPT ![g].frames = Tail(@)]
    BY <2>1, <2>3, <2>6
  <2> QED BY <1>3, <2>4, <2>5, <2>6, <2>7, ErrorKeeps DEF Act
<1> QED BY <1>2, <1>3 DEF Act

\* Acted, as a step of one process.
LEMMA ActedIs ==
  ASSUME Core, NEW g \in Generations, child[g].task = "acting"
  PROVE  \E q : Follows(child[g], q) /\ q.task = "pumping"
                  /\ Acted(child, g) = [child EXCEPT ![g] = q]
<1>1. PICK q : q = [child[g] EXCEPT !.task = "pumping", !.frames = Tail(@)]
  OBVIOUS
<1>2. Follows(child[g], q) /\ q.task = "pumping"
  BY <1>1, OfProcess, ActedFollows
<1>3. Acted(child, g) = [child EXCEPT ![g] = q]
  BY <1>1 DEF Acted
<1> QED BY <1>2, <1>3

LEMMA FailedKeeps ==
  ASSUME Core, NEW g \in Generations, child[g].task = "acting", Failed(g), backend' = backend
  PROVE  Core'
<1>1. PICK q : Follows(child[g], q) /\ q.task = "pumping"
                 /\ Acted(child, g) = [child EXCEPT ![g] = q]
  BY ActedIs
<1>2. PICK c : c = Acted(child, g)
  OBVIOUS
<1> QED BY <1>1, <1>2, ErrorKeeps DEF Failed

LEMMA DismissKeeps ==
  ASSUME Core, NEW g \in Generations, DismissEnds(g)
  PROVE  Core'
<1>1. child[g].task = "acting"
  BY DEF DismissEnds
<1>2. CASE child' = Acted(child, g) /\ UNCHANGED <<sessions, old, actual>>
  BY <1>1, <1>2, ActedIs, OneMoves DEF DismissEnds
<1>3. CASE Failed(g)
  BY <1>1, <1>3, FailedKeeps DEF DismissEnds
<1> QED BY <1>2, <1>3 DEF DismissEnds

-----------------------------------------------------------------------------
(* Steps in which displays end.                                            *)

LEMMA AgeKeeps ==
  ASSUME Core, NEW g \in Generations, Age(g)
  PROVE  Core'
<1>1. old' \subseteq sessions'.credentials
  BY DEF Age, Core
<1>2. /\ SessionsOk(sessions)' /\ ProcessesOk' /\ ActualOk' /\ BackendOk'
  BY DEF Age, Core, SessionsOk, Session, Sessions, Pending, ProcessesOk, ActualOk, BackendOk,
         Fits, Generations
<1>3. \A d \in Displays : SessionOk(d)'
  BY DEF Age, Core, SessionOk, Believed
<1> QED BY <1>1, <1>2, <1>3 DEF Core

LEMMA ToldAll ==
  ASSUME Core, NEW D
  PROVE  /\ Told(D) \in [Generations -> Process]
         /\ \A g \in Generations :
              /\ ProcessOk(Told(D)[g]) /\ SameTask(child[g], Told(D)[g])
              /\ child[g].display \notin D => Follows(child[g], Told(D)[g])
<1>1. \A g \in Generations :
              /\ ProcessOk(Told(D)[g]) /\ SameTask(child[g], Told(D)[g])
              /\ child[g].display \notin D => Follows(child[g], Told(D)[g])
  BY ToldOk DEF Follows, SamePlace
<1> PICK f : f = Told(D)
  OBVIOUS
<1>2. DOMAIN f = Generations /\ f = [g \in Generations |-> f[g]]
  BY DEF Told
<1>3. \A g \in Generations : f[g] \in Process
  BY <1>1 DEF ProcessOk
<1> QED BY <1>1, <1>2, <1>3

LEMMA KilledAll ==
  ASSUME Core, NEW D \in SUBSET Displays, \A d \in D : actual[d] # None
  PROVE  /\ Killed(D) \in [Generations -> Process]
         /\ \A g \in Generations :
              /\ ProcessOk(Killed(D)[g]) /\ SameTask(child[g], Killed(D)[g])
              /\ child[g].display \notin D => Follows(child[g], Killed(D)[g])
<1>1. \A g \in Generations :
              /\ ProcessOk(Killed(D)[g]) /\ SameTask(child[g], Killed(D)[g])
              /\ child[g].display \notin D => Follows(child[g], Killed(D)[g])
  BY KilledOk DEF Follows, SamePlace
<1> PICK f : f = Killed(D)
  OBVIOUS
<1>2. DOMAIN f = Generations /\ f = [g \in Generations |-> f[g]]
  BY DEF Killed
<1>3. \A g \in Generations : f[g] \in Process
  BY <1>1 DEF ProcessOk
<1> QED BY <1>1, <1>2, <1>3

\* Unregister, whatever else is done to the processes.
LEMMA UnregisterKeeps ==
  ASSUME Core, backend = Idle, backend' = backend, NEW D \in SUBSET Displays, Unregister(D),
         child' \in [Generations -> Process],
         \A g \in Generations :
           /\ ProcessOk(child'[g]) /\ SamePlace(child[g], child'[g])
           /\ child[g].display \notin D => Follows(child[g], child'[g])
  PROVE  Core'
<1>1. /\ sessions' = Without(sessions, D) /\ old' \subseteq sessions'.credentials
      /\ actual' = [d \in Displays |-> IF d \in D THEN None ELSE actual[d]]
  BY DEF Unregister, Aging
<1> QED BY <1>1, DisplaysEnd

LEMMA CloseKeeps ==
  ASSUME Core, NEW d \in Displays, Close(d)
  PROVE  Core'
<1>0. backend = Idle /\ backend' = backend /\ actual[d] # None
  BY DEF Close
<1>1. CASE Unregister({d}) /\ child' = Killed({d})
  <2>1. /\ Killed({d}) \in [Generations -> Process]
        /\ \A g \in Generations :
              /\ ProcessOk(Killed({d})[g]) /\ SameTask(child[g], Killed({d})[g])
              /\ child[g].display \notin {d} => Follows(child[g], Killed({d})[g])
    BY <1>0, KilledAll
  <2> QED BY <1>0, <1>1, <2>1, UnregisterKeeps DEF SameTask
<1>2. CASE /\ child' = [child EXCEPT ![actual[d].generation] = Gone(@)]
           /\ UNCHANGED <<sessions, old, actual>>
  <2>1. actual[d].generation \in Generations
    BY <1>0 DEF Core, ActualOk
  <2>2. PICK g \in Generations : g = actual[d].generation
    BY <2>1
  <2>3. Follows(child[g], Gone(child[g]))
    BY OfProcess, GoneFollows
  <2> QED BY <1>0, <1>2, <2>2, <2>3, OneMoves
<1> QED BY <1>1, <1>2 DEF Close

LEMMA PruneKeeps ==
  ASSUME Core, Prune
  PROVE  Core'
<1>1. /\ backend = Idle /\ backend' = backend /\ Unregister(Missing)
      /\ child' = Told(Missing) /\ Missing \in SUBSET Displays
  BY DEF Prune, Missing
<1> QED BY <1>1, ToldAll, UnregisterKeeps DEF SameTask

\* The rest of a jump, after the Attentions are closed.
LEMMA ClosedAll ==
  ASSUME Core, NEW D \in SUBSET Displays, \A d \in D : actual[d] # None,
         NEW g \in Generations, child[g].task = "acting",
         \/ child' = Acted(Killed(D), g)
         \/ child' = Sent(Acted(Killed(D), g), g, Error)
  PROVE  /\ child' \in [Generations -> Process]
         /\ \A h \in Generations :
              /\ ProcessOk(child'[h]) /\ SamePlace(child[h], child'[h])
              /\ child[h].display \notin D => Follows(child[h], child'[h])
<1>1. PICK k : k = Killed(D)
  OBVIOUS
<1>2. /\ k \in [Generations -> Process]
      /\ \A h \in Generations :
              /\ ProcessOk(k[h]) /\ SameTask(child[h], k[h])
              /\ child[h].display \notin D => Follows(child[h], k[h])
  BY <1>1, KilledAll
<1>3. PICK q : q = [k[g] EXCEPT !.task = "pumping", !.frames = Tail(@)]
  OBVIOUS
<1>4. Follows(k[g], q) /\ q.task = "pumping"
  <2>1. ProcessOk(k[g]) /\ k[g].task = "acting"
    BY <1>2 DEF SameTask
  <2> QED BY <1>3, <2>1, ActedFollows
<1>5. PICK a : a = Acted(k, g)
  OBVIOUS
<1>6. a = [k EXCEPT ![g] = q]
  BY <1>3, <1>5 DEF Acted
<1>7. q \in Process
  BY <1>4 DEF Follows, ProcessOk
<1>8. a \in [Generations -> Process] /\ a[g] = q
  BY <1>2, <1>6, <1>7
<1>9. Follows(q, Written(q, Error))
  BY <1>4, ErrorFollows DEF Follows
<1>10. PICK p : Follows(k[g], p) /\ child' = [k EXCEPT ![g] = p]
  <2>1. CASE child' = Acted(Killed(D), g)
    BY <1>1, <1>4, <1>5, <1>6, <2>1
  <2>2. CASE child' = Sent(Acted(Killed(D), g), g, Error)
    <3>1. child' = [a EXCEPT ![g] = Written(q, Error)]
      BY <1>1, <1>5, <1>8, <2>2, SentIs
    <3>2. child' = [k EXCEPT ![g] = Written(q, Error)]
      BY <1>6, <3>1
    <3> QED BY <1>4, <1>9, <3>2, FollowsAgain
  <2> QED BY <2>1, <2>2
<1>11. p \in Process
  BY <1>10 DEF Follows, ProcessOk
<1>12. /\ child' \in [Generations -> Process] /\ child'[g] = p
       /\ \A h \in Generations : h # g => child'[h] = k[h]
  BY <1>2, <1>10, <1>11
<1>13. ASSUME NEW h \in Generations
       PROVE  /\ ProcessOk(child'[h]) /\ SamePlace(child[h], child'[h])
              /\ child[h].display \notin D => Follows(child[h], child'[h])
  <2>1. CASE h # g
    BY <1>2, <1>12, <2>1 DEF SameTask
  <2>2. CASE h = g
    <3>1. ProcessOk(p) /\ SamePlace(child[g], p)
      BY <1>2, <1>10 DEF Follows, SameTask, SamePlace
    <3>2. child[g].display \notin D => Follows(child[g], p)
      BY <1>2, <1>10, FollowsAgain
    <3> QED BY <1>12, <2>2, <3>1, <3>2
  <2> QED BY <2>1, <2>2
<1> QED BY <1>12, <1>13

LEMMA JumpKeeps ==
  ASSUME Core, NEW g \in Generations, JumpEnds(g)
  PROVE  Core'
<1>0. child[g].task = "acting" /\ backend = Idle /\ backend' = backend
  BY DEF JumpEnds
<1>1. CASE Failed(g)
  BY <1>0, <1>1, FailedKeeps
<1>2. CASE LET D == {d \in Displays : actual[d] # None /\ actual[d].content \in Modal}
           IN  /\ Unregister(D)
               /\ \/ child' = Acted(Killed(D), g)
                  \/ child' = Sent(Acted(Killed(D), g), g, Error)
  <2>1. PICK D : D = {d \in Displays : actual[d] # None /\ actual[d].content \in Modal}
    OBVIOUS
  <2>2. /\ Unregister(D) /\ D \in SUBSET Displays /\ \A d \in D : actual[d] # None
        /\ \/ child' = Acted(Killed(D), g)
           \/ child' = Sent(Acted(Killed(D), g), g, Error)
    BY <1>2, <2>1
  <2>3. /\ child' \in [Generations -> Process]
        /\ \A h \in Generations :
              /\ ProcessOk(child'[h]) /\ SamePlace(child[h], child'[h])
              /\ child[h].display \notin D => Follows(child[h], child'[h])
    BY <1>0, <2>2, ClosedAll
  <2> QED BY <1>0, <2>2, <2>3, UnregisterKeeps
<1> QED BY <1>1, <1>2 DEF JumpEnds

-----------------------------------------------------------------------------
(* What becomes of a display in the making.                                *)

\* What the backend knew already becomes registered.
LEMMA RegisterKeeps ==
  ASSUME Core, backend # Idle, Register
  PROVE  Core'
<1>1. /\ backend \in [pc : {"creating", "breaking"}, display : Displays,
                      generation : Generations, content : Contents]
      /\ actual[backend.display] = None
      /\ Fits(backend.generation, backend.display, backend.content)
  BY DEF Core, BackendOk
<1>2. PICK b, x : b = backend.display
                    /\ x = [generation |-> backend.generation, content |-> backend.content]
  OBVIOUS
<1>3. /\ b \in Displays /\ x \in [generation : Generations, content : Contents]
      /\ Fits(x.generation, b, x.content)
  BY <1>1, <1>2
<1>4. /\ actual' = [actual EXCEPT ![b] = x] /\ backend' = Idle
      /\ UNCHANGED <<sessions, old, child>>
  BY <1>2 DEF Register
<1>5. ActualOk'
  BY <1>3, <1>4 DEF Core, ActualOk, Fits, Generations
<1>6. BackendOk'
  BY <1>4 DEF BackendOk, Idle
<1>7. SessionsOk(sessions)' /\ ProcessesOk'
  BY <1>4 DEF Core, SessionsOk, Session, Sessions, Pending, ProcessesOk, Generations
<1>8. ASSUME NEW d \in Displays PROVE Believed(d)' = Believed(d)
  <2>1. CASE d = b
    BY <1>1, <1>2, <1>3, <1>4, <2>1 DEF Believed, Core, ActualOk
  <2>2. CASE d # b
    BY <1>2, <1>4, <2>2 DEF Believed, Core, ActualOk
  <2> QED BY <2>1, <2>2
<1>9. \A d \in Displays : SessionOk(d)'
  BY <1>4, <1>8 DEF Core, SessionOk
<1> QED BY <1>4, <1>5, <1>6, <1>7, <1>9 DEF Core

\* The display in the making is given up.
LEMMA GiveUpKeeps ==
  ASSUME Core, backend # Idle, GiveUp, NEW b, b = backend.display,
         \/ child' = Told({b})
         \/ child' = [Told({b}) EXCEPT ![backend.generation] = Gone(@)]
  PROVE  Core'
<1>1. /\ b \in Displays /\ actual[b] = None
      /\ backend.generation \in Generations /\ child[backend.generation].display = b
  BY DEF Core, BackendOk, Fits
<1>2. /\ sessions' = Without(sessions, {b}) /\ old' \subseteq sessions'.credentials
      /\ backend' = Idle /\ actual' = actual
  BY DEF GiveUp, Abandoned, Aging
<1>3. actual' = [d \in Displays |-> IF d \in {b} THEN None ELSE actual[d]]
  <2>1. actual = [d \in Displays |-> actual[d]]
    BY DEF Core, ActualOk
  <2> QED BY <1>1, <1>2, <2>1
<1>4. PICK t : t = Told({b})
  OBVIOUS
<1>5. /\ t \in [Generations -> Process]
      /\ \A g \in Generations :
              /\ ProcessOk(t[g]) /\ SameTask(child[g], t[g])
              /\ child[g].display \notin {b} => Follows(child[g], t[g])
  BY <1>4, ToldAll
<1>6. /\ child' \in [Generations -> Process]
      /\ \A g \in Generations :
              /\ ProcessOk(child'[g]) /\ SamePlace(child[g], child'[g])
              /\ child[g].display \notin {b} => Follows(child[g], child'[g])
  <2>1. CASE child' = t
    BY <1>5, <2>1 DEF SameTask
  <2>2. CASE child' = [t EXCEPT ![backend.generation] = Gone(@)]
    <3>1. PICK h \in Generations : h = backend.generation
      BY <1>1
    <3>2. PICK q : q = Gone(t[h])
      OBVIOUS
    <3>3. ProcessOk(q) /\ SamePlace(t[h], q)
      BY <1>5, <3>2, GoneOk DEF SamePlace
    <3>4. q \in Process
      BY <3>3 DEF ProcessOk
    <3>5. child' = [t EXCEPT ![h] = q]
      BY <2>2, <3>1, <3>2
    <3>6. /\ child' \in [Generations -> Process] /\ child'[h] = q
          /\ \A g \in Generations : g # h => child'[g] = t[g]
      BY <1>5, <3>4, <3>5
    <3>7. SamePlace(child[h], q) /\ child[h].display \in {b}
      BY <1>1, <1>5, <3>1, <3>3 DEF SameTask, SamePlace
    <3> QED BY <1>5, <3>3, <3>6, <3>7 DEF SameTask
  <2> QED BY <1>4, <2>1, <2>2
<1>7. backend.display \in {b} /\ {b} \in SUBSET Displays
  BY <1>1
<1> QED BY <1>2, <1>3, <1>6, <1>7, DisplaysEnd

LEMMA CreatedKeeps ==
  ASSUME Core, Created
  PROVE  Core'
<1>0. backend # Idle
  BY DEF Created, Idle
<1>1. CASE Register
  BY <1>0, <1>1, RegisterKeeps
<1>2. CASE /\ backend' = [backend EXCEPT !.pc = "breaking"]
           /\ UNCHANGED <<sessions, old, actual, child>>
  <2>1. /\ backend \in [pc : {"creating", "breaking"}, display : Displays,
                        generation : Generations, content : Contents]
        /\ actual[backend.display] = None
        /\ Fits(backend.generation, backend.display, backend.content)
    BY <1>0 DEF Core, BackendOk
  <2>2. /\ backend' \in [pc : {"creating", "breaking"}, display : Displays,
                        generation : Generations, content : Contents]
        /\ backend'.display = backend.display /\ backend'.generation = backend.generation
        /\ backend'.content = backend.content /\ backend'.pc = "breaking"
    BY <1>2, <2>1
  <2>3. BackendOk' /\ backend' # Idle
    BY <1>2, <2>1, <2>2 DEF BackendOk, Fits, Generations, Idle
  <2>4. \A d \in Displays : Believed(d)' = Believed(d)
    BY <1>0, <1>2, <2>2, <2>3 DEF Believed
  <2>5. \A d \in Displays : SessionOk(d)'
    BY <1>2, <2>4 DEF Core, SessionOk
  <2>6. SessionsOk(sessions)' /\ ProcessesOk' /\ ActualOk'
    BY <1>2 DEF Core, SessionsOk, Session, Sessions, Pending, ProcessesOk, Generations,
                ActualOk, Fits
  <2> QED BY <1>2, <2>3, <2>5, <2>6 DEF Core
<1>3. CASE GiveUp /\ child' = Told({backend.display})
  BY <1>0, <1>3, GiveUpKeeps
<1> QED BY <1>1, <1>2, <1>3 DEF Created

LEMMA BrokenKeeps ==
  ASSUME Core, Broken
  PROVE  Core'
<1>0. backend # Idle
  BY DEF Broken, Idle
<1>1. CASE Register
  BY <1>0, <1>1, RegisterKeeps
<1>2. CASE /\ GiveUp
           /\ \/ child' = Told({backend.display})
              \/ child' = [Told({backend.display}) EXCEPT ![backend.generation] = Gone(@)]
  BY <1>0, <1>2, GiveUpKeeps
<1> QED BY <1>1, <1>2 DEF Broken

-----------------------------------------------------------------------------
(* Steps that give a display another session.                              *)

LEMMA RecordsAreSome ==
  /\ \A x \in [generation : Nat, content : Contents] : x # None
  /\ \A x \in [generation : Nat, pending : BOOLEAN, sender : BOOLEAN, content : Contents] : x # None
BY RendererConstants DEF RendererConstants

LEMMA SessionIsSome ==
  ASSUME Core
  PROVE  /\ \A x \in Session : x # None
         /\ \A x \in [generation : Generations, content : Contents] : x # None
<1>1. Generations \subseteq Nat
  BY GenerationsOk DEF Core
<1> QED BY <1>1, RecordsAreSome DEF Session

\* A session that does not wait has no credential.
LEMMA SpentCredential ==
  ASSUME NEW s, SessionsOk(s), NEW d \in Displays, s.displays[d] # None, ~s.displays[d].pending
  PROVE  s.displays[d].generation \notin s.credentials
BY CredentialOf DEF SessionsOk

\* A session that changes, for the same process.
LEMMA SessionReplaced ==
  ASSUME Core, NEW s, SessionsOk(s), NEW d \in Displays, s.displays[d] # None,
         NEW x \in Session, x.generation = s.displays[d].generation,
         x.pending => s.displays[d].pending,
         NEW w, w = [displays    |-> [s.displays EXCEPT ![d] = x],
                     credentials |-> IF x.pending THEN s.credentials
                                     ELSE s.credentials \ {x.generation}]
  PROVE  SessionsOk(w)
<1>1. x # None
  BY SessionIsSome
<1>2. /\ s.displays \in [Displays -> Session \cup {None}]
      /\ s.credentials \in SUBSET Generations
      /\ \A e \in Displays :
           s.displays[e] # None => child[s.displays[e].generation].display = e
      /\ IsFiniteSet(Sessions(s)) /\ Cardinality(Sessions(s)) <= MaxSessions
  BY DEF SessionsOk
<1>3. /\ w.displays \in [Displays -> Session \cup {None}]
      /\ w.displays[d] = x /\ \A e \in Displays : e # d => w.displays[e] = s.displays[e]
      /\ w.credentials = IF x.pending THEN s.credentials ELSE s.credentials \ {x.generation}
  BY <1>2
<1>4. \A e \in Displays : w.displays[e] # None => child[w.displays[e].generation].display = e
  BY <1>2, <1>3
<1>5. Sessions(w) = Sessions(s)
  BY <1>1, <1>3 DEF Sessions
<1>6. w.credentials = Pending(w, Displays)
  <2>1. ASSUME NEW g PROVE g \in w.credentials <=> g \in Pending(w, Displays)
    <3>1. g \in s.credentials <=>
            \E e \in Displays : s.displays[e] # None /\ s.displays[e].pending
                                  /\ s.displays[e].generation = g
      BY CredentialOf
    <3>2. g \in Pending(w, Displays) <=>
            \E e \in Displays : w.displays[e] # None /\ w.displays[e].pending
                                  /\ w.displays[e].generation = g
      BY DEF Pending
    <3>3. \A e \in Displays : e # d /\ s.displays[e] # None =>
            s.displays[e].generation # x.generation
      BY <1>2
    <3>4. CASE x.pending
      BY <1>1, <1>3, <3>1, <3>2, <3>4
    <3>5. CASE ~x.pending
      BY <1>1, <1>3, <3>1, <3>2, <3>3, <3>5
    <3> QED BY <3>4, <3>5
  <2> QED BY <2>1
<1>7. w \in [displays : [Displays -> Session \cup {None}], credentials : SUBSET Generations]
  BY <1>2, <1>3
<1> QED BY <1>2, <1>4, <1>5, <1>6, <1>7 DEF SessionsOk

\* A step about one display and the process of its session.
LEMMA OneDisplay ==
  ASSUME Core, NEW d \in Displays, NEW w, SessionsOk(w), sessions' = w,
         old' \subseteq w.credentials,
         \A e \in Displays : e # d => w.displays[e] \in {None, sessions.displays[e]},
         child' \in [Generations -> Process],
         \A g \in Generations :
           /\ ProcessOk(child'[g]) /\ SamePlace(child[g], child'[g])
           /\ child[g].display # d => Follows(child[g], child'[g]),
         NEW x, actual' = [actual EXCEPT ![d] = x],
         \/ x = actual[d]
         \/ /\ backend = Idle /\ x \in [generation : Generations, content : Contents]
            /\ Fits(x.generation, d, x.content),
         backend' = backend, SessionOk(d)'
  PROVE  Core'
<1>1. Generations' = Generations /\ Continues /\ ProcessesOk'
  BY ProcessesContinue
<1>2. SessionsOk(sessions)'
  BY <1>1, SessionsContinue
<1>3. /\ actual \in [Displays -> [generation : Generations, content : Contents] \cup {None}]
      /\ \A e \in Displays :
           actual[e] # None => Fits(actual[e].generation, e, actual[e].content)
  BY DEF Core, ActualOk
<1>4. /\ x \in [generation : Generations, content : Contents] \cup {None}
      /\ x # None => Fits(x.generation, d, x.content)
  BY <1>3
<1>5. /\ actual' \in [Displays -> [generation : Generations, content : Contents] \cup {None}]
      /\ actual'[d] = x /\ \A e \in Displays : e # d => actual'[e] = actual[e]
  BY <1>3, <1>4
<1>6. \A e \in Displays :
        (actual[e] # None => Fits(actual[e].generation, e, actual[e].content))'
  <2> SUFFICES ASSUME NEW e \in Displays, actual'[e] # None
               PROVE  Fits(actual[e].generation, e, actual[e].content)'
    BY Zenon
  <2>1. PICK v : v = actual'[e]
    OBVIOUS
  <2>2. v \in [generation : Generations, content : Contents] /\ Fits(v.generation, e, v.content)
    BY <1>3, <1>4, <1>5, <2>1
  <2> QED BY <1>1, <2>1, <2>2 DEF Fits, Continues
<1>7. ActualOk'
  BY <1>1, <1>5, <1>6 DEF ActualOk
<1>8. BackendOk'
  <2>1. CASE backend = Idle
    BY <2>1 DEF BackendOk, Idle
  <2>2. CASE x = actual[d]
    <3>1. actual' = actual
      BY <1>3, <2>2
    <3> QED BY <1>1, <3>1, BackendContinues
  <2> QED BY <2>1, <2>2
<1>9. \A e \in Displays : e \notin {d} =>
           /\ sessions'.displays[e] \in {None, sessions.displays[e]}
           /\ sessions'.displays[e] # None => Believed(e)' = Believed(e)
  BY <1>5 DEF Believed
<1>10. \A e \in Displays : e \in {d} => SessionOk(e)'
  BY Zenon
<1>11. \A g \in Generations : child[g].display \notin {d} => Follows(child[g], child'[g])
  OBVIOUS
<1> QED BY <1>1, <1>2, <1>7, <1>8, <1>9, <1>10, <1>11, CoreStays

LEMMA FollowsItself ==
  ASSUME Core, NEW g \in Generations
  PROVE  Follows(child[g], child[g])
BY OfProcess DEF Follows, SamePlace

-----------------------------------------------------------------------------
(* The redemption.                                                         *)

LEMMA RefusedKeeps ==
  ASSUME Core, NEW g \in Generations, child[g].task = "asked",
         sessions' = Expired(sessions), Aging(sessions'),
         child' = [child EXCEPT ![g].task = Refused], UNCHANGED <<actual, backend>>
  PROVE  Core'
<1>1. /\ ProcessOk(child[g]) /\ child[g] \in Process /\ child \in [Generations -> Process]
  BY OfProcess
<1>2. PICK p : p = [child[g] EXCEPT !.task = "returned"]
  OBVIOUS
<1>3. /\ p \in Process /\ p.task = "returned" /\ p.display = child[g].display
      /\ p.kind = child[g].kind /\ p.channel = child[g].channel /\ p.wire = child[g].wire
      /\ p.pc = child[g].pc
  BY <1>1, <1>2 DEF Process
<1>4. Follows(child[g], p)
  BY <1>1, <1>3 DEF Follows, SamePlace, Listens, ProcessOk
<1>5. child' = [child EXCEPT ![g] = p]
  BY <1>2 DEF Refused
<1>6. /\ child' \in [Generations -> Process]
      /\ \A h \in Generations : child'[h] = IF h = g THEN p ELSE child[h]
  BY <1>1, <1>3, <1>5
<1>7. \A h \in Generations : Follows(child[h], child'[h])
  BY <1>4, <1>6, FollowsItself
<1>8. PICK E \in SUBSET Displays : sessions' = Without(sessions, E)
  BY DEF Expired
<1>9. old' \subseteq sessions'.credentials
  BY DEF Aging
<1> QED BY <1>6, <1>7, <1>8, <1>9, SessionsEnd

LEMMA RedeemedKeeps ==
  ASSUME Core, NEW g \in Generations, child[g].task = "asked",
         NEW d, d = child[g].display,
         NEW young, young = Expired(sessions),
         g \in young.credentials, young.displays[d] # None, young.displays[d].generation = g,
         sessions' = [displays |-> [young.displays EXCEPT ![d].pending = FALSE, ![d].sender = TRUE],
                      credentials |-> young.credentials \ {g}],
         child' = [child EXCEPT ![g].task = "pumping",
                                ![g].channel = <<Says(young.displays[d].content)>>],
         Aging(sessions'), UNCHANGED <<actual, backend>>
  PROVE  Core'
<1>1. /\ ProcessOk(child[g]) /\ child[g] \in Process /\ child \in [Generations -> Process]
      /\ d \in Displays
  BY OfProcess DEF Process
<1>2. PICK E \in SUBSET Displays : young = Without(sessions, E)
  BY DEF Expired
<1>3. /\ SessionsOk(young)
      /\ \A e \in Displays : young.displays[e] \in {None, sessions.displays[e]}
  BY SMTT(30), <1>2, WithoutOk DEF Core
<1>4. PICK y : y = young.displays[d]
  OBVIOUS
<1>5. y \in Session /\ y # None /\ y.generation = g /\ y = sessions.displays[d]
  BY <1>1, <1>3, <1>4 DEF SessionsOk
<1>6. y.pending
  BY <1>1, <1>3, <1>4, <1>5, SpentCredential
<1>7. PICK x : x = [y EXCEPT !.pending = FALSE, !.sender = TRUE]
  OBVIOUS
<1>8. /\ x \in Session /\ x.generation = g /\ x.pending = FALSE /\ x.sender = TRUE
      /\ x.content = y.content /\ y.content \in Contents
  BY <1>5, <1>7 DEF Session
<1>9. PICK w : w = sessions'
  OBVIOUS
<1>10. w = [displays |-> [young.displays EXCEPT ![d] = x], credentials |-> young.credentials \ {g}]
  BY <1>4, <1>7, <1>9
<1>11. w = [displays    |-> [young.displays EXCEPT ![d] = x],
            credentials |-> IF x.pending THEN young.credentials
                            ELSE young.credentials \ {x.generation}]
  BY <1>8, <1>10
<1>12. SessionsOk(w)
  BY <1>1, <1>3, <1>4, <1>5, <1>6, <1>8, <1>11, SessionReplaced
<1>13. /\ w.displays[d] = x
       /\ \A e \in Displays : e # d => w.displays[e] \in {None, sessions.displays[e]}
  BY <1>1, <1>3, <1>10 DEF SessionsOk
<1>14. PICK c, m : c = <<m>> /\ m = Says(y.content)
  OBVIOUS
<1>15. /\ c \in Seq(Messages) /\ Len(c) = 1 /\ DOMAIN c = {1} /\ c[1] = m
       /\ m \in Messages /\ m.type = "content" /\ m.content = y.content
  <2>1. m \in Messages /\ m.type = "content" /\ m.content = y.content
    BY <1>8, <1>14, PlainMessages
  <2>2. c \in Seq(Messages) /\ Len(c) = 1 /\ c[1] = m
    BY <1>14, <2>1
  <2>3. DOMAIN c = 1 .. 1
    BY <2>2
  <2> QED BY <2>1, <2>2, <2>3
<1>16. PICK p : p = [child[g] EXCEPT !.task = "pumping", !.channel = c]
  OBVIOUS
<1>17. /\ p \in Process /\ p.task = "pumping" /\ p.display = child[g].display
       /\ p.kind = child[g].kind /\ p.channel = c /\ p.wire = child[g].wire
       /\ p.pc = child[g].pc
  BY <1>1, <1>15, <1>16 DEF Process
<1>18. /\ Believed(d) # None /\ Believed(d).generation = g
       /\ Kind(y.content) = child[g].kind /\ y.content = Believed(d).content
  BY <1>1, <1>5, <1>6 DEF Core, SessionOk
<1>19. ProcessOk(p)
  <2>1. Len(c) <= ChannelCapacity
    BY SMTT(20), <1>15, RendererConstants DEF RendererConstants
  <2>2. \A n \in DOMAIN c : Kind(c[n].content) = p.kind
    BY <1>15, <1>17, <1>18
  <2> QED BY <1>1, <1>17, <2>1, <2>2 DEF ProcessOk
<1>20. child' = [child EXCEPT ![g] = p]
  BY <1>4, <1>14, <1>16
<1>21. /\ child' \in [Generations -> Process]
       /\ \A h \in Generations : child'[h] = IF h = g THEN p ELSE child[h]
  BY ZenonT(30), <1>1, <1>17, <1>20
<1>22. \A h \in Generations :
         /\ ProcessOk(child'[h]) /\ SamePlace(child[h], child'[h])
         /\ child[h].display # d => Follows(child[h], child'[h])
  BY <1>17, <1>19, <1>21, FollowsItself DEF Follows, SamePlace
<1>23. Heard(p) = y.content
  BY SMTT(20), <1>14, <1>15, <1>17, OneSaid DEF Heard
<1>24. SessionOk(d)'
  <2>1. Believed(d)' = Believed(d)
    BY DEF Believed
  <2>2. sessions'.displays[d] = x /\ child'[g] = p
    BY <1>9, <1>13, <1>21
  <2> QED BY <1>8, <1>17, <1>18, <1>23, <2>1, <2>2 DEF SessionOk
<1>25. old' \subseteq w.credentials
  BY <1>9 DEF Aging
<1>26. actual' = [actual EXCEPT ![d] = actual[d]]
  BY DEF Core, ActualOk
<1> QED BY <1>1, <1>9, <1>12, <1>13, <1>21, <1>22, <1>24, <1>25, <1>26, OneDisplay

LEMMA RedeemKeeps ==
  ASSUME Core, NEW g \in Generations, Redeem(g)
  PROVE  Core'
<1>1. PICK d, young : d = child[g].display /\ young = Expired(sessions)
  OBVIOUS
<1>2. CASE /\ g \in young.credentials
           /\ young.displays[d] # None /\ young.displays[d].generation = g
  BY <1>1, <1>2, RedeemedKeeps DEF Redeem
<1>3. CASE ~(/\ g \in young.credentials
             /\ young.displays[d] # None /\ young.displays[d].generation = g)
  BY <1>1, <1>3, RefusedKeeps DEF Redeem
<1> QED BY <1>2, <1>3

-----------------------------------------------------------------------------
(* An update.                                                              *)

\* What a session has to say of its display and its process.
LEMMA SessionOf ==
  ASSUME NEW d \in Displays, NEW x, sessions'.displays[d] = x,
         NEW b, actual'[d] = b, b # None, b.generation = x.generation,
         Kind(x.content) = child'[x.generation].kind,
         x.pending => ~x.sender /\ x.content = b.content,
         x.sender /\ Listens(child'[x.generation]) => Heard(child'[x.generation]) = b.content
  PROVE  SessionOk(d)'
<1>1. Believed(d)' = b
  BY DEF Believed
<1> QED BY <1>1 DEF SessionOk

\* What an update finds.
LEMMA UpdateFinds ==
  ASSUME IInv, NEW d \in Displays, Update(d), NEW y, y = sessions.displays[d],
         NEW a, a = actual[d], NEW g, g = y.generation
  PROVE  /\ y \in Session /\ y # None /\ g \in Generations /\ child[g].display = d
         /\ a \in [generation : Generations, content : Contents] /\ a.generation = g
         /\ target[d] \in Contents /\ Kind(target[d]) = child[g].kind
         /\ y.pending => ~y.sender /\ y.content = a.content
         /\ Kind(y.content) = child[g].kind
         /\ y.sender /\ Listens(child[g]) => Heard(child[g]) = a.content
         /\ HasSender(g) <=> y.sender
<1>1. /\ sessions.displays[d] # None /\ actual[d] # None /\ target[d] # None
      /\ Kind(target[d]) = Kind(actual[d].content)
  BY DEF Update, Remains
<1>2. y \in Session /\ y # None /\ g \in Generations /\ child[g].display = d
  BY <1>1 DEF IInv, Core, SessionsOk, Session
<1>3. a \in [generation : Generations, content : Contents] /\ Fits(a.generation, d, a.content)
  BY <1>1 DEF IInv, Core, ActualOk
<1>4. Believed(d) = a
  BY <1>1 DEF Believed
<1>5. /\ a.generation = g /\ Kind(y.content) = child[g].kind
      /\ y.pending => ~y.sender /\ y.content = a.content
      /\ y.sender /\ Listens(child[g]) => Heard(child[g]) = a.content
  BY <1>1, <1>4 DEF IInv, Core, SessionOk
<1>6. target[d] \in Contents /\ Kind(target[d]) = child[g].kind
  BY <1>1, <1>3, <1>5 DEF IInv, PlanOk, Fits
<1>7. HasSender(g) <=> y.sender
  BY <1>1, <1>2 DEF HasSender, IsCurrentGeneration
<1> QED BY <1>2, <1>3, <1>5, <1>6, <1>7

\* The session keeps its process and whether it waits.
LEMMA NewestOk ==
  ASSUME Core, NEW d \in Displays, NEW y, y = sessions.displays[d], y # None,
         NEW x \in Session, x.generation = y.generation, x.pending = y.pending,
         NEW w, w = [displays    |-> [sessions.displays EXCEPT ![d] = x],
                     credentials |-> sessions.credentials]
  PROVE  /\ SessionsOk(w) /\ old \subseteq w.credentials /\ w.displays[d] = x
         /\ \A e \in Displays : e # d => w.displays[e] \in {None, sessions.displays[e]}
<1>1. SessionsOk(sessions)
  BY DEF Core
<1>2. w.credentials = IF x.pending THEN sessions.credentials
                      ELSE sessions.credentials \ {x.generation}
  <2>1. CASE x.pending
    BY <2>1
  <2>2. CASE ~x.pending
    <3>1. x.generation \notin sessions.credentials
      BY <1>1, <2>2, SpentCredential
    <3> QED BY <2>2, <3>1
  <2> QED BY <2>1, <2>2
<1>3. w = [displays    |-> [sessions.displays EXCEPT ![d] = x],
           credentials |-> IF x.pending THEN sessions.credentials
                           ELSE sessions.credentials \ {x.generation}]
  BY <1>2
<1>4. SessionsOk(w)
  <2> PICK s : s = sessions
    OBVIOUS
  <2> QED BY <1>1, <1>3, SessionReplaced
<1>5. /\ w.displays[d] = x /\ old \subseteq w.credentials
      /\ \A e \in Displays : e # d => w.displays[e] \in {None, sessions.displays[e]}
  BY DEF Core, SessionsOk
<1> QED BY <1>4, <1>5

LEMMA UpdateKeeps ==
  ASSUME IInv, NEW d \in Displays, Update(d)
  PROVE  Core'
<1>1. PICK y, a, t : y = sessions.displays[d] /\ a = actual[d] /\ t = target[d]
  OBVIOUS
<1>2. PICK g : g = y.generation
  OBVIOUS
<1>3. /\ y \in Session /\ y # None /\ g \in Generations /\ child[g].display = d
      /\ a \in [generation : Generations, content : Contents] /\ a.generation = g
      /\ t \in Contents /\ Kind(t) = child[g].kind
      /\ y.pending => ~y.sender /\ y.content = a.content
      /\ Kind(y.content) = child[g].kind
      /\ y.sender /\ Listens(child[g]) => Heard(child[g]) = a.content
      /\ HasSender(g) <=> y.sender
  BY <1>1, <1>2, UpdateFinds
<1>4. PICK x, z, b : /\ x = [y EXCEPT !.content = t]
                     /\ z = [y EXCEPT !.content = t, !.sender = FALSE]
                     /\ b = [a EXCEPT !.content = t]
  OBVIOUS
<1>5. /\ x \in Session /\ x.generation = g /\ x.pending = y.pending /\ x.sender = y.sender
      /\ x.content = t
      /\ z \in Session /\ z.generation = g /\ z.pending = y.pending /\ z.sender = FALSE
      /\ z.content = t
      /\ b \in [generation : Generations, content : Contents] /\ b.generation = g
      /\ b.content = t
  <2>1. y \in Session /\ t \in Contents /\ y.generation = g
    BY <1>2, <1>3
  <2>2. /\ x \in Session /\ x.generation = g /\ x.pending = y.pending /\ x.sender = y.sender
        /\ x.content = t
    BY <1>4, <2>1 DEF Session
  <2>3. /\ z \in Session /\ z.generation = g /\ z.pending = y.pending /\ z.sender = FALSE
        /\ z.content = t
    BY <1>4, <2>1 DEF Session
  <2>4. /\ b \in [generation : Generations, content : Contents] /\ b.generation = g
        /\ b.content = t
    BY <1>3, <1>4
  <2> QED BY <2>2, <2>3, <2>4
<1>6. Core /\ a # None /\ b # None
  BY <1>3, <1>5, SessionIsSome DEF IInv
<1>7. PICK w, v : /\ w = [displays    |-> [sessions.displays EXCEPT ![d] = x],
                          credentials |-> sessions.credentials]
                  /\ v = [displays    |-> [sessions.displays EXCEPT ![d] = z],
                          credentials |-> sessions.credentials]
  OBVIOUS
<1>8. /\ SessionsOk(w) /\ old \subseteq w.credentials /\ w.displays[d] = x
      /\ \A e \in Displays : e # d => w.displays[e] \in {None, sessions.displays[e]}
  BY <1>1, <1>2, <1>3, <1>5, <1>6, <1>7, NewestOk
<1>9. /\ SessionsOk(v) /\ old \subseteq v.credentials /\ v.displays[d] = z
      /\ \A e \in Displays : e # d => v.displays[e] \in {None, sessions.displays[e]}
  BY <1>1, <1>2, <1>3, <1>5, <1>6, <1>7, NewestOk
<1>10. PICK newest : newest = Newest(sessions, d, t)
  OBVIOUS
<1>11. newest = w /\ [newest EXCEPT !.displays[d].sender = FALSE] = v
  <2>1. sessions = [displays |-> sessions.displays, credentials |-> sessions.credentials]
    BY <1>6 DEF Core, SessionsOk
  <2>2. DOMAIN sessions.displays = Displays
    BY <1>6 DEF Core, SessionsOk
  <2>3. newest = w
    BY <1>1, <1>4, <1>7, <1>10, <2>1, <2>2 DEF Newest
  <2>4. [w EXCEPT !.displays[d].sender = FALSE] = v
    <3>1. w.displays[d] = x /\ [x EXCEPT !.sender = FALSE] = z
      BY <1>3, <1>4, <1>8 DEF Session
    <3>2. PICK f, h : f = sessions.displays /\ h = w.displays
      OBVIOUS
    <3>3. /\ h = [f EXCEPT ![d] = x] /\ DOMAIN f = Displays /\ h[d] = x
          /\ w = [displays |-> h, credentials |-> sessions.credentials]
      BY <1>7, <2>2, <3>1, <3>2
    <3>4. [h EXCEPT ![d].sender = FALSE] = [h EXCEPT ![d] = z]
      BY <3>1, <3>3
    <3>5. [h EXCEPT ![d] = z] = [f EXCEPT ![d] = z]
      BY <3>3
    <3>6. [w EXCEPT !.displays[d].sender = FALSE] =
            [displays |-> [h EXCEPT ![d].sender = FALSE], credentials |-> sessions.credentials]
      BY <3>3
    <3> QED BY <1>7, <3>2, <3>4, <3>5, <3>6
  <2> QED BY <2>3, <2>4
<1>12. /\ child \in [Generations -> Process]
       /\ \A h \in Generations : Follows(child[h], child[h])
       /\ actual = [actual EXCEPT ![d] = a]
       /\ DOMAIN actual = Displays
  BY <1>1, <1>6, OfProcess, FollowsItself, <1>3 DEF Core, ActualOk
<1>13. backend = Idle /\ backend' = backend /\ old' = old
  BY DEF Update
<1>14. Fits(b.generation, d, b.content)
  BY <1>3, <1>5 DEF Fits
<1>15. [actual EXCEPT ![d].content = t] = [actual EXCEPT ![d] = b]
  BY <1>1, <1>4
<1>16. CASE /\ ~HasSender(g) /\ sessions' = newest
            /\ actual' = [actual EXCEPT ![d].content = t] /\ child' = child
  <2>1. /\ actual' = [actual EXCEPT ![d] = b] /\ actual'[d] = b
        /\ sessions' = w /\ sessions'.displays[d] = x
    BY <1>8, <1>11, <1>12, <1>15, <1>16
  <2>2. SessionOk(d)'
    BY <1>3, <1>5, <1>6, <1>16, <2>1, SessionOf
  <2>3. \A h \in Generations :
          /\ ProcessOk(child'[h]) /\ SamePlace(child[h], child'[h])
          /\ child[h].display # d => Follows(child[h], child'[h])
    BY <1>12, <1>16 DEF Follows
  <2> QED BY <1>5, <1>6, <1>8, <1>12, <1>13, <1>14, <1>16, <2>1, <2>2, <2>3, OneDisplay
<1>17. CASE /\ HasSender(g) /\ HasReceiver(g) /\ HasRoom(g)
            /\ sessions' = newest
            /\ actual' = [actual EXCEPT ![d].content = t]
            /\ child' = [child EXCEPT ![g].channel = Append(@, Says(t))]
  <2>1. /\ actual' = [actual EXCEPT ![d] = b] /\ actual'[d] = b
        /\ sessions' = w /\ sessions'.displays[d] = x
    BY <1>8, <1>11, <1>12, <1>15, <1>17
  <2>2. PICK m : m = Says(t)
    OBVIOUS
  <2>3. m \in Messages /\ m.type = "content" /\ m.content = t
    BY <1>3, <2>2, PlainMessages
  <2>4. PICK q : q = Queued(child[g], m)
    OBVIOUS
  <2>5. ProcessOk(child[g]) /\ child[g] \in Process /\ Len(child[g].channel) < ChannelCapacity
    BY <1>3, <1>6, <1>17, OfProcess DEF HasRoom
  <2>6. /\ ProcessOk(q) /\ q \in Process
        /\ q = [child[g] EXCEPT !.channel = Append(child[g].channel, m)]
    BY <1>3, <2>3, <2>4, <2>5, QueuedOk
  <2>7. /\ q.display = child[g].display /\ q.kind = child[g].kind
        /\ q.channel = Append(child[g].channel, m) /\ child[g].channel \in Seq(Messages)
    BY <2>5, <2>6 DEF Process
  <2>8. Heard(q) = t
    BY <2>3, <2>7, OneMoreSaid DEF Heard
  <2>9. child' = [child EXCEPT ![g] = q]
    BY <1>17, <2>2, <2>6
  <2>10. /\ child' \in [Generations -> Process] /\ child'[g] = q
         /\ \A h \in Generations : h # g => child'[h] = child[h]
    BY <1>3, <1>12, <2>6, <2>9
  <2>11. SessionOk(d)'
    <3>1. Kind(x.content) = child'[x.generation].kind /\ Heard(child'[x.generation]) = b.content
      BY <1>3, <1>5, <2>7, <2>8, <2>10
    <3>2. x.pending => ~x.sender /\ x.content = b.content
      BY <1>3, <1>5, <1>17
    <3> QED BY <1>5, <1>6, <2>1, <3>1, <3>2, SessionOf
  <2>12. \A h \in Generations :
          /\ ProcessOk(child'[h]) /\ SamePlace(child[h], child'[h])
          /\ child[h].display # d => Follows(child[h], child'[h])
    BY <1>3, <1>12, <2>6, <2>7, <2>10 DEF Follows, SamePlace
  <2> QED BY <1>5, <1>6, <1>8, <1>13, <1>14, <2>1, <2>10, <2>11, <2>12, OneDisplay
<1>18. CASE /\ HasSender(g) /\ sessions' = newest /\ UNCHANGED <<actual, child>>
  <2>1. actual' = [actual EXCEPT ![d] = a] /\ actual'[d] = a /\ sessions' = w
    BY <1>1, <1>11, <1>12, <1>18
  <2>2. sessions'.displays[d] = x
    BY <1>8, <2>1
  <2>3. SessionOk(d)'
    BY <1>3, <1>5, <1>6, <1>18, <2>1, <2>2, SessionOf
  <2>4. \A h \in Generations :
          /\ ProcessOk(child'[h]) /\ SamePlace(child[h], child'[h])
          /\ child[h].display # d => Follows(child[h], child'[h])
    BY <1>12, <1>18 DEF Follows
  <2> QED BY <1>1, <1>6, <1>8, <1>12, <1>13, <1>18, <2>1, <2>3, <2>4, OneDisplay
<1>19. CASE /\ HasSender(g)
            /\ sessions' = [newest EXCEPT !.displays[d].sender = FALSE]
            /\ UNCHANGED <<actual, child>>
  <2>1. actual' = [actual EXCEPT ![d] = a] /\ actual'[d] = a /\ sessions' = v
    BY <1>1, <1>11, <1>12, <1>19
  <2>2. sessions'.displays[d] = z
    BY <1>9, <2>1
  <2>3. SessionOk(d)'
    BY <1>3, <1>5, <1>6, <1>19, <2>1, <2>2, SessionOf
  <2>4. \A h \in Generations :
          /\ ProcessOk(child'[h]) /\ SamePlace(child[h], child'[h])
          /\ child[h].display # d => Follows(child[h], child'[h])
    BY <1>12, <1>19 DEF Follows
  <2> QED BY <1>1, <1>6, <1>9, <1>12, <1>13, <1>19, <2>1, <2>3, <2>4, OneDisplay
<1>20. /\ sessions.displays[d].generation = g /\ target[d] = t
       /\ Newest(sessions, d, target[d]) = newest
  BY <1>1, <1>2, <1>10
<1> QED BY <1>16, <1>17, <1>18, <1>19, <1>20 DEF Update

-----------------------------------------------------------------------------
(* The creation.                                                           *)

\* The process that is started for a display.
NewProcess(d, content) ==
  [display |-> d, kind |-> Kind(content), pc |-> "asked", shown |-> None,
   task |-> "none", channel |-> <<>>, wire |-> <<>>, frames |-> <<>>]

LEMMA NewProcessOk ==
  ASSUME NEW d \in Displays, NEW content \in Contents
  PROVE  /\ ProcessOk(NewProcess(d, content)) /\ NewProcess(d, content) \in Process
         /\ NewProcess(d, content).display = d
         /\ NewProcess(d, content).kind = Kind(content)
<1>0. PICK e : e = <<>>
  OBVIOUS
<1>e. /\ e \in Seq(Messages) /\ e \in Seq(AttentionActions) /\ DOMAIN e = {} /\ Len(e) = 0
  BY <1>0
<1> PICK p : p = NewProcess(d, content)
  OBVIOUS
<1>1. p = [display |-> d, kind |-> Kind(content), pc |-> "asked", shown |-> None,
           task |-> "none", channel |-> e, wire |-> e, frames |-> e]
  BY <1>0 DEF NewProcess
<1>2. Kind(content) \in {"toast", "attention"}
  BY DEF Kind
<1>3. /\ p \in Process /\ p.display = d /\ p.kind = Kind(content) /\ p.task = "none"
      /\ p.channel = e /\ p.wire = e
  BY <1>1, <1>2, <1>e DEF Process
<1>4. 0 <= ChannelCapacity
  BY RendererConstants DEF RendererConstants
<1> QED BY <1>e, <1>3, <1>4 DEF ProcessOk

\* A process is appended to those there are.
LEMMA OneMoreProcess ==
  ASSUME Core, NEW t \in [Generations -> Process], NEW p \in Process, NEW g, g = Len(child) + 1,
         ProcessOk(p),
         \A h \in Generations : ProcessOk(t[h]) /\ SamePlace(child[h], t[h]),
         child' = Append(t, p)
  PROVE  /\ Generations' = Generations \cup {g} /\ g \notin Generations /\ g \in Nat
         /\ child'[g] = p /\ \A h \in Generations : child'[h] = t[h]
         /\ Continues /\ ProcessesOk'
<1>1. PICK n : n = Len(child)
  OBVIOUS
<1>2. n \in Nat /\ Generations = 1 .. n /\ g = n + 1
  BY <1>1, GenerationsOk DEF Core
<1>3. t \in Seq(Process) /\ Len(t) = n
  BY <1>2, ProcessesAreSequence
<1>4. PICK c : c = Append(t, p)
  OBVIOUS
<1>5. /\ c \in Seq(Process) /\ DOMAIN c = 1 .. n + 1 /\ c[n + 1] = p
      /\ \A h \in 1 .. n : c[h] = t[h]
  BY <1>2, <1>3, <1>4
<1>6. /\ Generations' = Generations \cup {g} /\ g \notin Generations
      /\ child'[g] = p /\ \A h \in Generations : child'[h] = t[h]
  BY <1>2, <1>4, <1>5 DEF Generations
<1>7. Continues
  BY <1>6 DEF Continues, SamePlace
<1>8. ProcessesOk'
  BY <1>4, <1>5, <1>6 DEF ProcessesOk
<1> QED BY <1>2, <1>6, <1>7, <1>8

\* A session is added where there is none.
LEMMA OneMoreSession ==
  ASSUME NEW r, SessionsOk(r), Continues, NEW d \in Displays, r.displays[d] = None,
         Cardinality(Sessions(r)) < MaxSessions,
         NEW g \in Generations', g \notin Generations, child'[g].display = d,
         NEW x, x # None,
         NEW content \in Contents,
         x = [generation |-> g, pending |-> TRUE, sender |-> FALSE, content |-> content],
         sessions' = [displays    |-> [r.displays EXCEPT ![d] = x],
                      credentials |-> r.credentials \cup {g}]
  PROVE  SessionsOk(sessions)'
<1>1. PICK w : w = sessions'
  OBVIOUS
<1>2. /\ r.displays \in [Displays -> Session \cup {None}] /\ r.credentials \in SUBSET Generations
      /\ \A e \in Displays : r.displays[e] # None =>
           /\ r.displays[e].generation \in Generations
           /\ child[r.displays[e].generation].display = e
      /\ IsFiniteSet(Sessions(r))
  BY DEF SessionsOk, Session
<1>3. Session \subseteq Session' /\ x \in Session'
  BY DEF Session, Continues
<1>4. /\ w.displays \in [Displays -> Session' \cup {None}]
      /\ w.displays[d] = x /\ \A e \in Displays : e # d => w.displays[e] = r.displays[e]
      /\ w.credentials = r.credentials \cup {g}
      /\ w = [displays |-> w.displays, credentials |-> w.credentials]
  BY <1>1, <1>2, <1>3
<1>5. w.credentials \in SUBSET Generations'
  BY <1>2, <1>4 DEF Continues
<1>6. \A e \in Displays : w.displays[e] # None => child'[w.displays[e].generation].display = e
  BY <1>2, <1>4 DEF Continues
<1>7. /\ IsFiniteSet(Sessions(w)) /\ Cardinality(Sessions(w)) <= MaxSessions
  <2>1. Sessions(w) = Sessions(r) \cup {d} /\ d \notin Sessions(r)
    BY <1>4 DEF Sessions
  <2>2. IsFiniteSet(Sessions(w)) /\ Cardinality(Sessions(w)) = Cardinality(Sessions(r)) + 1
    BY <1>2, <2>1, FS_AddElement
  <2>3. Cardinality(Sessions(r)) \in Nat /\ MaxSessions \in Nat
    BY <1>2, FS_CardinalityType, RendererConstants DEF RendererConstants
  <2> QED BY <2>2, <2>3
<1>8. w.credentials = Pending(w, Displays)
  <2>1. ASSUME NEW h PROVE h \in w.credentials <=> h \in Pending(w, Displays)
    <3>1. h \in r.credentials <=>
            \E e \in Displays : r.displays[e] # None /\ r.displays[e].pending
                                  /\ r.displays[e].generation = h
      BY CredentialOf
    <3>2. h \in Pending(w, Displays) <=>
            \E e \in Displays : w.displays[e] # None /\ w.displays[e].pending
                                  /\ w.displays[e].generation = h
      BY DEF Pending
    <3> QED BY <1>4, <3>1, <3>2
  <2> QED BY <2>1
<1>9. w \in [displays : [Displays -> Session' \cup {None}], credentials : SUBSET Generations']
  BY <1>4, <1>5
<1> QED BY <1>1, <1>6, <1>7, <1>8, <1>9 DEF SessionsOk, Sessions, Pending

LEMMA CreateKeeps ==
  ASSUME IInv, NEW d \in Displays, Create(d)
  PROVE  Core'
<1>0. /\ Core /\ backend = Idle /\ actual[d] = None /\ target[d] \in Contents
      /\ actual' = actual
  BY DEF Create, IInv, PlanOk
<1>1. PICK g, young, c : g = Len(child) + 1 /\ young = Expired(sessions) /\ c = target[d]
  OBVIOUS
<1>2. PICK E \in SUBSET Displays : young = Without(sessions, E)
  BY <1>1 DEF Expired
<1>3. /\ SessionsOk(young) /\ young.credentials \subseteq sessions.credentials
      /\ \A e \in Displays : young.displays[e] \in {None, sessions.displays[e]}
  BY <1>0, <1>2, WithoutOk DEF Core
<1>4. CASE sessions' = young /\ Aging(young) /\ UNCHANGED <<backend, child>>
  <2>1. old' \subseteq sessions'.credentials
    BY <1>4 DEF Aging
  <2>2. /\ child' \in [Generations -> Process]
        /\ \A h \in Generations : Follows(child[h], child'[h])
    BY <1>0, <1>4, OfProcess, GenerationsOk, FollowsItself DEF Core
  <2> QED BY <1>0, <1>2, <1>4, <2>1, <2>2, SessionsEnd
<1>5. CASE /\ ~(d \notin Sessions(young) /\ Cardinality(Sessions(young)) >= MaxSessions)
           /\ sessions' = WithSession(young, d, g, c) /\ Aging(young)
           /\ child' = Append(Told({d}), NewProcess(d, c))
           /\ backend' = [pc |-> "creating", display |-> d, generation |-> g, content |-> c]
  <2>1. PICK t, p, r : t = Told({d}) /\ p = NewProcess(d, c) /\ r = Without(young, {d})
    OBVIOUS
  <2>2. /\ t \in [Generations -> Process]
        /\ \A h \in Generations :
             /\ ProcessOk(t[h]) /\ SameTask(child[h], t[h])
             /\ child[h].display \notin {d} => Follows(child[h], t[h])
    BY <1>0, <2>1, ToldAll
  <2>3. p \in Process /\ ProcessOk(p) /\ p.display = d /\ p.kind = Kind(c)
    BY <1>0, <1>1, <2>1, NewProcessOk
  <2>4. /\ Generations' = Generations \cup {g} /\ g \notin Generations /\ g \in Nat
        /\ child'[g] = p /\ \A h \in Generations : child'[h] = t[h]
        /\ Continues /\ ProcessesOk'
    BY ZenonT(30), <1>0, <1>1, <1>5, <2>1, <2>2, <2>3, OneMoreProcess DEF SameTask
  <2>5. /\ SessionsOk(r) /\ r.credentials \subseteq young.credentials
        /\ r.displays[d] = None
        /\ \A e \in Displays : r.displays[e] = IF e = d THEN None ELSE young.displays[e]
    BY <1>3, <2>1, WithoutOk
  <2>6. Cardinality(Sessions(r)) < MaxSessions
    <3>1. Sessions(r) = Sessions(young) \ {d} /\ IsFiniteSet(Sessions(young))
      BY <1>3, <2>5 DEF Sessions, SessionsOk
    <3>2. /\ Cardinality(Sessions(young)) <= MaxSessions
          /\ Cardinality(Sessions(young)) \in Nat /\ MaxSessions \in Nat
      BY <1>3, <3>1, FS_CardinalityType, RendererConstants DEF RendererConstants, SessionsOk
    <3>3. CASE d \in Sessions(young)
      <4>1. Cardinality(Sessions(r)) = Cardinality(Sessions(young)) - 1
        BY <3>1, <3>3, FS_RemoveElement
      <4> QED BY <3>2, <4>1
    <3>4. CASE d \notin Sessions(young)
      <4>1. Sessions(r) = Sessions(young)
        BY <3>1, <3>4
      <4> QED BY <1>5, <3>2, <3>4, <4>1
    <3> QED BY <3>3, <3>4
  <2>7. PICK x, b :
          /\ x = [generation |-> g, pending |-> TRUE, sender |-> FALSE, content |-> c]
          /\ b = [generation |-> g, content |-> c]
    OBVIOUS
  <2>8. x # None /\ b # None
    BY <1>0, <1>1, <2>4, <2>7, RecordsAreSome
  <2>9. sessions' = [displays    |-> [r.displays EXCEPT ![d] = x],
                     credentials |-> r.credentials \cup {g}]
    BY <1>5, <2>1, <2>7 DEF WithSession
  <2>10. SessionsOk(sessions)'
    BY <1>0, <1>1, <2>3, <2>4, <2>5, <2>6, <2>7, <2>8, <2>9, OneMoreSession
  <2>11. old' \subseteq sessions'.credentials
    <3>1. young.displays[d] = None
      BY <1>0, <1>3 DEF Core, SessionOk, Believed
    <3>2. r.credentials = young.credentials
      BY <2>1, <3>1 DEF Without, Pending
    <3> QED BY <1>5, <2>9, <3>2 DEF Aging
  <2>12. ActualOk'
    <3> PICK f : f = actual
      OBVIOUS
    <3>1. f = [e \in Displays |-> f[e]] /\ DOMAIN f = Displays
      BY <1>0 DEF Core, ActualOk
    <3> QED BY <1>0, <2>4, <3>1, ActualContinues
  <2>13. BackendOk'
    BY <1>0, <1>1, <1>5, <2>3, <2>4 DEF BackendOk, Fits
  <2>14. SessionOk(d)'
    <3>1. sessions'.displays[d] = x
      BY <2>5, <2>9 DEF SessionsOk
    <3>2. Believed(d)' = b
      BY <1>0, <1>5, <2>7 DEF Believed, Idle
    <3> QED BY <2>3, <2>4, <2>7, <2>8, <3>1, <3>2 DEF SessionOk
  <2>15. ASSUME NEW e \in Displays, e \notin {d}
         PROVE  /\ sessions'.displays[e] \in {None, sessions.displays[e]}
                /\ sessions'.displays[e] # None => Believed(e)' = Believed(e)
    <3>1. sessions'.displays[e] \in {None, sessions.displays[e]}
      BY <1>3, <2>5, <2>9, <2>15 DEF SessionsOk
    <3>2. Believed(e)' = Believed(e)
      BY <1>0, <1>5, <2>15 DEF Believed
    <3> QED BY <3>1, <3>2
  <2>16. \A h \in Generations : child[h].display \notin {d} => Follows(child[h], child'[h])
    BY <2>2, <2>4
  <2>17. \A e \in Displays : e \in {d} => SessionOk(e)'
    BY <2>14, Zenon
  <2> QED BY <1>0, <2>4, <2>10, <2>11, <2>12, <2>13, <2>15, <2>16, <2>17, CoreStays
<1> QED BY <1>1, <1>4, <1>5 DEF Create, NewProcess

-----------------------------------------------------------------------------
(* The invariant holds.                                                    *)

LEMMA InitHolds == Init => IInv
<1> SUFFICES ASSUME Init PROVE IInv
  OBVIOUS
<1>0. PICK s, e : s = sessions /\ e = child
  OBVIOUS
<1>1. /\ e \in Seq(Process) /\ Len(e) = 0 /\ DOMAIN e = {}
  BY <1>0 DEF Init
<1>2. ProcessesOk /\ Generations = {}
  BY <1>0, <1>1 DEF ProcessesOk, Generations
<1>3. /\ s.displays = [d \in Displays |-> None] /\ s.credentials = {}
      /\ s = [displays |-> s.displays, credentials |-> s.credentials]
  BY <1>0 DEF Init
<1>4. Sessions(s) = {} /\ Pending(s, Displays) = {}
  BY <1>3 DEF Sessions, Pending
<1>5. IsFiniteSet(Sessions(s)) /\ Cardinality(Sessions(s)) <= MaxSessions
  BY <1>4, FS_EmptySet, RendererConstants DEF RendererConstants
<1>6. SessionsOk(sessions)
  BY <1>0, <1>3, <1>4, <1>5 DEF SessionsOk
<1>7. PlanOk /\ ActualOk /\ BackendOk /\ old = {}
  BY RendererConstants DEF RendererConstants, Init, PlanOk, ActualOk, BackendOk, Idle
<1>8. \A d \in Displays : SessionOk(d)
  BY DEF Init, SessionOk
<1> QED BY <1>2, <1>6, <1>7, <1>8 DEF IInv, Core

LEMMA PlanStays ==
  ASSUME IInv, [Next]_vars
  PROVE  PlanOk'
<1>1. /\ target \in [Displays -> Contents \cup {None}] /\ events \in 0 .. MaxEvents
      /\ MaxEvents \in Nat
  BY RendererConstants DEF RendererConstants, IInv, PlanOk
<1>2. CASE UNCHANGED <<target, events>>
  BY <1>1, <1>2 DEF PlanOk
<1>3. ASSUME NEW d \in Displays, NEW c \in ContentsOf[d] \cup {None}, Want(d, c) PROVE PlanOk'
  <2>1. c \in Contents \cup {None}
    BY RendererConstants DEF RendererConstants
  <2> QED BY <1>1, <1>3, <2>1 DEF Want, PlanOk
<1>4. ASSUME NEW g, \E a \in AttentionActions : Key(g, a) PROVE PlanOk'
  BY <1>1, <1>4 DEF Key, PlanOk
<1>5. ASSUME NEW g, DismissEnds(g) \/ JumpEnds(g) PROVE PlanOk'
  <2>1. events' = events
    BY <1>5 DEF DismissEnds, JumpEnds
  <2>2. target' = target \/ target' = [target EXCEPT ![child[g].display] = None]
    BY <1>5 DEF DismissEnds, JumpEnds, Failed
  <2> QED BY <1>1, <2>1, <2>2 DEF PlanOk
<1>6. Reconcile \/ Prune => UNCHANGED <<target, events>>
  BY DEF Reconcile, Prune, Created, Broken, Close, Create, Update
<1>7. ASSUME NEW g, \/ Age(g) \/ Die(g) \/ Split(g) \/ Redeem(g) \/ Pump(g) \/ HangUp(g)
                    \/ Act(g) \/ Flooded(g) \/ Draws(g)
      PROVE  UNCHANGED <<target, events>>
  BY <1>7 DEF Age, Die, Split, Redeem, Pump, HangUp, Act, Flooded, Draws, Connect, Poll,
              EndOfStream
<1>8. CASE UNCHANGED vars
  BY <1>2, <1>8 DEF vars
<1> QED BY <1>2, <1>3, <1>4, <1>5, <1>6, <1>7, <1>8 DEF Next, Serves

LEMMA NothingMoves ==
  ASSUME Core, UNCHANGED <<sessions, old, actual, backend, child>>
  PROVE  Core'
<1>1. /\ SessionsOk(sessions)' /\ ProcessesOk' /\ ActualOk' /\ BackendOk'
  BY DEF Core, SessionsOk, Session, Sessions, Pending, ProcessesOk, ActualOk, BackendOk,
         Fits, Generations
<1>2. \A d \in Displays : SessionOk(d)'
  BY DEF Core, SessionOk, Believed
<1> QED BY <1>1, <1>2 DEF Core

LEMMA StepKeeps ==
  ASSUME IInv, [Next]_vars
  PROVE  IInv'
<1> SUFFICES Core'
  BY PlanStays DEF IInv
<1>0. Core
  BY DEF IInv
<1>1. CASE \E d \in Displays : \E c \in ContentsOf[d] \cup {None} : Want(d, c)
  BY <1>0, <1>1, NothingMoves DEF Want
<1>2. ASSUME NEW d \in Displays, Close(d) \/ Create(d) \/ Update(d) PROVE Core'
  BY <1>0, <1>2, CloseKeeps, CreateKeeps, UpdateKeeps
<1>3. CASE Created \/ Broken \/ Prune
  BY <1>0, <1>3, CreatedKeeps, BrokenKeeps, PruneKeeps
<1>4. ASSUME NEW g \in Generations, Age(g) \/ Die(g) \/ Split(g) \/ Flooded(g) PROVE Core'
  BY <1>0, <1>4, AgeKeeps, DieKeeps, SplitKeeps, HangUpKeeps
<1>5. ASSUME NEW g \in Generations, Serves(g) PROVE Core'
  BY <1>0, <1>5, RedeemKeeps, PumpKeeps, HangUpKeeps, ActKeeps, DismissKeeps, JumpKeeps
     DEF Serves
<1>6. ASSUME NEW g \in Generations, Draws(g) PROVE Core'
  BY <1>0, <1>6, ConnectKeeps, PollKeeps, EndOfStreamKeeps DEF Draws
<1>7. ASSUME NEW g \in Generations, \E action \in AttentionActions : Key(g, action) PROVE Core'
  BY <1>0, <1>7, KeyKeeps
<1>8. CASE UNCHANGED vars
  BY <1>0, <1>8, NothingMoves DEF vars
<1> QED BY <1>1, <1>2, <1>3, <1>4, <1>5, <1>6, <1>7, <1>8 DEF Next, Reconcile

\* The inductive invariant holds in every behaviour.
THEOREM Invariant == Spec => []IInv
<1>1. Init => IInv
  BY InitHolds
<1>2. IInv /\ [Next]_vars => IInv'
  BY StepKeeps
<1> QED BY <1>1, <1>2, PTL DEF Spec

\* After any order of launches, redemptions, expiries, failures and ends, the
\* sessions of RendererSessions are of displays in tmux or in the making and of
\* the processes started for them, and the credentials are those of the sessions
\* that wait: each can be redeemed once, and none outlives its session.
THEOREM SessionsStayExact == Spec => []SessionsAreExact
<1>1. IInv => SessionsAreExact
  <2> SUFFICES ASSUME IInv PROVE SessionsAreExact
    OBVIOUS
  <2>1. TypeOK
    <3>1. /\ target \in [Displays -> Contents \cup {None}] /\ events \in 0 .. MaxEvents
      BY DEF IInv, PlanOk
    <3>2. /\ sessions.displays \in [Displays -> Session \cup {None}]
          /\ old \subseteq sessions.credentials /\ sessions.credentials \subseteq Generations
          /\ Cardinality(Sessions(sessions)) <= MaxSessions
      BY DEF IInv, Core, SessionsOk
    <3>3. actual \in [Displays -> [generation : Generations, content : Contents] \cup {None}]
      BY DEF IInv, Core, ActualOk
    <3>4. child \in Seq(Process) /\ \A g \in Generations : Len(child[g].channel) <= ChannelCapacity
      BY DEF IInv, Core, ProcessesOk, ProcessOk
    <3> QED BY <3>1, <3>2, <3>3, <3>4 DEF TypeOK, Session
  <2>2. CredentialsArePending
    BY DEF IInv, Core, SessionsOk, CredentialsArePending
  <2>3. SessionsAreDisplays
    <3> SUFFICES ASSUME NEW d \in Displays, sessions.displays[d] # None
                 PROVE  \/ /\ actual[d] # None
                           /\ actual[d].generation = sessions.displays[d].generation
                        \/ /\ backend # Idle /\ backend.display = d
                           /\ backend.generation = sessions.displays[d].generation
      BY DEF SessionsAreDisplays
    <3>1. Believed(d) # None /\ Believed(d).generation = sessions.displays[d].generation
      BY DEF IInv, Core, SessionOk
    <3> QED BY <3>1 DEF Believed
  <2> QED BY <2>1, <2>2, <2>3 DEF SessionsAreExact
<1> QED BY <1>1, Invariant, PTL

\* Whatever updates come before a redemption, are refused because a channel is
\* full, or lose their connection: what is on its way to a process that listens
\* ends with what ProductionBackend believes it to show, and is all of its
\* Presentation.
THEOREM StreamsStayTrue == Spec => []StreamsAreTrue
<1>1. IInv => StreamsAreTrue
  <2> SUFFICES ASSUME IInv PROVE StreamsAreTrue
    OBVIOUS
  <2>0. Core
    BY DEF IInv
  <2>1. BelievedIsSent
    <3> SUFFICES ASSUME NEW d \in Displays, actual[d] # None, sessions.displays[d] # None,
                        NEW g, g = actual[d].generation,
                        HasSender(g), HasReceiver(g), child[g].pc = "up"
                 PROVE  LastContent(child[g].wire \o child[g].channel, child[g].shown)
                          = actual[d].content
      BY DEF BelievedIsSent
    <3>1. g \in Generations /\ child[g].display = d
      BY <2>0 DEF Core, ActualOk, Fits
    <3>2. sessions.displays[d].sender /\ sessions.displays[d].generation = g
      BY <3>1 DEF HasSender, IsCurrentGeneration
    <3>3. Listens(child[g])
      BY DEF HasReceiver, Listens
    <3>4. Heard(child[g]) = actual[d].content
      BY <2>0, <3>2, <3>3 DEF Core, SessionOk, Believed
    <3>5. child[g].wire \in Seq(Messages) /\ child[g].channel \in Seq(Messages)
      BY <2>0, <3>1, OfProcess DEF Process
    <3> QED BY <3>4, <3>5, ReadInParts DEF Heard
  <2>2. RightPresentation
    <3> SUFFICES ASSUME NEW g \in Generations,
                        NEW m \in ToSet(child[g].channel \o child[g].wire), m.type = "content"
                 PROVE  Kind(m.content) = child[g].kind
      BY DEF RightPresentation
    <3>1. PICK c, w : c = child[g].channel /\ w = child[g].wire
      OBVIOUS
    <3>2. /\ c \in Seq(Messages) /\ w \in Seq(Messages)
          /\ \A n \in DOMAIN c : c[n].type = "content" => Kind(c[n].content) = child[g].kind
          /\ \A n \in DOMAIN w : w[n].type = "content" => Kind(w[n].content) = child[g].kind
      BY <2>0, <3>1, OfProcess DEF Process, ProcessOk
    <3>3. PICK u : u = c \o w
      OBVIOUS
    <3>4. \A n \in DOMAIN u : \/ n \in DOMAIN c /\ u[n] = c[n]
                              \/ n - Len(c) \in DOMAIN w /\ u[n] = w[n - Len(c)]
      BY <3>2, <3>3
    <3>5. PICK n \in DOMAIN u : m = u[n]
      BY <3>1, <3>3 DEF ToSet
    <3> QED BY <3>2, <3>4, <3>5
  <2> QED BY <2>1, <2>2 DEF StreamsAreTrue
<1> QED BY <1>1, Invariant, PTL
=============================================================================
