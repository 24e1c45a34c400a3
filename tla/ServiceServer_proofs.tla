------------------------ MODULE ServiceServer_proofs -------------------------
(***************************************************************************)
(* Proofs about ServiceServer, for every number of sessions and whatever   *)
(* happens to the socket directory.                                        *)
(***************************************************************************)
EXTENDS ServiceServer, Subsequence_proofs

(***************************************************************************)
(* The queue.                                                              *)
(***************************************************************************)
OwnNames == {"create_server", "timer_start", "timer_stop", "destroy_server"}
SignalNames == {"start", "stop", "bound", "closed", "bind_failed"}
PeerNames == {"ready", "peer_closed"}

ServerTask ==
  {Own(name) : name \in OwnNames} \cup {Signal(name) : name \in SignalNames}
    \cup {PeerSignal(name, i, s) : name \in PeerNames, i \in Id, s \in Nat}

Elems(q) == {q[k] : k \in 1 .. Len(q)}
Names(q) == {t.task : t \in Elems(q)}

\* There is at most one task of this name, and one announcement of a peer.
Once(q, name) ==
  \A k, l \in 1 .. Len(q) : q[k].task = name /\ q[l].task = name => k = l

ReadyApart(q) ==
  \A k, l \in 1 .. Len(q) :
    q[k].task = "ready" /\ q[l].task = "ready" /\ q[k].id = q[l].id => k = l

(***************************************************************************)
(* The life of the socket server.  It is destroyed by one task, and its    *)
(* signals with it; while there is none, the queue holds nothing but the   *)
(* next step towards another one.                                          *)
(***************************************************************************)
Retired ==
  /\ stopped /\ ~acceptor /\ ~binding /\ ~bind_retry
  /\ peer = NoPeers /\ exposed = NoPeers

Down ==
  /\ ~server /\ Retired
  /\ tasks \in {<<Own("create_server")>>, <<Own("timer_stop"), Own("timer_start")>>,
                <<Own("timer_start")>>}

Starting ==
  /\ server /\ Retired
  /\ \/ tasks = <<Own("timer_stop"), Signal("start")>>
     \/ tasks = <<Signal("start")>> /\ ~retry_timer

Running ==
  /\ server /\ ~retry_timer
  /\ Names(tasks) \subseteq {"bound", "closed", "bind_failed"} \cup PeerNames
  /\ Once(tasks, "bind_failed")
  /\ binding => "bind_failed" \notin Names(tasks)

Ending ==
  /\ server /\ ~retry_timer /\ ~binding
  /\ Names(tasks) \subseteq {"bound", "closed", "stop", "destroy_server"} \cup PeerNames
  /\ "destroy_server" \in Names(tasks) /\ Once(tasks, "destroy_server")

Phase == Down \/ Starting \/ Running \/ Ending

ServerTypeOK ==
  /\ creatable \in BOOLEAN /\ server \in BOOLEAN /\ stopped \in BOOLEAN
  /\ binding \in BOOLEAN /\ acceptor \in BOOLEAN
  /\ bind_retry \in BOOLEAN /\ retry_timer \in BOOLEAN
  /\ next_peer_id \in Nat /\ sessions \in Nat /\ blocks \in Nat
  /\ next_peer_id <= sessions /\ sessions <= MaxSession
  /\ peer \in [Id -> Nat] /\ exposed \in [Id -> Nat] /\ entry \in [Id -> Nat]
  /\ tasks \in Seq(ServerTask)

\* Peer ids are not used again during the life of a socket server.
IdsUsed ==
  /\ \A i \in Id : peer[i] # NoSession \/ exposed[i] # NoSession => i <= next_peer_id
  /\ \A t \in Elems(tasks) : t.task \in PeerNames => t.id <= next_peer_id

\* A connection whose end is on its way is not open any more.
ClosedIsClosed ==
  \A t \in Elems(tasks) : t.task = "peer_closed" => peer[t.id] = NoSession

\* A peer is announced once.
ReadyOnce ==
  /\ \A t \in Elems(tasks) : t.task = "ready" => exposed[t.id] = NoSession
  /\ ReadyApart(tasks)

\* Until the directory is blocked, the server is not destroyed.
NeverEnding ==
  blocks = 0 => creatable /\ Names(tasks) \cap {"stop", "destroy_server"} = {}

ServerInv ==
  /\ ServerTypeOK
  /\ Phase
  /\ IdsUsed
  /\ ClosedIsClosed
  /\ ReadyOnce
  /\ NeverEnding
  /\ EntryPerPeer
-----------------------------------------------------------------------------
(***************************************************************************)
(* The queue's elements, when a task is put at its end or taken off its    *)
(* front.                                                                  *)
(***************************************************************************)
LEMMA TaskFacts ==
  ASSUME NEW t \in ServerTask
  PROVE  /\ t.task \in OwnNames \cup SignalNames \cup PeerNames
         /\ t.task \in PeerNames => t.id \in Id /\ t.session \in Nat
         /\ t.owner = "service" => t.task \in OwnNames
  BY DEF ServerTask, Own, Signal, PeerSignal, OwnNames, SignalNames, PeerNames

LEMMA MakersOfTasks ==
  /\ \A name \in OwnNames : Own(name) \in ServerTask /\ Own(name).task = name
  /\ \A name \in SignalNames : Signal(name) \in ServerTask /\ Signal(name).task = name
  /\ \A name \in PeerNames, i \in Id, s \in Nat :
       LET t == PeerSignal(name, i, s)
       IN  t \in ServerTask /\ t.task = name /\ t.id = i /\ t.session = s
<1>1. \A name \in OwnNames : Own(name) \in ServerTask
  BY DEF ServerTask
<1>2. \A name \in SignalNames : Signal(name) \in ServerTask
  BY DEF ServerTask
<1>3. \A name \in PeerNames, i \in Id, s \in Nat : PeerSignal(name, i, s) \in ServerTask
  BY DEF ServerTask
<1> QED
  BY <1>1, <1>2, <1>3 DEF Own, Signal, PeerSignal

LEMMA PutLast ==
  ASSUME NEW q \in Seq(ServerTask), NEW t \in ServerTask
  PROVE  /\ Append(q, t) \in Seq(ServerTask)
         /\ Elems(Append(q, t)) = Elems(q) \cup {t}
         /\ Names(Append(q, t)) = Names(q) \cup {t.task}
         /\ \A name : Once(q, name) /\ (t.task = name => name \notin Names(q))
                        => Once(Append(q, t), name)
         /\ ReadyApart(q)
              /\ (t.task = "ready" => \A u \in Elems(q) : u.task = "ready" => u.id # t.id)
              => ReadyApart(Append(q, t))
<1> DEFINE r == Append(q, t)
<1>1. /\ r \in Seq(ServerTask) /\ Len(q) \in Nat /\ Len(r) = Len(q) + 1
      /\ r[Len(q) + 1] = t
      /\ \A i \in 1 .. Len(q) : r[i] = q[i]
  OBVIOUS
<1> HIDE DEF r
<1>2. /\ Len(q) + 1 \in 1 .. Len(r)
      /\ \A i \in 1 .. Len(q) : i \in 1 .. Len(r)
      /\ \A i \in 1 .. Len(r) : i \in 1 .. Len(q) \/ i = Len(q) + 1
  BY <1>1
<1>3. Elems(r) = Elems(q) \cup {t}
  BY <1>1, <1>2 DEF Elems
<1>4. Names(r) = Names(q) \cup {t.task}
  BY <1>3 DEF Names
<1>5. \A i \in 1 .. Len(q) : q[i] \in Elems(q) /\ q[i].task \in Names(q)
  BY DEF Elems, Names
<1>6. ASSUME NEW name, Once(q, name), t.task = name => name \notin Names(q)
      PROVE  Once(r, name)
  BY <1>1, <1>2, <1>5, <1>6 DEF Once
<1>7. ASSUME ReadyApart(q),
             t.task = "ready" => \A u \in Elems(q) : u.task = "ready" => u.id # t.id
      PROVE  ReadyApart(r)
  BY <1>1, <1>2, <1>5, <1>7 DEF ReadyApart
<1> QED
  BY <1>1, <1>3, <1>4, <1>6, <1>7 DEF r

LEMMA TakeFirst ==
  ASSUME NEW q \in Seq(ServerTask), q # <<>>
  PROVE  /\ Tail(q) \in Seq(ServerTask) /\ Head(q) \in ServerTask
         /\ Elems(q) = Elems(Tail(q)) \cup {Head(q)}
         /\ Names(q) = Names(Tail(q)) \cup {Head(q).task}
         /\ \A name : Once(q, name)
                        => /\ Once(Tail(q), name)
                           /\ Head(q).task = name => name \notin Names(Tail(q))
         /\ ReadyApart(q)
              => /\ ReadyApart(Tail(q))
                 /\ Head(q).task = "ready"
                      => \A u \in Elems(Tail(q)) : u.task = "ready" => u.id # Head(q).id
<1> DEFINE r == Tail(q)
<1>1. /\ r \in Seq(ServerTask) /\ Len(q) \in Nat /\ Len(q) > 0 /\ Len(r) = Len(q) - 1
      /\ Head(q) = q[1] /\ Head(q) \in ServerTask
      /\ \A i \in 1 .. Len(r) : r[i] = q[i + 1]
  OBVIOUS
<1> HIDE DEF r
<1>2. /\ 1 \in 1 .. Len(q)
      /\ \A i \in 1 .. Len(r) : i + 1 \in 1 .. Len(q) /\ i + 1 # 1 /\ i \in Nat
      /\ \A i \in 1 .. Len(q) : i = 1 \/ (i - 1 \in 1 .. Len(r) /\ (i - 1) + 1 = i)
  BY <1>1
<1>3. Elems(q) = Elems(r) \cup {Head(q)}
  <2>1. \A i \in 1 .. Len(r) : q[i + 1] \in Elems(q)
    BY <1>2 DEF Elems
  <2>2. \A i \in 1 .. Len(q) : i = 1 \/ r[i - 1] = q[i]
    BY <1>1, <1>2
  <2>3. \A i \in 1 .. Len(q) : i = 1 \/ q[i] \in Elems(r)
    BY <1>2, <2>2 DEF Elems
  <2>4. Head(q) \in Elems(q)
    BY <1>1, <1>2 DEF Elems
  <2>5. ASSUME NEW u \in Elems(q) PROVE u \in Elems(r) \cup {Head(q)}
    <3>1. PICK i \in 1 .. Len(q) : u = q[i]
      BY DEF Elems
    <3> QED
      BY <1>1, <2>3, <3>1
  <2>6. ASSUME NEW u \in Elems(r) PROVE u \in Elems(q)
    <3>1. PICK i \in 1 .. Len(r) : u = r[i]
      BY DEF Elems
    <3> QED
      BY <1>1, <2>1, <3>1
  <2> QED
    BY <2>4, <2>5, <2>6
<1>4. Names(q) = Names(r) \cup {Head(q).task}
  BY <1>3 DEF Names
<1>5. \A u \in Elems(r) : \E i \in 1 .. Len(r) : u = r[i]
  BY DEF Elems
<1>6. ASSUME NEW name, Once(q, name)
      PROVE  Once(r, name) /\ (Head(q).task = name => name \notin Names(r))
  <2>1. Once(r, name)
    <3> SUFFICES ASSUME NEW k \in 1 .. Len(r), NEW l \in 1 .. Len(r),
                        r[k].task = name, r[l].task = name
                 PROVE  k = l
      BY DEF Once
    <3>1. k + 1 = l + 1
      BY <1>1, <1>2, <1>6 DEF Once
    <3> QED
      BY <1>2, <3>1
  <2>2. Head(q).task = name => name \notin Names(r)
    <3> SUFFICES ASSUME Head(q).task = name, NEW u \in Elems(r), u.task = name
                 PROVE  FALSE
      BY DEF Names
    <3>1. PICK i \in 1 .. Len(r) : u = r[i]
      BY <1>5
    <3> QED
      BY <1>1, <1>2, <1>6, <3>1 DEF Once
  <2> QED
    BY <2>1, <2>2
<1>7. ASSUME ReadyApart(q)
      PROVE  /\ ReadyApart(r)
             /\ Head(q).task = "ready"
                  => \A u \in Elems(r) : u.task = "ready" => u.id # Head(q).id
  <2>1. ReadyApart(r)
    <3> SUFFICES ASSUME NEW k \in 1 .. Len(r), NEW l \in 1 .. Len(r),
                        r[k].task = "ready", r[l].task = "ready", r[k].id = r[l].id
                 PROVE  k = l
      BY DEF ReadyApart
    <3>1. k + 1 = l + 1
      BY <1>1, <1>2, <1>7 DEF ReadyApart
    <3> QED
      BY <1>2, <3>1
  <2>2. ASSUME Head(q).task = "ready", NEW u \in Elems(r), u.task = "ready"
        PROVE  u.id # Head(q).id
    <3>1. PICK i \in 1 .. Len(r) : u = r[i]
      BY <1>5
    <3> QED
      BY <1>1, <1>2, <1>7, <2>2, <3>1 DEF ReadyApart
  <2> QED
    BY <2>1, <2>2
<1> QED
  BY <1>1, <1>3, <1>4, <1>6, <1>7 DEF r

\* The short queues.
LEMMA ShortQueues ==
  /\ <<>> \in Seq(ServerTask) /\ Elems(<<>>) = {} /\ Names(<<>>) = {}
  /\ ReadyApart(<<>>) /\ \A name : Once(<<>>, name)
  /\ \A t \in ServerTask :
       /\ <<t>> \in Seq(ServerTask) /\ Elems(<<t>>) = {t} /\ Names(<<t>>) = {t.task}
       /\ ReadyApart(<<t>>)
  /\ \A t, u \in ServerTask :
       t.task # "ready" =>
       /\ <<t, u>> \in Seq(ServerTask)
       /\ Elems(<<t, u>>) = {t, u} /\ Names(<<t, u>>) = {t.task, u.task}
       /\ ReadyApart(<<t, u>>)
<1>1. /\ <<>> \in Seq(ServerTask) /\ Elems(<<>>) = {} /\ Names(<<>>) = {}
      /\ ReadyApart(<<>>) /\ \A name : Once(<<>>, name)
  <2>1. <<>> \in Seq(ServerTask) /\ 1 .. Len(<<>>) = {}
    OBVIOUS
  <2> QED
    BY <2>1 DEF Elems, Names, ReadyApart, Once
<1>2. ASSUME NEW t \in ServerTask
      PROVE  /\ <<t>> \in Seq(ServerTask)
             /\ Elems(<<t>>) = {t} /\ Names(<<t>>) = {t.task}
             /\ ReadyApart(<<t>>)
  <2> DEFINE e == <<>>
  <2>1. <<t>> = Append(e, t)
    OBVIOUS
  <2>2. /\ e \in Seq(ServerTask) /\ Elems(e) = {} /\ Names(e) = {} /\ ReadyApart(e)
    BY <1>1
  <2> HIDE DEF e
  <2>3. /\ <<t>> \in Seq(ServerTask)
        /\ Elems(<<t>>) = Elems(e) \cup {t} /\ Names(<<t>>) = Names(e) \cup {t.task}
        /\ ReadyApart(<<t>>)
    BY <2>1, <2>2, PutLast
  <2> QED
    BY <2>1, <2>2, <2>3
<1>3. ASSUME NEW t \in ServerTask, NEW u \in ServerTask, t.task # "ready"
      PROVE  /\ <<t, u>> \in Seq(ServerTask)
             /\ Elems(<<t, u>>) = {t, u} /\ Names(<<t, u>>) = {t.task, u.task}
             /\ ReadyApart(<<t, u>>)
  <2> DEFINE e == <<t>>
  <2>1. <<t, u>> = Append(e, u)
    OBVIOUS
  <2>2. /\ e \in Seq(ServerTask) /\ Elems(e) = {t} /\ Names(e) = {t.task} /\ ReadyApart(e)
    BY <1>2
  <2>3. u.task = "ready" => \A w \in Elems(e) : w.task = "ready" => w.id # u.id
    BY <1>3, <2>2
  <2> HIDE DEF e
  <2>4. /\ Append(e, u) \in Seq(ServerTask)
        /\ Elems(Append(e, u)) = Elems(e) \cup {u}
        /\ Names(Append(e, u)) = Names(e) \cup {u.task}
        /\ ReadyApart(Append(e, u))
    BY <2>2, <2>3, PutLast
  <2> QED
    BY <2>1, <2>2, <2>4
<1> QED
  BY <1>1, <1>2, <1>3

(***************************************************************************)
(* What a task that runs tells about the phase, and what it leaves.        *)
(***************************************************************************)
\* The rest of the queue after its first task.
Rest ==
  /\ tasks \in Seq(ServerTask) /\ Tail(tasks) \in Seq(ServerTask)
  /\ Head(tasks) \in Elems(tasks) /\ Head(tasks) \in ServerTask
  /\ \A t \in Elems(Tail(tasks)) : t \in Elems(tasks)
  /\ Names(tasks) = Names(Tail(tasks)) \cup {Head(tasks).task}
  /\ \A name : Once(tasks, name) => Once(Tail(tasks), name)
  /\ \A name : Once(tasks, name) /\ Head(tasks).task = name => name \notin Names(Tail(tasks))
  /\ ReadyApart(tasks) => ReadyApart(Tail(tasks))
  /\ ReadyApart(tasks) /\ Head(tasks).task = "ready"
       => \A u \in Elems(Tail(tasks)) : u.task = "ready" => u.id # Head(tasks).id

LEMMA RestFacts ==
  ASSUME ServerTypeOK, NEW name, HasTask(name)
  PROVE  Rest /\ Head(tasks).task = name
<1>1. tasks \in Seq(ServerTask) /\ tasks # <<>> /\ Head(tasks).task = name
  BY DEF HasTask, ServerTypeOK
<1> QED
  BY <1>1, TakeFirst DEF Rest

LEMMA PhaseOfTask ==
  ASSUME ServerTypeOK, Phase, NEW name, HasTask(name)
  PROVE  /\ name \in {"bound", "closed", "ready", "peer_closed", "bind_failed"} => Running \/ Ending
         /\ name = "bind_failed" => Running
         /\ name \in {"stop", "destroy_server"} => Ending
         /\ name = "start" => Starting /\ tasks = <<Signal("start")>> /\ ~retry_timer
         /\ name = "create_server" => Down /\ tasks = <<Own("create_server")>>
         /\ name = "timer_start" => Down /\ tasks = <<Own("timer_start")>>
         /\ name = "timer_stop" =>
              \/ Down /\ tasks = <<Own("timer_stop"), Own("timer_start")>>
              \/ Starting /\ tasks = <<Own("timer_stop"), Signal("start")>>
<1>1. name \in Names(tasks) /\ Head(tasks).task = name
  BY RestFacts DEF Rest
<1>2. Running => name \in {"bound", "closed", "bind_failed", "ready", "peer_closed"}
  BY <1>1 DEF Running, PeerNames
<1>3. Ending => name \in {"bound", "closed", "stop", "destroy_server", "ready", "peer_closed"}
  BY <1>1 DEF Ending, PeerNames
<1>4. Down => \/ name = "create_server" /\ tasks = <<Own("create_server")>>
              \/ name = "timer_start" /\ tasks = <<Own("timer_start")>>
              \/ name = "timer_stop" /\ tasks = <<Own("timer_stop"), Own("timer_start")>>
  BY <1>1 DEF Down, Own
<1>5. Starting => \/ name = "timer_stop" /\ tasks = <<Own("timer_stop"), Signal("start")>>
                  \/ name = "start" /\ tasks = <<Signal("start")>> /\ ~retry_timer
  BY <1>1 DEF Starting, Own, Signal
<1> QED
  BY <1>2, <1>3, <1>4, <1>5 DEF Phase

\* While a connection, the acceptor or a bind exists, the server runs or ends.
LEMMA PhaseOfServer ==
  ASSUME ServerTypeOK, Phase
  PROVE  /\ acceptor => Running \/ Ending
         /\ binding => Running
         /\ \A i \in Id : peer[i] # NoSession => Running \/ Ending
         /\ tasks = <<>> => Running
<1>1. \A i \in Id : NoPeers[i] = NoSession
  BY DEF NoPeers
<1>2. tasks = <<>> => ~Ending
  <2>1. Names(<<>>) = {}
    BY ShortQueues
  <2> QED
    BY <2>1 DEF Ending
<1>3. tasks = <<>> => ~Down /\ ~Starting
  <2>1. \A t, u : <<t>> # <<>> /\ <<t, u>> # <<>>
    OBVIOUS
  <2> QED
    BY <2>1 DEF Down, Starting
<1> QED
  BY <1>1, <1>2, <1>3 DEF Phase, Down, Starting, Retired, Ending

\* A task put at the end of the queue.
More(t) ==
  /\ Append(tasks, t) \in Seq(ServerTask)
  /\ Elems(Append(tasks, t)) = Elems(tasks) \cup {t}
  /\ Names(Append(tasks, t)) = Names(tasks) \cup {t.task}
  /\ \A name : Once(tasks, name) /\ (t.task = name => name \notin Names(tasks))
                 => Once(Append(tasks, t), name)
  /\ ReadyApart(tasks)
       /\ (t.task = "ready" => \A u \in Elems(tasks) : u.task = "ready" => u.id # t.id)
       => ReadyApart(Append(tasks, t))

LEMMA MoreFacts ==
  ASSUME ServerTypeOK, NEW t \in ServerTask
  PROVE  More(t)
<1>1. tasks \in Seq(ServerTask)
  BY DEF ServerTypeOK
<1> QED
  BY <1>1, PutLast DEF More

(***************************************************************************)
(* Every action keeps the invariant.  First those that put a task at the   *)
(* end of the queue.                                                       *)
(***************************************************************************)
LEMMA IoBindKeeps ==
  ASSUME ServerInv, io_bind
  PROVE  ServerInv'
<1>1. /\ binding' = FALSE /\ UNCHANGED <<creatable, blocks, server, stopped, next_peer_id, peer,
            sessions, exposed, bind_retry, retry_timer, entry>>
  BY DEF io_bind, files, peers, timers
<1>2. ServerTypeOK /\ Phase /\ Running
  BY PhaseOfServer DEF ServerInv, io_bind
<1>3. CASE UNCHANGED <<acceptor, tasks>>
  <2>1. ServerTypeOK'
    BY <1>1, <1>2, <1>3 DEF ServerTypeOK
  <2>2. Running'
    BY <1>1, <1>2, <1>3 DEF Running
  <2> QED
    BY <1>1, <1>3, <2>1, <2>2 DEF ServerInv, Phase, IdsUsed, ClosedIsClosed, ReadyOnce,
       NeverEnding, EntryPerPeer
<1>4. ASSUME NEW name \in {"bound", "bind_failed"}, tasks' = Append(tasks, Signal(name)),
             acceptor' \in BOOLEAN
      PROVE  ServerInv'
  <2>1. Signal(name) \in ServerTask /\ Signal(name).task = name /\ name \notin PeerNames
    BY MakersOfTasks DEF SignalNames, PeerNames
  <2>2. More(Signal(name))
    BY <1>2, <2>1, MoreFacts
  <2>3. ServerTypeOK'
    BY <1>1, <1>2, <1>4, <2>2 DEF ServerTypeOK, More
  <2>4. "bind_failed" \notin Names(tasks)
    BY <1>2 DEF Running, io_bind
  <2>5. Running'
    BY <1>1, <1>2, <1>4, <2>1, <2>2, <2>4 DEF Running, More
  <2>6. /\ Elems(tasks') = Elems(tasks) \cup {Signal(name)}
        /\ Names(tasks') = Names(tasks) \cup {name}
        /\ ReadyApart(tasks) => ReadyApart(tasks')
    BY <1>4, <2>1, <2>2 DEF More, PeerNames
  <2>7. IdsUsed' /\ ClosedIsClosed' /\ ReadyOnce'
    BY <1>1, <2>1, <2>6 DEF ServerInv, IdsUsed, ClosedIsClosed, ReadyOnce, PeerNames
  <2>8. NeverEnding' /\ EntryPerPeer'
    BY <1>1, <2>6 DEF ServerInv, NeverEnding, EntryPerPeer
  <2> QED
    BY <2>3, <2>5, <2>7, <2>8 DEF ServerInv, Phase
<1> QED
  BY <1>2, <1>3, <1>4 DEF io_bind, ServerTypeOK

LEMMA AcceptorFailsKeeps ==
  ASSUME ServerInv, acceptor_fails
  PROVE  ServerInv'
<1>1. /\ acceptor /\ acceptor' = FALSE /\ tasks' = Append(tasks, Signal("closed"))
      /\ UNCHANGED <<creatable, blocks, server, stopped, binding, next_peer_id, peer,
            sessions, exposed, bind_retry, retry_timer, entry>>
  BY DEF acceptor_fails, files, peers, timers
<1>2. ServerTypeOK /\ Phase /\ (Running \/ Ending)
  BY <1>1, PhaseOfServer DEF ServerInv
<1>3. Signal("closed") \in ServerTask /\ Signal("closed").task = "closed"
  BY MakersOfTasks DEF SignalNames
<1>4. More(Signal("closed"))
  BY <1>2, <1>3, MoreFacts
<1>5. /\ Elems(tasks') = Elems(tasks) \cup {Signal("closed")}
      /\ Names(tasks') = Names(tasks) \cup {"closed"}
      /\ \A name : name # "closed" /\ Once(tasks, name) => Once(tasks', name)
      /\ ReadyApart(tasks) => ReadyApart(tasks')
      /\ tasks' \in Seq(ServerTask)
  BY <1>1, <1>3, <1>4 DEF More
<1>6. ServerTypeOK'
  BY <1>1, <1>2, <1>5 DEF ServerTypeOK
<1>7. Running => Running'
  BY <1>1, <1>5 DEF Running
<1>8. Ending => Ending'
  BY <1>1, <1>5 DEF Ending
<1>9. IdsUsed' /\ ClosedIsClosed' /\ ReadyOnce'
  BY <1>1, <1>3, <1>5 DEF ServerInv, IdsUsed, ClosedIsClosed, ReadyOnce, PeerNames
<1>10. NeverEnding' /\ EntryPerPeer'
  BY <1>1, <1>5 DEF ServerInv, NeverEnding, EntryPerPeer
<1> QED
  BY <1>2, <1>6, <1>7, <1>8, <1>9, <1>10 DEF ServerInv, Phase

LEMMA AcceptKeeps ==
  ASSUME ServerInv, accept
  PROVE  ServerInv'
<1> DEFINE n == next_peer_id + 1
           t == PeerSignal("ready", n, sessions + 1)
<1>1. /\ acceptor /\ sessions < MaxSession /\ sessions' = sessions + 1 /\ next_peer_id' = n
      /\ peer' = [peer EXCEPT ![n] = sessions + 1]
      /\ tasks' = Append(tasks, t)
      /\ UNCHANGED <<creatable, blocks, server, stopped, binding, acceptor, exposed,
            bind_retry, retry_timer, entry>>
  BY DEF accept, files, timers
<1>2. ServerTypeOK /\ Phase /\ (Running \/ Ending)
  BY <1>1, PhaseOfServer DEF ServerInv
<1>3. n \in Id /\ n \in Nat /\ sessions + 1 \in Nat /\ next_peer_id \in Nat /\ n > next_peer_id
  BY <1>1, <1>2, ServerAssumption DEF ServerTypeOK, Id
<1> HIDE DEF n
<1>4. t \in ServerTask /\ t.task = "ready" /\ t.id = n
  BY <1>3, MakersOfTasks DEF PeerNames
<1>5. More(t)
  BY <1>2, <1>4, MoreFacts
<1>a. \A u \in Elems(tasks) : u \in ServerTask
  BY <1>2 DEF ServerTypeOK, Elems
<1>b. \A u \in Elems(tasks) : u.task \in PeerNames => u.id \in Id /\ u.id # n /\ u.id <= next_peer_id
  <2>1. \A u \in Elems(tasks) : u.task \in PeerNames => u.id \in Id /\ u.id <= next_peer_id
    BY <1>a, TaskFacts DEF ServerInv, IdsUsed
  <2> QED
    BY <1>3, <2>1, ServerAssumption DEF Id
<1>6. /\ Elems(tasks') = Elems(tasks) \cup {t}
      /\ Names(tasks') = Names(tasks) \cup {"ready"}
      /\ \A name : name # "ready" /\ Once(tasks, name) => Once(tasks', name)
      /\ ReadyApart(tasks')
      /\ tasks' \in Seq(ServerTask)
  <2>1. \A u \in Elems(tasks) : u.task = "ready" => u.id # n
    BY <1>b DEF PeerNames
  <2> QED
    BY <1>1, <1>4, <1>5, <2>1 DEF More, ServerInv, ReadyOnce
<1> HIDE DEF t
<1>7. ServerTypeOK'
  <2>1. peer' \in [Id -> Nat]
    BY <1>1, <1>2, <1>3 DEF ServerTypeOK
  <2>2. /\ next_peer_id' \in Nat /\ sessions' \in Nat
        /\ next_peer_id' <= sessions' /\ sessions' <= MaxSession
    BY <1>1, <1>2, ServerAssumption DEF ServerTypeOK, n
  <2> QED
    BY <1>1, <1>2, <1>6, <2>1, <2>2 DEF ServerTypeOK
<1>8. Running => Running'
  BY <1>1, <1>6 DEF Running, PeerNames
<1>9. Ending => Ending'
  BY <1>1, <1>6 DEF Ending, PeerNames
<1>c. exposed[n] = NoSession
  BY <1>2, <1>3 DEF ServerInv, IdsUsed, ServerTypeOK
<1>10. IdsUsed'
  <2>1. ASSUME NEW i \in Id, peer'[i] # NoSession \/ exposed'[i] # NoSession
        PROVE  i <= next_peer_id'
    <3>1. CASE i = n
      BY <1>1, <1>3, <3>1
    <3>2. CASE i # n
      <4>1. peer'[i] = peer[i] /\ exposed'[i] = exposed[i] /\ i \in Nat
        BY <1>1, <1>2, <3>2, ServerAssumption DEF ServerTypeOK, Id
      <4>2. i <= next_peer_id
        BY <2>1, <4>1 DEF ServerInv, IdsUsed
      <4> QED
        BY <1>1, <1>3, <4>1, <4>2
    <3> QED
      BY <3>1, <3>2
  <2>2. ASSUME NEW u \in Elems(tasks'), u.task \in PeerNames
        PROVE  u.id <= next_peer_id'
    <3>1. CASE u = t
      BY <1>1, <1>3, <1>4, <3>1
    <3>2. CASE u \in Elems(tasks)
      <4>1. u.id \in Nat /\ u.id <= next_peer_id
        BY <1>b, <2>2, <3>2, ServerAssumption DEF Id
      <4> QED
        BY <1>1, <1>3, <4>1
    <3> QED
      BY <1>6, <3>1, <3>2
  <2> QED
    BY <2>1, <2>2 DEF IdsUsed
<1>11. ClosedIsClosed'
  <2> SUFFICES ASSUME NEW u \in Elems(tasks'), u.task = "peer_closed"
               PROVE  peer'[u.id] = NoSession
    BY DEF ClosedIsClosed
  <2>1. u \in Elems(tasks)
    BY <1>4, <1>6
  <2>2. u.id \in Id /\ u.id # n /\ peer[u.id] = NoSession
    BY <1>b, <2>1 DEF PeerNames, ServerInv, ClosedIsClosed
  <2> QED
    BY <1>1, <1>2, <2>2 DEF ServerTypeOK
<1>12. ReadyOnce'
  BY <1>1, <1>4, <1>6, <1>c DEF ServerInv, ReadyOnce
<1>13. NeverEnding' /\ EntryPerPeer'
  BY <1>1, <1>6 DEF ServerInv, NeverEnding, EntryPerPeer
<1> QED
  BY <1>2, <1>7, <1>8, <1>9, <1>10, <1>11, <1>12, <1>13 DEF ServerInv, Phase

LEMMA PeerEndsKeeps ==
  ASSUME ServerInv, NEW i \in Id, peer_ends(i)
  PROVE  ServerInv'
<1> DEFINE t == PeerSignal("peer_closed", i, peer[i])
<1>1. /\ peer[i] # NoSession /\ peer' = [peer EXCEPT ![i] = NoSession]
      /\ tasks' = Append(tasks, t)
      /\ UNCHANGED <<creatable, blocks, server, stopped, binding, acceptor, next_peer_id,
            sessions, exposed, bind_retry, retry_timer, entry>>
  BY DEF peer_ends, files, timers
<1>2. ServerTypeOK /\ Phase /\ (Running \/ Ending) /\ peer[i] \in Nat
  BY <1>1, PhaseOfServer DEF ServerInv, ServerTypeOK
<1>3. t \in ServerTask /\ t.task = "peer_closed" /\ t.id = i
  BY <1>2, MakersOfTasks DEF PeerNames
<1>4. More(t)
  BY <1>2, <1>3, MoreFacts
<1>5. /\ Elems(tasks') = Elems(tasks) \cup {t}
      /\ Names(tasks') = Names(tasks) \cup {"peer_closed"}
      /\ \A name : name # "peer_closed" /\ Once(tasks, name) => Once(tasks', name)
      /\ ReadyApart(tasks')
      /\ tasks' \in Seq(ServerTask)
  BY <1>1, <1>3, <1>4 DEF More, ServerInv, ReadyOnce
<1> HIDE DEF t
<1>6. ServerTypeOK'
  <2>1. peer' \in [Id -> Nat]
    BY <1>1, <1>2 DEF ServerTypeOK, NoSession
  <2> QED
    BY <1>1, <1>2, <1>5, <2>1 DEF ServerTypeOK
<1>7. Running => Running'
  BY <1>1, <1>5 DEF Running, PeerNames
<1>8. Ending => Ending'
  BY <1>1, <1>5 DEF Ending, PeerNames
<1>9. i <= next_peer_id /\ \A j \in Id : peer'[j] # NoSession => peer[j] # NoSession
  BY <1>1, <1>2 DEF ServerInv, IdsUsed, ServerTypeOK
<1>10. IdsUsed'
  BY <1>1, <1>3, <1>5, <1>9 DEF ServerInv, IdsUsed
<1>11. \A u \in Elems(tasks) : u.task = "peer_closed" => u.id \in Id
  <2>1. \A u \in Elems(tasks) : u \in ServerTask
    BY <1>2 DEF ServerTypeOK, Elems
  <2> QED
    BY <2>1, TaskFacts DEF PeerNames
<1>12. ClosedIsClosed'
  <2>1. \A j \in Id : peer[j] = NoSession => peer'[j] = NoSession
    BY <1>1, <1>2 DEF ServerTypeOK
  <2>2. peer'[i] = NoSession
    BY <1>1, <1>2 DEF ServerTypeOK
  <2> QED
    BY <1>3, <1>5, <1>11, <2>1, <2>2 DEF ServerInv, ClosedIsClosed
<1>13. ReadyOnce'
  BY <1>1, <1>3, <1>5 DEF ServerInv, ReadyOnce
<1>14. NeverEnding' /\ EntryPerPeer'
  BY <1>1, <1>5 DEF ServerInv, NeverEnding, EntryPerPeer
<1> QED
  BY <1>2, <1>6, <1>7, <1>8, <1>10, <1>12, <1>13, <1>14 DEF ServerInv, Phase

(***************************************************************************)
(* Then the tasks of a server that runs or ends.  What the queue loses is  *)
(* its first task.                                                         *)
(***************************************************************************)
LEMMA ShorterKeeps ==
  ASSUME ServerInv, NEW name \in {"bound", "closed", "ready", "peer_closed"},
         HasTask(name), tasks' = Tail(tasks),
         UNCHANGED <<creatable, blocks, server, binding, next_peer_id, sessions, peer,
                     retry_timer>>
  PROVE  /\ Phase' /\ NeverEnding' /\ ClosedIsClosed'
         /\ Rest /\ Head(tasks).task = name /\ (Running \/ Ending)
         /\ \A t \in Elems(tasks') : t \in Elems(tasks)
         /\ tasks' \in Seq(ServerTask)
<1>1. ServerTypeOK /\ Phase /\ Rest /\ Head(tasks).task = name /\ (Running \/ Ending)
  BY RestFacts, PhaseOfTask DEF ServerInv
<1>2. /\ Names(tasks) = Names(tasks') \cup {name}
      /\ \A n : Once(tasks, n) => Once(tasks', n)
      /\ \A t \in Elems(tasks') : t \in Elems(tasks)
      /\ tasks' \in Seq(ServerTask)
  BY <1>1 DEF Rest
<1>3. Running => Running'
  BY <1>2 DEF Running
<1>4. Ending => Ending'
  BY <1>2 DEF Ending
<1>5. NeverEnding' /\ ClosedIsClosed'
  BY <1>2 DEF ServerInv, NeverEnding, ClosedIsClosed
<1> QED
  BY <1>1, <1>2, <1>3, <1>4, <1>5 DEF Phase

LEMMA BoundKeeps ==
  ASSUME ServerInv, bound
  PROVE  ServerInv'
<1>1. /\ HasTask("bound") /\ tasks' = Tail(tasks)
      /\ UNCHANGED <<creatable, blocks, server, stopped, binding, acceptor, next_peer_id, peer,
            sessions, exposed, bind_retry, retry_timer, entry>>
  BY DEF bound, files, peers
<1>2. /\ Phase' /\ NeverEnding' /\ ClosedIsClosed' /\ Rest
      /\ \A t \in Elems(tasks') : t \in Elems(tasks)
      /\ tasks' \in Seq(ServerTask)
  BY <1>1, ShorterKeeps
<1>3. ServerTypeOK'
  BY <1>1, <1>2 DEF ServerInv, ServerTypeOK
<1>4. IdsUsed' /\ ReadyOnce' /\ EntryPerPeer'
  BY <1>1, <1>2 DEF ServerInv, IdsUsed, ReadyOnce, EntryPerPeer, Rest
<1> QED
  BY <1>2, <1>3, <1>4 DEF ServerInv

LEMMA ClosedKeeps ==
  ASSUME ServerInv, closed
  PROVE  ServerInv'
<1>1. /\ HasTask("closed") /\ tasks' = Tail(tasks) /\ bind_retry' = (bind_retry \/ ~stopped)
      /\ UNCHANGED <<creatable, blocks, server, stopped, binding, acceptor, next_peer_id, peer,
            sessions, exposed, retry_timer, entry>>
  BY DEF closed, schedule_bind_retry, files, peers
<1>2. /\ Phase' /\ NeverEnding' /\ ClosedIsClosed' /\ Rest
      /\ \A t \in Elems(tasks') : t \in Elems(tasks)
      /\ tasks' \in Seq(ServerTask)
  BY <1>1, ShorterKeeps
<1>3. ServerTypeOK'
  BY <1>1, <1>2 DEF ServerInv, ServerTypeOK
<1>4. IdsUsed' /\ ReadyOnce' /\ EntryPerPeer'
  BY <1>1, <1>2 DEF ServerInv, IdsUsed, ReadyOnce, EntryPerPeer, Rest
<1> QED
  BY <1>2, <1>3, <1>4 DEF ServerInv

LEMMA PeerConnectedKeeps ==
  ASSUME ServerInv, peer_connected
  PROVE  ServerInv'
<1> DEFINE i == Head(tasks).id
           s == Head(tasks).session
<1>1. /\ HasTask("ready") /\ tasks' = Tail(tasks)
      /\ exposed' = [exposed EXCEPT ![i] = s] /\ entry' = create_client(i, s)
      /\ UNCHANGED <<creatable, blocks, server, stopped, binding, acceptor, next_peer_id, peer,
            sessions, bind_retry, retry_timer>>
  BY DEF peer_connected, files, peers, timers
<1>2. /\ Phase' /\ NeverEnding' /\ ClosedIsClosed'
      /\ Rest /\ Head(tasks).task = "ready"
      /\ \A t \in Elems(tasks') : t \in Elems(tasks)
      /\ tasks' \in Seq(ServerTask)
  BY <1>1, ShorterKeeps
<1>3. i \in Id /\ s \in Nat /\ i <= next_peer_id /\ exposed[i] = NoSession
  BY <1>2, TaskFacts DEF Rest, PeerNames, ServerInv, IdsUsed, ReadyOnce
<1>4. ReadyApart(tasks') /\ \A u \in Elems(tasks') : u.task = "ready" => u.id # i
  BY <1>1, <1>2 DEF Rest, ServerInv, ReadyOnce
<1>5. \A u \in Elems(tasks') : u.task = "ready" => u.id \in Id
  BY <1>2, TaskFacts DEF Elems, PeerNames
<1> HIDE DEF i, s
<1>6. /\ exposed \in [Id -> Nat] /\ entry \in [Id -> Nat]
      /\ exposed' \in [Id -> Nat] /\ entry' \in [Id -> Nat]
  BY <1>1, <1>3 DEF ServerInv, ServerTypeOK, create_client
<1>7. ServerTypeOK'
  BY <1>1, <1>2, <1>6 DEF ServerInv, ServerTypeOK
<1>8. IdsUsed'
  <2>1. \A j \in Id : j # i => exposed'[j] = exposed[j]
    BY <1>1, <1>6
  <2> QED
    BY <1>1, <1>2, <1>3, <2>1 DEF ServerInv, IdsUsed
<1>9. ReadyOnce'
  <2>1. \A j \in Id : j # i => exposed'[j] = exposed[j]
    BY <1>1, <1>6
  <2> QED
    BY <1>2, <1>4, <1>5, <2>1 DEF ServerInv, ReadyOnce
<1>10. EntryPerPeer'
  BY <1>1, <1>3 DEF ServerInv, EntryPerPeer, create_client
<1> QED
  BY <1>2, <1>7, <1>8, <1>9, <1>10 DEF ServerInv

LEMMA PeerClosedKeeps ==
  ASSUME ServerInv, peer_closed
  PROVE  ServerInv'
<1> DEFINE i == Head(tasks).id
<1>1. /\ HasTask("peer_closed") /\ tasks' = Tail(tasks)
      /\ exposed' = [exposed EXCEPT ![i] = NoSession]
      /\ entry' = IF exposed[i] # NoSession THEN erase_client(i) ELSE entry
      /\ UNCHANGED <<creatable, blocks, server, stopped, binding, acceptor, next_peer_id, peer,
            sessions, bind_retry, retry_timer>>
  BY DEF peer_closed, files, peers, timers
<1>2. /\ Phase' /\ NeverEnding' /\ ClosedIsClosed'
      /\ Rest /\ Head(tasks).task = "peer_closed"
      /\ \A t \in Elems(tasks') : t \in Elems(tasks)
      /\ tasks' \in Seq(ServerTask)
  BY <1>1, ShorterKeeps
<1>3. i \in Id
  BY <1>2, TaskFacts DEF Rest, PeerNames
<1>4. ReadyApart(tasks')
  BY <1>1, <1>2 DEF Rest, ServerInv, ReadyOnce
<1>5. \A u \in Elems(tasks') : u.task = "ready" => u.id \in Id
  BY <1>2, TaskFacts DEF Elems, PeerNames
<1> HIDE DEF i
<1>6. /\ exposed \in [Id -> Nat] /\ entry \in [Id -> Nat]
      /\ exposed' \in [Id -> Nat] /\ entry' \in [Id -> Nat]
  BY <1>1, <1>3 DEF ServerInv, ServerTypeOK, erase_client, NoSession
<1>7. ServerTypeOK'
  BY <1>1, <1>2, <1>6 DEF ServerInv, ServerTypeOK
<1>8. \A j \in Id : exposed'[j] # NoSession => exposed[j] # NoSession
  BY <1>1, <1>6
<1>9. IdsUsed' /\ ReadyOnce'
  BY <1>1, <1>2, <1>4, <1>5, <1>8 DEF ServerInv, IdsUsed, ReadyOnce
<1>10. EntryPerPeer'
  <2>1. exposed[i] = NoSession => exposed' = exposed
    BY <1>1, <1>6
  <2> QED
    BY <1>1, <2>1 DEF ServerInv, EntryPerPeer, erase_client
<1> QED
  BY <1>2, <1>7, <1>9, <1>10 DEF ServerInv

LEMMA BindFailedKeeps ==
  ASSUME ServerInv, bind_failed
  PROVE  ServerInv'
<1>1. /\ HasTask("bind_failed") /\ bind_retry' = (bind_retry \/ ~stopped)
      /\ UNCHANGED <<creatable, blocks, server, stopped, binding, acceptor, next_peer_id, peer,
            sessions, exposed, retry_timer, entry>>
  BY DEF bind_failed, schedule_bind_retry, peers
<1>2. ServerTypeOK /\ Running /\ Rest /\ Head(tasks).task = "bind_failed"
  BY <1>1, RestFacts, PhaseOfTask DEF ServerInv
<1> DEFINE rest == Tail(tasks)
<1>3. /\ rest \in Seq(ServerTask)
      /\ \A t \in Elems(rest) : t \in Elems(tasks)
      /\ Names(tasks) = Names(rest) \cup {"bind_failed"}
      /\ Once(rest, "bind_failed") /\ "bind_failed" \notin Names(rest)
      /\ ReadyApart(rest)
      /\ ~binding
  BY <1>2 DEF Rest, Running, ServerInv, ReadyOnce
<1> HIDE DEF rest
<1>4. CASE tasks' = rest
  <2>1. ServerTypeOK'
    BY <1>1, <1>2, <1>3, <1>4 DEF ServerTypeOK
  <2>2. Running'
    BY <1>1, <1>2, <1>3, <1>4 DEF Running
  <2>3. IdsUsed' /\ ClosedIsClosed' /\ ReadyOnce' /\ NeverEnding' /\ EntryPerPeer'
    BY <1>1, <1>3, <1>4 DEF ServerInv, IdsUsed, ClosedIsClosed, ReadyOnce, NeverEnding,
       EntryPerPeer
  <2> QED
    BY <2>1, <2>2, <2>3 DEF ServerInv, Phase
<1>5. CASE ~prepared /\ tasks' = rest \o <<Signal("stop"), Own("destroy_server")>>
  <2> DEFINE one == Append(rest, Signal("stop"))
             two == Append(one, Own("destroy_server"))
  <2>1. /\ Signal("stop") \in ServerTask /\ Signal("stop").task = "stop"
        /\ Own("destroy_server") \in ServerTask /\ Own("destroy_server").task = "destroy_server"
    BY MakersOfTasks DEF SignalNames, OwnNames
  <2>2. tasks' = two
    BY <1>3, <1>5, <2>1
  <2>3. "destroy_server" \notin Names(rest) /\ Once(rest, "destroy_server")
    <3>1. "destroy_server" \notin Names(rest)
      BY <1>2, <1>3 DEF Running, PeerNames
    <3> QED
      BY <3>1 DEF Once, Names, Elems
  <2>4. /\ one \in Seq(ServerTask) /\ Elems(one) = Elems(rest) \cup {Signal("stop")}
        /\ Names(one) = Names(rest) \cup {"stop"}
        /\ Once(one, "destroy_server") /\ ReadyApart(one)
    BY <1>3, <2>1, <2>3, PutLast
  <2> HIDE DEF one
  <2>5. /\ two \in Seq(ServerTask) /\ Elems(two) = Elems(one) \cup {Own("destroy_server")}
        /\ Names(two) = Names(one) \cup {"destroy_server"}
        /\ Once(two, "destroy_server") /\ ReadyApart(two)
    BY <2>1, <2>3, <2>4, PutLast
  <2> HIDE DEF two
  <2>6. ServerTypeOK'
    BY <1>1, <1>2, <2>2, <2>5 DEF ServerTypeOK
  <2>7. Ending'
    BY <1>1, <1>2, <1>3, <2>2, <2>4, <2>5 DEF Ending, Running
  <2>8. IdsUsed' /\ ClosedIsClosed' /\ ReadyOnce'
    <3>1. \A t \in Elems(tasks') : t.task \in PeerNames => t \in Elems(tasks)
      BY <1>3, <2>1, <2>2, <2>4, <2>5 DEF PeerNames
    <3> QED
      BY <1>1, <2>2, <2>5, <3>1 DEF ServerInv, IdsUsed, ClosedIsClosed, ReadyOnce, PeerNames
  <2>9. NeverEnding' /\ EntryPerPeer'
    BY <1>1, <1>5 DEF ServerInv, NeverEnding, EntryPerPeer, prepared
  <2> QED
    BY <2>6, <2>7, <2>8, <2>9 DEF ServerInv, Phase
<1> QED
  BY <1>4, <1>5 DEF bind_failed, rest

LEMMA StopKeeps ==
  ASSUME ServerInv, stop
  PROVE  ServerInv'
<1>1. /\ HasTask("stop") /\ tasks' = Tail(tasks) /\ stopped' = TRUE /\ acceptor' = FALSE
      /\ peer' = NoPeers /\ exposed' = NoPeers /\ bind_retry' = FALSE
      /\ UNCHANGED <<creatable, blocks, server, binding, next_peer_id, sessions,
            retry_timer, entry>>
  BY DEF stop, Closed, files
<1>2. ServerTypeOK /\ Ending /\ Rest /\ Head(tasks).task = "stop"
  BY <1>1, RestFacts, PhaseOfTask DEF ServerInv
<1>3. /\ Names(tasks) = Names(tasks') \cup {"stop"}
      /\ Once(tasks', "destroy_server") /\ ReadyApart(tasks')
      /\ \A t \in Elems(tasks') : t \in Elems(tasks) /\ (t.task \in PeerNames => t.id \in Id)
      /\ tasks' \in Seq(ServerTask)
  <2>1. \A t \in Elems(tasks) : t \in ServerTask
    BY <1>2 DEF Rest, Elems
  <2> QED
    BY <1>1, <1>2, <2>1, TaskFacts DEF Rest, Ending, ServerInv, ReadyOnce
<1>4. NoPeers \in [Id -> Nat] /\ \A i \in Id : NoPeers[i] = NoSession
  BY DEF NoPeers, NoSession
<1>5. ServerTypeOK'
  BY <1>1, <1>2, <1>3, <1>4 DEF ServerTypeOK
<1>6. Ending'
  BY <1>1, <1>2, <1>3 DEF Ending
<1>7. blocks # 0
  BY <1>2 DEF ServerInv, NeverEnding, Ending
<1>8. IdsUsed' /\ ClosedIsClosed' /\ ReadyOnce'
  BY <1>1, <1>3, <1>4 DEF ServerInv, IdsUsed, ClosedIsClosed, ReadyOnce, PeerNames
<1>9. NeverEnding' /\ EntryPerPeer'
  BY <1>1, <1>7 DEF NeverEnding, EntryPerPeer
<1> QED
  BY <1>5, <1>6, <1>8, <1>9 DEF ServerInv, Phase

LEMMA DestroyServerKeeps ==
  ASSUME ServerInv, destroy_server
  PROVE  ServerInv'
<1> DEFINE kept == {k \in 2 .. Len(tasks) : tasks[k].owner = "service"}
<1>1. /\ HasTask("destroy_server") /\ stopped' = TRUE /\ acceptor' = FALSE
      /\ peer' = NoPeers /\ exposed' = NoPeers /\ bind_retry' = FALSE
      /\ server' = FALSE /\ binding' = FALSE
      /\ tasks' = Append(SubseqAt(tasks, kept), Own("timer_start"))
      /\ UNCHANGED <<creatable, blocks, next_peer_id, sessions, retry_timer, entry>>
  BY DEF destroy_server, Closed, files
<1>2. ServerTypeOK /\ Ending /\ Rest /\ Head(tasks).task = "destroy_server"
  BY <1>1, RestFacts, PhaseOfTask DEF ServerInv
<1>3. kept = {}
  <2> SUFFICES ASSUME NEW k \in 2 .. Len(tasks), tasks[k].owner = "service" PROVE FALSE
    OBVIOUS
  <2>1. /\ tasks \in Seq(ServerTask) /\ Len(tasks) \in Nat
        /\ 1 \in 1 .. Len(tasks) /\ k \in 1 .. Len(tasks) /\ k # 1
        /\ tasks[k] \in ServerTask
    BY <1>2 DEF Rest
  <2>2. tasks[1].task = "destroy_server"
    BY <1>2, <2>1
  <2>3. tasks[k].task \in OwnNames /\ tasks[k].task \in Names(tasks)
    BY <2>1, TaskFacts DEF Names, Elems
  <2>4. tasks[k].task = "destroy_server"
    BY <1>2, <2>3 DEF Ending, OwnNames, PeerNames
  <2> QED
    BY <1>2, <2>1, <2>2, <2>4 DEF Ending, Once
<1>4. tasks' = <<Own("timer_start")>>
  <2>1. Cardinality(kept) = 0
    BY <1>3, FS_EmptySet
  <2> HIDE DEF kept
  <2>2. SubseqAt(tasks, kept) = <<>>
    BY <2>1 DEF SubseqAt
  <2> QED
    BY <1>1, <2>2
<1> HIDE DEF kept
<1>5. Own("timer_start") \in ServerTask /\ Own("timer_start").task = "timer_start"
  BY MakersOfTasks DEF OwnNames
<1>6. /\ tasks' \in Seq(ServerTask) /\ Elems(tasks') = {Own("timer_start")}
      /\ ReadyApart(tasks')
  BY <1>4, <1>5, ShortQueues
<1>7. NoPeers \in [Id -> Nat] /\ \A i \in Id : NoPeers[i] = NoSession
  BY DEF NoPeers, NoSession
<1>8. ServerTypeOK'
  BY <1>1, <1>2, <1>6, <1>7 DEF ServerTypeOK
<1>9. Down'
  BY <1>1, <1>4 DEF Down, Retired
<1>10. blocks # 0
  BY <1>2 DEF ServerInv, NeverEnding, Ending
<1>11. IdsUsed' /\ ClosedIsClosed' /\ ReadyOnce'
  BY <1>1, <1>5, <1>6, <1>7 DEF IdsUsed, ClosedIsClosed, ReadyOnce, PeerNames
<1>12. NeverEnding' /\ EntryPerPeer'
  BY <1>1, <1>10 DEF NeverEnding, EntryPerPeer
<1> QED
  BY <1>8, <1>9, <1>11, <1>12 DEF ServerInv, Phase

(***************************************************************************)
(* Then the tasks on the way to a server: the queue has at most two.       *)
(***************************************************************************)
LEMMA StartKeeps ==
  ASSUME ServerInv, start
  PROVE  ServerInv'
<1>1. /\ HasTask("start") /\ tasks' = Tail(tasks) /\ stopped' = FALSE /\ binding' = TRUE
      /\ UNCHANGED <<creatable, blocks, server, acceptor, next_peer_id, peer, sessions, exposed,
            bind_retry, retry_timer, entry>>
  BY DEF start, files, peers, timers
<1>2. ServerTypeOK /\ Starting /\ tasks = <<Signal("start")>> /\ ~retry_timer
  BY <1>1, PhaseOfTask DEF ServerInv
<1>3. tasks' = <<>>
  BY <1>1, <1>2
<1>4. /\ tasks' \in Seq(ServerTask) /\ Elems(tasks') = {} /\ Names(tasks') = {}
      /\ ReadyApart(tasks') /\ Once(tasks', "bind_failed")
  BY <1>3, ShortQueues
<1>5. ServerTypeOK'
  BY <1>1, <1>2, <1>4 DEF ServerTypeOK
<1>6. Running'
  BY <1>1, <1>2, <1>4 DEF Running, Starting
<1>7. IdsUsed' /\ ClosedIsClosed' /\ ReadyOnce' /\ NeverEnding' /\ EntryPerPeer'
  BY <1>1, <1>4 DEF ServerInv, IdsUsed, ClosedIsClosed, ReadyOnce, NeverEnding, EntryPerPeer
<1> QED
  BY <1>5, <1>6, <1>7 DEF ServerInv, Phase

\* A queue without signals of peers, on the way to a server.
Quiet(q) ==
  /\ q \in Seq(ServerTask) /\ ReadyApart(q)
  /\ \A t \in Elems(q) : t.task \notin PeerNames
  /\ Names(q) \cap {"stop", "destroy_server"} = {}

LEMMA QuietQueues ==
  /\ Quiet(<<Own("create_server")>>) /\ Quiet(<<Own("timer_start")>>)
  /\ Quiet(<<Own("timer_stop"), Own("timer_start")>>)
  /\ Quiet(<<Own("timer_stop"), Signal("start")>>) /\ Quiet(<<Signal("start")>>)
<1>1. \A n \in {"create_server", "timer_start", "timer_stop"} :
        Own(n) \in ServerTask /\ Own(n).task = n
  BY MakersOfTasks DEF OwnNames
<1>2. Signal("start") \in ServerTask /\ Signal("start").task = "start"
  BY MakersOfTasks DEF SignalNames
<1>3. ASSUME NEW t \in ServerTask,
             t.task \notin PeerNames \cup {"stop", "destroy_server"}
      PROVE  Quiet(<<t>>)
  BY <1>3, ShortQueues DEF Quiet
<1>4. ASSUME NEW t \in ServerTask, NEW u \in ServerTask,
             t.task \notin PeerNames \cup {"stop", "destroy_server"},
             u.task \notin PeerNames \cup {"stop", "destroy_server"}
      PROVE  Quiet(<<t, u>>)
  <2>1. t.task # "ready"
    BY <1>4 DEF PeerNames
  <2> QED
    BY <1>4, <2>1, ShortQueues DEF Quiet
<1>5. {"create_server", "timer_start", "timer_stop", "start"}
        \cap (PeerNames \cup {"stop", "destroy_server"}) = {}
  BY DEF PeerNames
<1>6. Quiet(<<Own("create_server")>>) /\ Quiet(<<Own("timer_start")>>)
  BY <1>1, <1>3, <1>5
<1>7. Quiet(<<Own("timer_stop"), Own("timer_start")>>)
  BY <1>1, <1>4, <1>5
<1>8. Quiet(<<Own("timer_stop"), Signal("start")>>) /\ Quiet(<<Signal("start")>>)
  BY <1>1, <1>2, <1>3, <1>4, <1>5
<1> QED
  BY <1>6, <1>7, <1>8

LEMMA TimerStartKeeps ==
  ASSUME ServerInv, timer_start
  PROVE  ServerInv'
<1>1. /\ HasTask("timer_start") /\ retry_timer' = TRUE
      /\ tasks' = Append(Tail(tasks), Own("create_server"))
      /\ UNCHANGED <<creatable, blocks, server, stopped, binding, acceptor, next_peer_id, peer,
            sessions, exposed, bind_retry, entry>>
  BY DEF timer_start, files, peers, timers
<1>2. ServerTypeOK /\ Down /\ tasks = <<Own("timer_start")>>
  BY <1>1, PhaseOfTask DEF ServerInv
<1>3. tasks' = <<Own("create_server")>>
  BY <1>1, <1>2
<1>4. Quiet(tasks')
  BY <1>3, QuietQueues
<1>5. ServerTypeOK'
  BY <1>1, <1>2, <1>4 DEF ServerTypeOK, Quiet
<1>6. Down'
  BY <1>1, <1>2, <1>3 DEF Down, Retired
<1>7. IdsUsed' /\ ClosedIsClosed' /\ ReadyOnce' /\ NeverEnding' /\ EntryPerPeer'
  BY <1>1, <1>4 DEF ServerInv, IdsUsed, ClosedIsClosed, ReadyOnce, NeverEnding, EntryPerPeer,
     Quiet, PeerNames
<1> QED
  BY <1>5, <1>6, <1>7 DEF ServerInv, Phase

LEMMA TimerStopKeeps ==
  ASSUME ServerInv, timer_stop
  PROVE  ServerInv'
<1>1. /\ HasTask("timer_stop") /\ retry_timer' = FALSE /\ tasks' = Tail(tasks)
      /\ UNCHANGED <<creatable, blocks, server, stopped, binding, acceptor, next_peer_id, peer,
            sessions, exposed, bind_retry, entry>>
  BY DEF timer_stop, files, peers, timers
<1>2. \/ Down /\ tasks = <<Own("timer_stop"), Own("timer_start")>>
      \/ Starting /\ tasks = <<Own("timer_stop"), Signal("start")>>
  BY <1>1, PhaseOfTask DEF ServerInv
<1>3. \/ Down /\ tasks' = <<Own("timer_start")>>
      \/ Starting /\ tasks' = <<Signal("start")>>
  <2>1. \A t, u : Tail(<<t, u>>) = <<u>>
    OBVIOUS
  <2> QED
    BY <1>1, <1>2, <2>1
<1>4. Quiet(tasks')
  BY <1>3, QuietQueues
<1>5. ServerTypeOK'
  BY <1>1, <1>4 DEF ServerInv, ServerTypeOK, Quiet
<1>6. Down' \/ Starting'
  BY <1>1, <1>3 DEF Down, Starting, Retired
<1>7. IdsUsed' /\ ClosedIsClosed' /\ ReadyOnce' /\ NeverEnding' /\ EntryPerPeer'
  BY <1>1, <1>4 DEF ServerInv, IdsUsed, ClosedIsClosed, ReadyOnce, NeverEnding, EntryPerPeer,
     Quiet, PeerNames
<1> QED
  BY <1>5, <1>6, <1>7 DEF ServerInv, Phase

\* Peer ids start again from zero, and no peer of the last server is left.
LEMMA CreateServerKeeps ==
  ASSUME ServerInv, create_server
  PROVE  ServerInv'
<1>1. /\ HasTask("create_server")
      /\ UNCHANGED <<creatable, blocks, stopped, binding, acceptor, peer, sessions, exposed,
            bind_retry, retry_timer, entry>>
  BY DEF create_server, timers
<1>2. ServerTypeOK /\ Down /\ tasks = <<Own("create_server")>>
  BY <1>1, PhaseOfTask DEF ServerInv
<1>3. \/ /\ tasks' = <<Own("timer_stop"), Own("timer_start")>>
         /\ UNCHANGED <<server, next_peer_id>>
      \/ /\ tasks' = <<Own("timer_stop"), Signal("start")>>
         /\ server' = TRUE /\ next_peer_id' = 0
  BY <1>1, <1>2 DEF create_server
<1>4. Quiet(tasks')
  BY <1>3, QuietQueues
<1>5. ServerTypeOK'
  <2>1. /\ next_peer_id \in Nat /\ sessions \in Nat /\ next_peer_id <= sessions
        /\ server \in BOOLEAN
    BY <1>2 DEF ServerTypeOK
  <2>2. server' \in BOOLEAN
    BY <1>3, <2>1
  <2>3. next_peer_id' = next_peer_id \/ next_peer_id' = 0
    BY <1>3
  <2>4. next_peer_id' \in Nat /\ next_peer_id' <= sessions
    BY <2>1, <2>3
  <2> QED
    BY <1>1, <1>2, <1>4, <2>2, <2>4 DEF ServerTypeOK, Quiet
<1>6. Down' \/ Starting'
  BY <1>1, <1>2, <1>3 DEF Down, Starting, Retired
<1>7. \A i \in Id : peer'[i] = NoSession /\ exposed'[i] = NoSession
  BY <1>1, <1>2 DEF Down, Retired, NoPeers
<1>8. IdsUsed' /\ ClosedIsClosed' /\ ReadyOnce' /\ NeverEnding' /\ EntryPerPeer'
  BY <1>1, <1>4, <1>7 DEF ServerInv, IdsUsed, ClosedIsClosed, ReadyOnce, NeverEnding,
     EntryPerPeer, Quiet, PeerNames
<1> QED
  BY <1>5, <1>6, <1>8 DEF ServerInv, Phase

LEMMA IntervalKeeps ==
  ASSUME ServerInv, interval_passes
  PROVE  ServerInv'
<1>1. /\ tasks = <<>> /\ binding' = (binding \/ bind_retry) /\ bind_retry' = FALSE
      /\ tasks' = IF retry_timer THEN <<Own("create_server")>> ELSE <<>>
      /\ UNCHANGED <<creatable, blocks, server, stopped, acceptor, next_peer_id, peer, sessions,
            exposed, retry_timer, entry>>
  BY DEF interval_passes, files, peers
<1>2. ServerTypeOK /\ Running
  BY <1>1, PhaseOfServer DEF ServerInv
<1>3. tasks' = tasks /\ Names(tasks) = {}
  BY <1>1, <1>2, ShortQueues DEF Running
<1>4. ServerTypeOK'
  BY <1>1, <1>2, <1>3 DEF ServerTypeOK
<1>5. Running'
  BY <1>1, <1>2, <1>3 DEF Running
<1>6. IdsUsed' /\ ClosedIsClosed' /\ ReadyOnce' /\ NeverEnding' /\ EntryPerPeer'
  BY <1>1, <1>3 DEF ServerInv, IdsUsed, ClosedIsClosed, ReadyOnce, NeverEnding, EntryPerPeer
<1> QED
  BY <1>4, <1>5, <1>6 DEF ServerInv, Phase

\* The directory matters only once it has been blocked.
LEMMA FilesKeep ==
  ASSUME ServerInv, Files
  PROVE  ServerInv'
<1>1. UNCHANGED <<server, stopped, binding, acceptor, next_peer_id, peer, sessions, exposed,
                  bind_retry, retry_timer, entry, tasks>>
  BY DEF Files, directory_removed, directory_blocked, directory_unblocked, system, peers, timers
<1>2. /\ creatable' \in BOOLEAN
      /\ \/ blocks' = blocks /\ (creatable => creatable')
         \/ blocks' = blocks + 1
  BY DEF Files, directory_removed, directory_blocked, directory_unblocked, ServerInv, ServerTypeOK
<1>3. ServerTypeOK'
  BY <1>1, <1>2 DEF ServerInv, ServerTypeOK
<1>4. Phase'
  BY <1>1 DEF ServerInv, Phase, Down, Starting, Running, Ending, Retired
<1>5. IdsUsed' /\ ClosedIsClosed' /\ ReadyOnce'
  BY <1>1 DEF ServerInv, IdsUsed, ClosedIsClosed, ReadyOnce
<1>6. blocks' = 0 => blocks = 0 /\ (creatable => creatable')
  BY <1>2 DEF ServerInv, ServerTypeOK
<1>7. NeverEnding' /\ EntryPerPeer'
  BY <1>1, <1>6 DEF ServerInv, NeverEnding, EntryPerPeer
<1> QED
  BY <1>3, <1>4, <1>5, <1>7 DEF ServerInv
-----------------------------------------------------------------------------
LEMMA ServerInitInv ==
  ServerInit => ServerInv
<1> SUFFICES ASSUME ServerInit PROVE ServerInv
  OBVIOUS
<1>1. Quiet(tasks)
  BY QuietQueues DEF ServerInit
<1>2. NoPeers \in [Id -> Nat] /\ \A i \in Id : NoPeers[i] = NoSession
  BY DEF NoPeers, NoSession
<1>3. ServerTypeOK
  <2>1. tasks \in Seq(ServerTask)
    BY <1>1 DEF Quiet
  <2>2. peer \in [Id -> Nat] /\ exposed \in [Id -> Nat] /\ entry \in [Id -> Nat]
    BY <1>2 DEF ServerInit
  <2>3. /\ next_peer_id \in Nat /\ sessions \in Nat /\ blocks \in Nat
        /\ next_peer_id <= sessions /\ sessions <= MaxSession
    BY ServerAssumption DEF ServerInit
  <2>4. /\ creatable \in BOOLEAN /\ server \in BOOLEAN /\ stopped \in BOOLEAN
        /\ binding \in BOOLEAN /\ acceptor \in BOOLEAN
        /\ bind_retry \in BOOLEAN /\ retry_timer \in BOOLEAN
    BY DEF ServerInit
  <2> QED
    BY <2>1, <2>2, <2>3, <2>4 DEF ServerTypeOK
<1>4. Phase
  BY DEF ServerInit, Phase, Down, Retired
<1>5. IdsUsed /\ ClosedIsClosed /\ ReadyOnce /\ NeverEnding /\ EntryPerPeer
  BY <1>1, <1>2 DEF ServerInit, IdsUsed, ClosedIsClosed, ReadyOnce, NeverEnding, EntryPerPeer,
     Quiet, PeerNames
<1> QED
  BY <1>3, <1>4, <1>5 DEF ServerInv

LEMMA ServerNextInv ==
  ServerInv /\ [ServerNext]_rvars => ServerInv'
<1> SUFFICES ASSUME ServerInv, [ServerNext]_rvars PROVE ServerInv'
  OBVIOUS
<1>1. CASE Dispatch
  BY <1>1, StartKeeps, BoundKeeps, ClosedKeeps, StopKeeps, PeerConnectedKeeps, PeerClosedKeeps,
     BindFailedKeeps, DestroyServerKeeps, TimerStartKeeps, TimerStopKeeps, CreateServerKeeps
  DEF Dispatch
<1>2. CASE io_bind \/ interval_passes \/ acceptor_fails
  BY <1>2, IoBindKeeps, IntervalKeeps, AcceptorFailsKeeps
<1>3. CASE Peers
  BY <1>3, AcceptKeeps, PeerEndsKeeps DEF Peers
<1>4. CASE Files
  BY <1>4, FilesKeep
<1>5. CASE UNCHANGED rvars
  <2>1. UNCHANGED <<creatable, blocks, server, stopped, binding, acceptor, next_peer_id, peer,
                    sessions, exposed, bind_retry, retry_timer, entry, tasks>>
    BY <1>5 DEF rvars, files, peers, timers
  <2> QED
    BY <2>1 DEF ServerInv, ServerTypeOK, Phase, Down, Starting, Running, Ending, Retired,
       IdsUsed, ClosedIsClosed, ReadyOnce, NeverEnding, EntryPerPeer
<1> QED
  BY <1>1, <1>2, <1>3, <1>4, <1>5 DEF ServerNext

LEMMA ServerInvHolds ==
  ServerSpec => []ServerInv
BY ServerInitInv, ServerNextInv, PTL DEF ServerSpec

\* As long as the socket directory can always be created again, create_client and
\* erase_client keep exactly one entry per exposed peer, made for that peer:
\* whatever peers connect and disconnect, and however often the socket is lost
\* and bound again.
THEOREM OneEntryPerPeer ==
  ServerSpec => []EntryPerPeer
<1>1. ServerInv => EntryPerPeer
  BY DEF ServerInv
<1> QED
  BY <1>1, ServerInvHolds, PTL

\* No step of the daemon takes away or replaces the entry of a peer whose
\* connection is open: create_client finds no entry to write over, and
\* erase_client follows the end of that very connection.
THEOREM OpenSessionSurvives ==
  ServerSpec => SessionSurvives
<1> DEFINE A == \A i \in Id : entry[i] # NoSession /\ entry[i] = peer[i] => entry'[i] = entry[i]
<1>1. ServerInv /\ [ServerNext]_rvars => [A]_rvars
  <2> SUFFICES ASSUME ServerInv, [ServerNext]_rvars, NEW i \in Id,
                      entry[i] # NoSession, entry[i] = peer[i]
               PROVE  entry'[i] = entry[i]
    OBVIOUS
  <2>1. entry \in [Id -> Nat]
    BY DEF ServerInv, ServerTypeOK
  <2>2. CASE peer_connected
    <3>1. entry' = create_client(Head(tasks).id, Head(tasks).session)
      BY <2>2 DEF peer_connected
    <3> QED
      BY <2>1, <3>1 DEF create_client
  <2>3. CASE peer_closed
    <3>1. ServerTypeOK /\ HasTask("peer_closed")
      BY <2>3 DEF peer_closed, ServerInv
    <3>2. Head(tasks) \in Elems(tasks) /\ Head(tasks).task = "peer_closed"
      BY <3>1, RestFacts DEF Rest
    <3>3. peer[Head(tasks).id] = NoSession
      BY <3>2 DEF ServerInv, ClosedIsClosed
    <3>4. entry' = entry \/ entry' = erase_client(Head(tasks).id)
      BY <2>3 DEF peer_closed
    <3> QED
      BY <2>1, <3>3, <3>4 DEF erase_client
  <2>4. CASE entry' = entry
    BY <2>4
  <2> QED
    BY <2>2, <2>3, <2>4 DEF ServerNext, Dispatch, Peers, Files, start, bound, closed, stop,
       bind_failed, destroy_server, timer_start, timer_stop, create_server, io_bind,
       interval_passes, acceptor_fails, accept, peer_ends, directory_removed, directory_blocked,
       directory_unblocked, system, rvars
<1>2. ServerSpec => [][A]_rvars
  BY <1>1, ServerInvHolds, PTL DEF ServerSpec
<1> QED
  BY <1>2 DEF SessionSurvives
=============================================================================
