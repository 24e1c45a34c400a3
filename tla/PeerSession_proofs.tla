------------------------- MODULE PeerSession_proofs --------------------------
(***************************************************************************)
(* Proofs about PeerSession, for every set of parameters and any number of *)
(* calls, lost connections and driver events.                              *)
(*                                                                         *)
(* A wish of the application passes through the library's dispatcher       *)
(* (todo), the socket (to_server) and twice through the daemon's           *)
(* dispatcher (queue): as a request and, when that is handled, as a task   *)
(* of the entry, behind everything that is queued then.  The last wish is  *)
(* the last one in the first of these layers that has one, counted from    *)
(* the application; if none has, the entry has granted it.                 *)
(***************************************************************************)
EXTENDS PeerSession, ClientEntry_proofs

Req == {Request(name, d, p) :
          name \in {"initialize", "terminate", "reset"}, d \in Device, p \in Param}
Msg == {Message(r) : r \in Response}
Errand == Req \cup Msg \cup {Stop, Lost}
Work   == Task \cup Req

Started == [at : {"looked", "stored"}, device : Device, param : Param,
            force : BOOLEAN, ready : BOOLEAN]

\* The members of the entry that the session's properties are about.
DaemonTypes ==
  /\ activated \in BOOLEAN /\ driver \in Driver
  /\ enabled \in [Device -> BOOLEAN]
  /\ params \in Param
  /\ SetupTypes
  /\ last_response \in Response \cup {NoResponse}
  /\ queue \in Seq(Work)

LibraryTypes ==
  /\ linked \in BOOLEAN
  /\ to_server \in Seq(Req)
  /\ to_client \in Seq(Response)
  /\ todo \in Seq(Errand)
  /\ last_ready \in [Device -> {"nullopt", "true", "false"}]
  /\ last_params \in Param \cup {NoParam}
  /\ call \in {NoCall} \cup Started
  /\ intent \in [Device -> Param \cup {NoParam}]
  /\ skipped \in BOOLEAN

\* No element of s is in S; the last one that is in S is in G.
None(s, S) == \A i \in 1 .. Len(s) : s[i] \notin S
Last(s, S, G) ==
  \E i \in 1 .. Len(s) :
    /\ s[i] \in S /\ s[i] \in G
    /\ \A j \in 1 .. Len(s) : j > i => s[j] \notin S

\* Of the requests R and the tasks T on their way, there is none; the last is
\* in G.
Clear(td, ts, q, R, T) == None(td, R) /\ None(ts, R) /\ None(q, R) /\ None(q, T)
Above(td, ts, q, R, T, G) ==
  \/ Last(td, R, G)
  \/ /\ None(td, R)
     /\ \/ Last(ts, R, G)
        \/ /\ None(ts, R)
           /\ \/ Last(q, R, G)
              \/ None(q, R) /\ Last(q, T, G)

\* Without a connection nothing is on its way, and the library knows or will be
\* told; with one, it has handled the end of the one before.
EndsKnown ==
  /\ linked => None(todo, {Lost})
  /\ ~linked =>
       /\ to_server = <<>> /\ to_client = <<>>
       /\ None(todo, {Lost}) => intent = [d \in Device |-> NoParam]

\* What turns device d on or off, and which of it grants the wish w.
RequestsFor(d) == {r \in Req : r.device = d /\ r.name # "reset"}
TasksFor(d)    == {t \in Task : t.task \in {"initialize", "terminate"} /\ t.device = d}
Op(t)          == IF t.task = "request" THEN t.name ELSE t.task
Granting(d, w) ==
  {t \in RequestsFor(d) \cup TasksFor(d) :
     IF Op(t) = "initialize" THEN w # NoParam /\ (d = "keyboard" => t.param = w)
                             ELSE w = NoParam}
Granted(d, w) ==
  /\ enabled[d] <=> w # NoParam
  /\ d = "keyboard" /\ enabled[d] => params = w

WishOnItsWay ==
  linked /\ ~skipped =>
    \A d \in Device :
      \/ Above(todo, to_server, queue, RequestsFor(d), TasksFor(d), Granting(d, intent[d]))
      \/ Clear(todo, to_server, queue, RequestsFor(d), TasksFor(d)) /\ Granted(d, intent[d])

\* The same for the parameters in the library, which it stores before the
\* request of the call that brings them is on its way.
KeyboardCall == call # NoCall /\ call.at = "stored" /\ call.device = "keyboard"

KeyboardRequests == {r \in Req : r.device = "keyboard" /\ r.name = "initialize"}
KeyboardTasks    == {t \in Task : t.task = "initialize" /\ t.device = "keyboard"}
With(p)          == {t \in KeyboardRequests \cup KeyboardTasks : t.param = p}

ParamsOnTheirWay ==
  /\ KeyboardCall => last_params \in {NoParam, call.param}
  /\ linked =>
       \/ last_params = NoParam \/ KeyboardCall
       \/ Above(todo, to_server, queue, KeyboardRequests, KeyboardTasks, With(last_params))
       \/ /\ Clear(todo, to_server, queue, KeyboardRequests, KeyboardTasks)
          /\ enabled["keyboard"] => params = last_params

\* A status that names no device as ready which this session has had no client
\* for.  Statuses of the daemon are; those of an earlier session are followed
\* by the first push.
Right(r, g) == \A d \in Device : r.ready[d] => g[d] > 0
RightMsg == {m \in Msg : Right(m.status, generation)}
RightStored == \A d \in Device : last_ready[d] = "true" => generation[d] > 0

StatusFollows ==
  /\ \A d \in Device : client[d] # "none" => generation[d] > 0
  /\ \A i \in 1 .. Len(to_client) : linked => Right(to_client[i], generation)
  /\ linked /\ last_response = NoResponse => ~None(queue, {Check})
  /\ linked /\ last_response # NoResponse /\ to_client = <<>> =>
       \/ Last(todo, Msg, RightMsg)
       \/ None(todo, Msg) /\ RightStored

SessionInv ==
  /\ DaemonTypes /\ LibraryTypes
  /\ EndsKnown /\ WishOnItsWay /\ ParamsOnTheirWay /\ StatusFollows
-----------------------------------------------------------------------------
(***************************************************************************)
(* The last element of a kind, in a sequence that changes.                 *)
(***************************************************************************)
LEMMA AtTheEnd ==
  ASSUME NEW X, NEW s \in Seq(X), NEW e \in X, NEW S, NEW G
  PROVE  /\ None(Append(s, e), S) <=> None(s, S) /\ e \notin S
         /\ e \in S => (Last(Append(s, e), S, G) <=> e \in G)
         /\ e \notin S => (Last(Append(s, e), S, G) <=> Last(s, S, G))
<1> DEFINE r == Append(s, e)
           n == Len(s)
<1>1. /\ n \in Nat /\ Len(r) = n + 1 /\ r[n + 1] = e
      /\ \A i \in 1 .. n : r[i] = s[i]
  OBVIOUS
<1>2. /\ \A i \in 1 .. n : i \in 1 .. Len(r) /\ i < n + 1
      /\ \A i \in 1 .. Len(r) : i = n + 1 \/ i \in 1 .. n
      /\ n + 1 \in 1 .. Len(r) /\ \A j \in 1 .. Len(r) : ~(j > n + 1)
  BY <1>1
<1> HIDE DEF r
<1>3. None(r, S) <=> None(s, S) /\ e \notin S
  BY <1>1, <1>2 DEF None, n
<1>4. ASSUME e \in S, Last(r, S, G) PROVE e \in G
  BY <1>1, <1>2, <1>4 DEF Last
<1>5. ASSUME e \in S, e \in G PROVE Last(r, S, G)
  BY <1>1, <1>2, <1>5 DEF Last
<1>6. ASSUME e \notin S, Last(r, S, G) PROVE Last(s, S, G)
  <2>1. PICK i \in 1 .. Len(r) : /\ r[i] \in S /\ r[i] \in G
                                 /\ \A j \in 1 .. Len(r) : j > i => r[j] \notin S
    BY <1>6 DEF Last
  <2>2. i \in 1 .. n /\ r[i] = s[i]
    BY <1>1, <1>2, <1>6, <2>1
  <2>3. \A j \in 1 .. n : j > i => s[j] \notin S
    BY <1>1, <1>2, <2>1
  <2> QED
    BY <2>1, <2>2, <2>3 DEF Last, n
<1>7. ASSUME e \notin S, Last(s, S, G) PROVE Last(r, S, G)
  <2>1. PICK i \in 1 .. n : /\ s[i] \in S /\ s[i] \in G
                            /\ \A j \in 1 .. n : j > i => s[j] \notin S
    BY <1>7 DEF Last, n
  <2>2. \A j \in 1 .. Len(r) : j > i => r[j] \notin S
    BY <1>1, <1>2, <1>7, <2>1
  <2> QED
    BY <1>1, <1>2, <2>1, <2>2 DEF Last
<1> QED
  BY <1>3, <1>4, <1>5, <1>6, <1>7 DEF r

LEMMA FromTheFront ==
  ASSUME NEW X, NEW s \in Seq(X), s # <<>>, NEW S, NEW G
  PROVE  /\ Head(s) \in X /\ Tail(s) \in Seq(X)
         /\ None(s, S) <=> None(Tail(s), S) /\ Head(s) \notin S
         /\ Last(s, S, G) =>
              \/ Last(Tail(s), S, G)
              \/ None(Tail(s), S) /\ Head(s) \in S /\ Head(s) \in G
<1> DEFINE r == Tail(s)
           n == Len(s)
<1>1. /\ n \in Nat /\ n > 0 /\ Len(r) = n - 1 /\ Head(s) = s[1]
      /\ Head(s) \in X /\ r \in Seq(X)
      /\ \A i \in 1 .. Len(r) : r[i] = s[i + 1]
  OBVIOUS
<1>2. /\ \A i \in 1 .. Len(r) : i + 1 \in 1 .. n
      /\ \A i \in 1 .. n : i = 1 \/ (i - 1 \in 1 .. Len(r) /\ (i - 1) + 1 = i)
      /\ 1 \in 1 .. n
  BY <1>1
<1> HIDE DEF r
<1>3. None(s, S) <=> None(r, S) /\ Head(s) \notin S
  BY <1>1, <1>2 DEF None, n
<1>4. ASSUME Last(s, S, G)
      PROVE  Last(r, S, G) \/ (None(r, S) /\ Head(s) \in S /\ Head(s) \in G)
  <2>1. PICK i \in 1 .. n : /\ s[i] \in S /\ s[i] \in G
                            /\ \A j \in 1 .. n : j > i => s[j] \notin S
    BY <1>4 DEF Last, n
  <2>2. \A j \in 1 .. Len(r) : j + 1 > i => r[j] \notin S
    BY <1>1, <1>2, <2>1
  <2>3. CASE i = 1
    <3>1. \A j \in 1 .. Len(r) : j + 1 > i
      BY <2>3
    <3> QED
      BY <1>1, <2>1, <2>2, <2>3, <3>1 DEF None
  <2>4. CASE i # 1
    <3>1. i - 1 \in 1 .. Len(r) /\ (i - 1) + 1 = i
      BY <1>2, <2>4
    <3>2. r[i - 1] = s[i]
      BY <1>1, <3>1
    <3>3. \A j \in 1 .. Len(r) : j > i - 1 => j + 1 > i
      BY <3>1
    <3> QED
      BY <2>1, <2>2, <3>1, <3>2, <3>3 DEF Last
  <2> QED
    BY <2>3, <2>4
<1> QED
  BY <1>1, <1>3, <1>4 DEF r

LEMMA OfNothing == \A S : None(<<>>, S) /\ \A G : ~Last(<<>>, S, G)
  BY DEF None, Last

\* More may be right.
LEMMA LastGrows ==
  ASSUME NEW s, NEW S, NEW G, NEW H, \A e \in S : e \in G => e \in H, Last(s, S, G)
  PROVE  Last(s, S, H)
  BY DEF Last

\* Removing other elements does not change it.
LEMMA InSubsequence ==
  ASSUME NEW X, NEW q \in Seq(X), NEW K, \A k \in K : k \in 1 .. Len(q),
         NEW S, NEW G, \A i \in 1 .. Len(q) : q[i] \in S => i \in K
  PROVE  /\ SubseqAt(q, K) \in Seq(X)
         /\ None(q, S) <=> None(SubseqAt(q, K), S)
         /\ Last(q, S, G) => Last(SubseqAt(q, K), S, G)
<1> DEFINE r == SubseqAt(q, K)
           c == Cardinality(K)
<1>1. /\ c \in Nat /\ r \in Seq(X) /\ Len(r) = c
      /\ \E f \in [1 .. c -> K] :
           /\ \A i \in 1 .. c : r[i] = q[f[i]]
           /\ \A i, j \in 1 .. c : i < j => f[i] < f[j]
           /\ \A k \in K : \E i \in 1 .. c : f[i] = k
  BY SubseqAtFacts
<1> HIDE DEF r, c
<1>2. PICK f \in [1 .. c -> K] :
        /\ \A i \in 1 .. c : r[i] = q[f[i]]
        /\ \A i, j \in 1 .. c : i < j => f[i] < f[j]
        /\ \A k \in K : \E i \in 1 .. c : f[i] = k
  BY <1>1
<1>3. \A i \in 1 .. c : f[i] \in 1 .. Len(q)
  BY <1>2
<1>4. Len(r) = c
  BY <1>1
<1>5. None(q, S) => None(r, S)
  BY <1>2, <1>3, <1>4 DEF None
<1>6. None(r, S) => None(q, S)
  BY <1>2, <1>4 DEF None
<1>7. ASSUME Last(q, S, G) PROVE Last(r, S, G)
  <2>1. PICK k \in 1 .. Len(q) : /\ q[k] \in S /\ q[k] \in G
                                 /\ \A j \in 1 .. Len(q) : j > k => q[j] \notin S
    BY <1>7 DEF Last
  <2>2. PICK i \in 1 .. c : f[i] = k
    BY <1>2, <2>1
  <2>3. \A j \in 1 .. c : j > i => f[j] > k
    BY <1>2, <1>3, <2>2
  <2>4. \A j \in 1 .. c : j > i => r[j] \notin S
    BY <1>2, <1>3, <2>1, <2>3
  <2> QED
    BY <1>2, <1>4, <2>1, <2>2, <2>4 DEF Last
<1> QED
  BY <1>1, <1>5, <1>6, <1>7 DEF r

\* A destroyed client's emissions are not what is looked for.
LEMMA InWhatIsLeft ==
  ASSUME NEW X, NEW q \in Seq(X), NEW gone, NEW S, NEW G,
         \A e \in S : e.task # "state_changed"
  PROVE  /\ Dropping(q, gone) \in Seq(X)
         /\ None(q, S) <=> None(Dropping(q, gone), S)
         /\ Last(q, S, G) => Last(Dropping(q, gone), S, G)
<1> DEFINE K == {i \in 1 .. Len(q) :
                   q[i].task = "state_changed" => q[i].source \notin gone}
<1>1. /\ \A k \in K : k \in 1 .. Len(q)
      /\ \A i \in 1 .. Len(q) : q[i] \in S => i \in K
  OBVIOUS
<1> HIDE DEF K
<1>2. /\ SubseqAt(q, K) \in Seq(X)
      /\ None(q, S) <=> None(SubseqAt(q, K), S)
      /\ Last(q, S, G) => Last(SubseqAt(q, K), S, G)
  BY <1>1, InSubsequence
<1>3. Dropping(q, gone) = SubseqAt(q, K)
  BY DEF Dropping, K
<1> QED
  BY <1>2, <1>3

(***************************************************************************)
(* The layers that a wish passes through.                                  *)
(***************************************************************************)
\* The task that request_received makes of a request.
WorkFor(r) == IF r.name = "initialize" THEN Initialize(r.device, r.param)
                                       ELSE Terminate(r.device)

\* The tasks T are those that the requests R become, with the same ones in G.
Fits(R, T, G) ==
  /\ \A r \in R : r \in Req /\ r.name # "reset"
  /\ \A t \in T : t \in Task /\ t.task \in {"initialize", "terminate"}
  /\ \A r \in Req : r.name # "reset" => (r \in R <=> WorkFor(r) \in T)
  /\ \A r \in R : r \in G <=> WorkFor(r) \in G

LEMMA RequestFacts ==
  ASSUME NEW r \in Req
  PROVE  /\ r.task = "request" /\ r.name \in {"initialize", "terminate", "reset"}
         /\ r.device \in Device /\ r.param \in Param
         /\ WorkFor(r) \in Task /\ WorkFor(r).task \in {"initialize", "terminate"}
         /\ r.name # "reset" => WorkFor(r).task = r.name
         /\ WorkFor(r).device = r.device
         /\ WorkFor(r).task = "initialize" => WorkFor(r).param = r.param
<1>1. PICK name \in {"initialize", "terminate", "reset"}, d \in Device, p \in Param :
        r = Request(name, d, p)
  BY DEF Req
<1>2. r.task = "request" /\ r.name = name /\ r.device = d /\ r.param = p
  BY <1>1 DEF Request
<1>3. Initialize(d, p) \in Task /\ Terminate(d) \in Task
  BY MakersOfTasks
<1> QED
  BY <1>2, <1>3 DEF WorkFor, Initialize, Terminate

LEMMA ErrandFacts ==
  /\ \A e \in Msg : e.task = "message" /\ e.status \in Response
  /\ Stop.task = "stop" /\ Lost.task = "closed"
  /\ \A e \in Req : e.task = "request"
  BY RequestFacts DEF Msg, Message, Stop, Lost

\* Requests and tasks are told apart by their tag.
LEMMA Apart ==
  ASSUME NEW R, NEW T, NEW G, Fits(R, T, G)
  PROVE  /\ \A e \in Task : e \notin R
         /\ \A e \in Req : e \notin T
         /\ \A e \in Msg \cup {Stop, Lost} : e \notin R
<1>1. \A e \in Task : e.task # "request"
  BY TaskFacts
<1> QED
  BY <1>1, ErrandFacts DEF Fits

Carried(td, ts, q, td2, ts2, q2, R, T, G) ==
  /\ Above(td, ts, q, R, T, G) => Above(td2, ts2, q2, R, T, G)
  /\ Clear(td, ts, q, R, T) => Clear(td2, ts2, q2, R, T)

\* The library's queue gets something else, or a wish.
LEMMA OtherErrand ==
  ASSUME NEW td \in Seq(Errand), NEW ts, NEW q, NEW R, NEW T, NEW G,
         NEW e \in Errand, e \notin R
  PROVE  Carried(td, ts, q, Append(td, e), ts, q, R, T, G)
<1>1. /\ None(Append(td, e), R) <=> None(td, R)
      /\ Last(Append(td, e), R, G) <=> Last(td, R, G)
  BY AtTheEnd
<1> QED
  BY <1>1 DEF Carried, Above, Clear

LEMMA NewWish ==
  ASSUME NEW td \in Seq(Errand), NEW ts, NEW q, NEW R, NEW T, NEW G,
         NEW e \in Errand, e \in R, e \in G
  PROVE  Above(Append(td, e), ts, q, R, T, G)
<1>1. Last(Append(td, e), R, G)
  BY AtTheEnd
<1> QED
  BY <1>1 DEF Above

\* Its task handles something else, ...
LEMMA ErrandDone ==
  ASSUME NEW td \in Seq(Errand), NEW ts, NEW q, NEW R, NEW T, NEW G,
         td # <<>>, Head(td) \notin R
  PROVE  Carried(td, ts, q, Tail(td), ts, q, R, T, G)
<1>1. /\ None(td, R) => None(Tail(td), R)
      /\ Last(td, R, G) => Last(Tail(td), R, G)
  BY FromTheFront
<1> QED
  BY <1>1 DEF Carried, Above, Clear

\* ... or sends a request.
LEMMA SendCarries ==
  ASSUME NEW td \in Seq(Errand), NEW ts \in Seq(Req), NEW q, NEW R, NEW T, NEW G,
         td # <<>>, Head(td) \in Req
  PROVE  Carried(td, ts, q, Tail(td), Append(ts, Head(td)), q, R, T, G)
<1>1. /\ None(td, R) => None(Tail(td), R) /\ Head(td) \notin R
      /\ Last(td, R, G) => \/ Last(Tail(td), R, G)
                           \/ None(Tail(td), R) /\ Head(td) \in R /\ Head(td) \in G
  BY FromTheFront
<1>2. /\ None(Append(ts, Head(td)), R) <=> None(ts, R) /\ Head(td) \notin R
      /\ Head(td) \in R => (Last(Append(ts, Head(td)), R, G) <=> Head(td) \in G)
      /\ Head(td) \notin R => (Last(Append(ts, Head(td)), R, G) <=> Last(ts, R, G))
  BY AtTheEnd
<1> QED
  BY <1>1, <1>2 DEF Carried, Above, Clear

LEMMA ArriveCarries ==
  ASSUME NEW td, NEW ts \in Seq(Req), NEW q \in Seq(Work), NEW R, NEW T, NEW G,
         Fits(R, T, G), ts # <<>>
  PROVE  Carried(td, ts, q, td, Tail(ts), Append(q, Head(ts)), R, T, G)
<1> DEFINE r == Head(ts)
<1>1. /\ r \in Req
      /\ None(ts, R) => None(Tail(ts), R) /\ r \notin R
      /\ Last(ts, R, G) => \/ Last(Tail(ts), R, G)
                           \/ None(Tail(ts), R) /\ r \in R /\ r \in G
  BY FromTheFront
<1>2. r \in Work /\ r \notin T
  BY <1>1, Apart DEF Work
<1> HIDE DEF r
<1>3. /\ None(Append(q, r), R) <=> None(q, R) /\ r \notin R
      /\ r \in R => (Last(Append(q, r), R, G) <=> r \in G)
      /\ r \notin R => (Last(Append(q, r), R, G) <=> Last(q, R, G))
  BY <1>2, AtTheEnd
<1>4. /\ None(Append(q, r), T) <=> None(q, T)
      /\ Last(Append(q, r), T, G) <=> Last(q, T, G)
  BY <1>2, AtTheEnd
<1>5. Carried(td, ts, q, td, Tail(ts), Append(q, r), R, T, G)
  BY <1>1, <1>3, <1>4 DEF Carried, Above, Clear
<1> QED
  BY <1>5 DEF r

\* A task other than those looked for goes to the end of the daemon's queue.
LEMMA OtherTask ==
  ASSUME NEW td, NEW ts, NEW q \in Seq(Work), NEW R, NEW T, NEW G,
         NEW t \in Work, t \notin R, t \notin T
  PROVE  Carried(td, ts, q, td, ts, Append(q, t), R, T, G)
<1>1. /\ None(Append(q, t), R) <=> None(q, R)
      /\ Last(Append(q, t), R, G) <=> Last(q, R, G)
  BY AtTheEnd
<1>2. /\ None(Append(q, t), T) <=> None(q, T)
      /\ Last(Append(q, t), T, G) <=> Last(q, T, G)
  BY AtTheEnd
<1> QED
  BY <1>1, <1>2 DEF Carried, Above, Clear

\* A request becomes a task, behind the tasks of earlier requests.
LEMMA ReceiveCarries ==
  ASSUME NEW td, NEW ts, NEW q \in Seq(Work), NEW R, NEW T, NEW G,
         Fits(R, T, G), q # <<>>, Head(q) \in Req
  PROVE  /\ Head(q).name = "reset" => Carried(td, ts, q, td, ts, Tail(q), R, T, G)
         /\ Head(q).name # "reset" =>
              Carried(td, ts, q, td, ts, Append(Tail(q), WorkFor(Head(q))), R, T, G)
<1> DEFINE r == Head(q)
           w == WorkFor(r)
           left == Tail(q)
<1>1. /\ left \in Seq(Work)
      /\ None(q, R) => None(left, R) /\ r \notin R
      /\ Last(q, R, G) => \/ Last(left, R, G)
                          \/ None(left, R) /\ r \in R /\ r \in G
  BY FromTheFront
<1>2. /\ None(q, T) => None(left, T)
      /\ Last(q, T, G) => Last(left, T, G)
  BY FromTheFront, Apart
<1>3. w \in Task /\ w \in Work /\ w \notin R
  BY RequestFacts, Apart DEF Work
<1>4. /\ r.name = "reset" => r \notin R
      /\ r.name # "reset" => (r \in R <=> w \in T)
      /\ r \in R => (r \in G <=> w \in G)
  BY DEF Fits
<1> HIDE DEF r, w, left
<1>5. /\ None(Append(left, w), R) <=> None(left, R)
      /\ Last(Append(left, w), R, G) <=> Last(left, R, G)
  BY <1>1, <1>3, AtTheEnd
<1>6. /\ None(Append(left, w), T) <=> None(left, T) /\ w \notin T
      /\ w \in T => (Last(Append(left, w), T, G) <=> w \in G)
      /\ w \notin T => (Last(Append(left, w), T, G) <=> Last(left, T, G))
  BY <1>1, <1>3, AtTheEnd
<1>7. ASSUME r.name = "reset" PROVE Carried(td, ts, q, td, ts, left, R, T, G)
  BY <1>1, <1>2, <1>4, <1>7 DEF Carried, Above, Clear
<1>8. ASSUME r.name # "reset" PROVE Carried(td, ts, q, td, ts, Append(left, w), R, T, G)
  BY <1>1, <1>2, <1>4, <1>5, <1>6, <1>8 DEF Carried, Above, Clear
<1> QED
  BY <1>7, <1>8 DEF r, w, left

\* A task of the entry runs; its effect takes its place.
LEMMA RunCarries ==
  ASSUME NEW td, NEW ts, NEW q \in Seq(Work), NEW R, NEW T, NEW G,
         Fits(R, T, G), q # <<>>, Head(q) \in Task
  PROVE  /\ Clear(td, ts, q, R, T) => Clear(td, ts, Tail(q), R, T) /\ Head(q) \notin T
         /\ Above(td, ts, q, R, T, G) =>
              \/ Above(td, ts, Tail(q), R, T, G)
              \/ Clear(td, ts, Tail(q), R, T) /\ Head(q) \in T /\ Head(q) \in G
<1>1. /\ None(q, R) => None(Tail(q), R)
      /\ Last(q, R, G) => Last(Tail(q), R, G)
  BY FromTheFront, Apart
<1>2. /\ None(q, T) => None(Tail(q), T) /\ Head(q) \notin T
      /\ Last(q, T, G) => \/ Last(Tail(q), T, G)
                          \/ None(Tail(q), T) /\ Head(q) \in T /\ Head(q) \in G
  BY FromTheFront
<1> QED
  BY <1>1, <1>2 DEF Above, Clear

\* The emissions of a client that is destroyed are dropped.
LEMMA DropCarries ==
  ASSUME NEW td, NEW ts, NEW q \in Seq(Work), NEW gone, NEW R, NEW T, NEW G,
         Fits(R, T, G)
  PROVE  Carried(td, ts, q, td, ts, Dropping(q, gone), R, T, G)
<1>1. \A e \in R : e.task # "state_changed"
  BY RequestFacts DEF Fits
<1>2. \A e \in T : e.task # "state_changed"
  BY DEF Fits
<1>3. /\ None(q, R) <=> None(Dropping(q, gone), R)
      /\ Last(q, R, G) => Last(Dropping(q, gone), R, G)
  BY <1>1, InWhatIsLeft
<1>4. /\ None(q, T) <=> None(Dropping(q, gone), T)
      /\ Last(q, T, G) => Last(Dropping(q, gone), T, G)
  BY <1>2, InWhatIsLeft
<1> QED
  BY <1>3, <1>4 DEF Carried, Above, Clear

\* Nothing is on its way through empty layers.
LEMMA NothingCarried ==
  ASSUME NEW R, NEW T, NEW G
  PROVE  Clear(<<>>, <<>>, <<>>, R, T) /\ ~Above(<<>>, <<>>, <<>>, R, T, G)
  BY OfNothing DEF Clear, Above

(***************************************************************************)
(* The two kinds of wishes.                                                *)
(***************************************************************************)
LEMMA WishesFit ==
  ASSUME NEW d \in Device, NEW w
  PROVE  Fits(RequestsFor(d), TasksFor(d), Granting(d, w))
<1>1. \A r \in Req : r.name # "reset" => (r \in RequestsFor(d) <=> WorkFor(r) \in TasksFor(d))
  BY RequestFacts DEF RequestsFor, TasksFor
<1>2. ASSUME NEW r \in RequestsFor(d)
      PROVE  r \in Granting(d, w) <=> WorkFor(r) \in Granting(d, w)
  <2>1. r \in Req /\ r.name # "reset" /\ r.device = d
    BY <1>2 DEF RequestsFor
  <2>2. WorkFor(r) \in TasksFor(d)
    BY <1>1, <1>2, <2>1
  <2>3. /\ r.task = "request" /\ WorkFor(r).task = r.name /\ r.name \in {"initialize", "terminate"}
        /\ r.name = "initialize" => WorkFor(r).param = r.param
    BY <2>1, RequestFacts
  <2>4. Op(r) = r.name /\ Op(WorkFor(r)) = r.name
    BY <2>3 DEF Op
  <2> QED
    BY <1>2, <2>2, <2>3, <2>4 DEF Granting
<1> QED
  BY <1>1, <1>2 DEF Fits, RequestsFor, TasksFor

LEMMA ParamsFit ==
  ASSUME NEW p
  PROVE  Fits(KeyboardRequests, KeyboardTasks, With(p))
<1>1. \A r \in Req : r.name # "reset" => (r \in KeyboardRequests <=> WorkFor(r) \in KeyboardTasks)
  BY RequestFacts DEF KeyboardRequests, KeyboardTasks
<1>2. ASSUME NEW r \in KeyboardRequests
      PROVE  r \in With(p) <=> WorkFor(r) \in With(p)
  <2>1. r \in Req /\ r.name = "initialize"
    BY <1>2 DEF KeyboardRequests
  <2>2. WorkFor(r) \in KeyboardTasks
    BY <1>1, <1>2, <2>1
  <2>3. WorkFor(r).param = r.param
    BY <2>1, RequestFacts
  <2> QED
    BY <1>2, <2>2, <2>3 DEF With
<1> QED
  BY <1>1, <1>2 DEF Fits, KeyboardRequests, KeyboardTasks

(***************************************************************************)
(* Steps that leave parts of the invariant alone.                          *)
(***************************************************************************)
daemon == <<activated, driver, enabled, params, client, generation, checks,
            was_ready, failures, last_response, queue>>

LEMMA DaemonKept ==
  ASSUME DaemonTypes, UNCHANGED daemon
  PROVE  DaemonTypes'
  BY DEF DaemonTypes, daemon, SetupTypes

LEMMA EntryKept == UNCHANGED evars => UNCHANGED daemon
  BY DEF evars, daemon

\* What is on its way is carried on, and what the application wished for, what
\* the library has stored and what the entry does stays the same.
LEMMA WishesKept ==
  ASSUME WishOnItsWay, ParamsOnTheirWay,
         linked' => linked,
         UNCHANGED <<enabled, params, intent, last_params, call, skipped>>,
         \A R, T, G : Fits(R, T, G) =>
           Carried(todo, to_server, queue, todo', to_server', queue', R, T, G)
  PROVE  WishOnItsWay' /\ ParamsOnTheirWay'
<1>1. WishOnItsWay'
  <2> SUFFICES ASSUME linked', ~skipped', NEW d \in Device
               PROVE  \/ Above(todo, to_server, queue, RequestsFor(d), TasksFor(d),
                               Granting(d, intent[d]))'
                      \/ Clear(todo, to_server, queue, RequestsFor(d), TasksFor(d))'
                         /\ Granted(d, intent[d])'
    BY DEF WishOnItsWay
  <2>1. \/ Above(todo, to_server, queue, RequestsFor(d), TasksFor(d), Granting(d, intent[d]))
        \/ Clear(todo, to_server, queue, RequestsFor(d), TasksFor(d)) /\ Granted(d, intent[d])
    BY DEF WishOnItsWay
  <2>2. Carried(todo, to_server, queue, todo', to_server', queue',
                RequestsFor(d), TasksFor(d), Granting(d, intent[d]))
    BY WishesFit
  <2>3. \/ Above(todo', to_server', queue', RequestsFor(d), TasksFor(d), Granting(d, intent[d]))
        \/ Clear(todo', to_server', queue', RequestsFor(d), TasksFor(d)) /\ Granted(d, intent[d])
    BY <2>1, <2>2 DEF Carried
  <2>4. Granted(d, intent[d]) => Granted(d, intent[d])'
    BY DEF Granted
  <2> QED
    BY <2>3, <2>4
<1>2. ParamsOnTheirWay'
  <2>1. KeyboardCall' <=> KeyboardCall
    BY DEF KeyboardCall
  <2>2. KeyboardCall' => (last_params \in {NoParam, call.param})'
    BY <2>1 DEF ParamsOnTheirWay
  <2>3. Carried(todo, to_server, queue, todo', to_server', queue',
                KeyboardRequests, KeyboardTasks, With(last_params))
    BY ParamsFit
  <2> QED
    BY <2>1, <2>2, <2>3 DEF ParamsOnTheirWay, Carried
<1> QED
  BY <1>1, <1>2

LEMMA StatusKept ==
  ASSUME StatusFollows,
         UNCHANGED <<client, generation, last_response, queue, linked, to_client>>,
         Last(todo, Msg, RightMsg) =>
           Last(todo', Msg, RightMsg) \/ (None(todo', Msg) /\ RightStored'),
         None(todo, Msg) /\ RightStored => None(todo', Msg) /\ RightStored'
  PROVE  StatusFollows'
<1>1. RightMsg' = RightMsg /\ \A r : Right(r, generation') <=> Right(r, generation)
  BY DEF RightMsg, Right
<1> QED
  BY <1>1 DEF StatusFollows

\* The application's calls enqueue errands other than a status.
LEMMA ErrandQueued ==
  ASSUME SessionInv, NEW e \in Req \cup {Stop}, todo' = Append(todo, e),
         UNCHANGED <<evars, link, last_ready>>
  PROVE  /\ DaemonTypes' /\ todo' \in Seq(Errand) /\ StatusFollows'
         /\ None(todo', {Lost}) <=> None(todo, {Lost})
<1>1. /\ todo \in Seq(Errand) /\ e \in Errand /\ e \notin Msg /\ e \notin {Lost}
      /\ UNCHANGED <<linked, to_client>>
  BY ErrandFacts DEF SessionInv, LibraryTypes, Errand, link
<1>2. UNCHANGED daemon
  BY EntryKept
<1>3. /\ None(todo', Msg) <=> None(todo, Msg)
      /\ Last(todo', Msg, RightMsg) <=> Last(todo, Msg, RightMsg)
  BY <1>1, AtTheEnd
<1>4. None(todo', {Lost}) <=> None(todo, {Lost})
  BY <1>1, AtTheEnd
<1>5. RightStored' <=> RightStored
  BY <1>2 DEF RightStored, daemon
<1>6. StatusFollows'
  BY <1>1, <1>2, <1>3, <1>5, StatusKept DEF SessionInv, daemon
<1>7. todo' \in Seq(Errand)
  BY <1>1
<1> QED
  BY <1>2, <1>4, <1>6, <1>7, DaemonKept DEF SessionInv

(***************************************************************************)
(* The application's calls.                                                *)
(***************************************************************************)
LEMMA CallFacts ==
  ASSUME LibraryTypes
  PROVE  /\ call # NoCall => call \in Started
         /\ call.at \in {"looked", "stored"} => call \in Started
         /\ call = NoCall => ~KeyboardCall
  BY DEF LibraryTypes, NoCall, Started, KeyboardCall

LEMMA InitializeLooks ==
  ASSUME SessionInv, NEW d \in Device, NEW p \in Param, NEW force \in BOOLEAN,
         async_initialize(d, p, force)
  PROVE  SessionInv'
<1>1. /\ call = NoCall
      /\ UNCHANGED <<evars, linked, to_server, to_client, todo, last_ready,
                     last_params, intent, skipped>>
      /\ call' = [at |-> "looked", device |-> d, param |-> p, force |-> force,
                  ready |-> last_ready[d] = "true"]
  BY DEF async_initialize, Call, link, session
<1>2. call' \in Started /\ ~KeyboardCall' /\ ~KeyboardCall
  BY <1>1 DEF Started, KeyboardCall
<1>3. UNCHANGED daemon /\ UNCHANGED <<enabled, params, queue>>
  BY <1>1, EntryKept DEF evars
<1>4. DaemonTypes'
  BY <1>3, DaemonKept DEF SessionInv
<1>5. LibraryTypes'
  BY <1>1, <1>2 DEF SessionInv, LibraryTypes
<1>6. EndsKnown'
  BY <1>1 DEF SessionInv, EndsKnown
<1>7. WishOnItsWay'
  BY <1>1, <1>3 DEF SessionInv, WishOnItsWay, Granted
<1>8. ParamsOnTheirWay'
  BY <1>1, <1>2, <1>3 DEF SessionInv, ParamsOnTheirWay
<1>9. StatusFollows'
  <2>1. RightStored' <=> RightStored
    BY <1>1, <1>3 DEF RightStored, daemon
  <2> QED
    BY <1>1, <1>3, <2>1, StatusKept DEF SessionInv, daemon
<1> QED
  BY <1>4, <1>5, <1>6, <1>7, <1>8, <1>9 DEF SessionInv

\* The wish of the call is noted, if there is a session.
LEMMA IntendedType ==
  ASSUME LibraryTypes, call \in Started, intended
  PROVE  /\ intent' \in [Device -> Param \cup {NoParam}]
         /\ ~linked => intent' = intent
  BY DEF LibraryTypes, Started, intended

LEMMA InitializeStores ==
  ASSUME SessionInv, initialize_stores
  PROVE  SessionInv'
<1>1. /\ call.at = "looked"
      /\ UNCHANGED <<evars, linked, to_server, to_client, todo, last_ready>>
  BY DEF initialize_stores, link
<1>2. call \in Started /\ ~KeyboardCall
  BY <1>1, CallFacts DEF SessionInv, KeyboardCall
<1>3. UNCHANGED daemon /\ UNCHANGED <<enabled, params, queue>>
  BY <1>1, EntryKept DEF evars
<1>4. DaemonTypes'
  BY <1>3, DaemonKept DEF SessionInv
<1>5. StatusFollows'
  <2>1. RightStored' <=> RightStored
    BY <1>1, <1>3 DEF RightStored, daemon
  <2> QED
    BY <1>1, <1>3, <2>1, StatusKept DEF SessionInv, daemon
<1>6. CASE Ignored /\ call' = NoCall /\ skipped' = (skipped \/ ~call.force)
           /\ intended /\ UNCHANGED last_params
  <2>1. skipped' = TRUE
    BY <1>6 DEF Ignored
  <2>2. ~KeyboardCall'
    BY <1>6 DEF KeyboardCall
  <2>3. LibraryTypes'
    <3>1. intent' \in [Device -> Param \cup {NoParam}]
      BY <1>2, <1>6, IntendedType DEF SessionInv
    <3> QED
      BY <1>1, <1>6, <2>1, <3>1 DEF SessionInv, LibraryTypes
  <2>4. EndsKnown'
    <3>1. ~linked => intent' = intent
      BY <1>2, <1>6, IntendedType DEF SessionInv
    <3> QED
      BY <1>1, <3>1 DEF SessionInv, EndsKnown
  <2>5. WishOnItsWay'
    BY <2>1 DEF WishOnItsWay
  <2>6. ParamsOnTheirWay'
    BY <1>1, <1>2, <1>3, <1>6, <2>2 DEF SessionInv, ParamsOnTheirWay
  <2> QED
    BY <1>4, <1>5, <2>3, <2>4, <2>5, <2>6 DEF SessionInv
<1>7. CASE /\ call' = [call EXCEPT !.at = "stored"]
           /\ last_params' = IF call.device = "keyboard" THEN Stored ELSE last_params
           /\ UNCHANGED session
  <2>1. /\ call' \in Started /\ call'.at = "stored" /\ call' # NoCall
        /\ call'.device = call.device /\ call'.param = call.param /\ call.param \in Param
    BY <1>2, <1>7 DEF Started, NoCall
  <2>2. UNCHANGED <<intent, skipped>>
    BY <1>7 DEF session
  <2>3. LibraryTypes'
    BY <1>1, <1>7, <2>1, <2>2 DEF SessionInv, LibraryTypes, Stored
  <2>4. EndsKnown'
    BY <1>1, <2>2 DEF SessionInv, EndsKnown
  <2>5. WishOnItsWay'
    BY <1>1, <1>3, <2>2 DEF SessionInv, WishOnItsWay, Granted
  <2>6. ParamsOnTheirWay'
    <3>1. CASE call.device = "keyboard"
      <4>1. KeyboardCall' /\ last_params' = call'.param
        BY <1>7, <2>1, <3>1 DEF KeyboardCall, Stored
      <4> QED
        BY <4>1 DEF ParamsOnTheirWay
    <3>2. CASE call.device # "keyboard"
      <4>1. ~KeyboardCall' /\ last_params' = last_params
        BY <1>7, <2>1, <3>2 DEF KeyboardCall
      <4> QED
        BY <1>1, <1>2, <1>3, <4>1 DEF SessionInv, ParamsOnTheirWay
    <3> QED
      BY <3>1, <3>2
  <2> QED
    BY <1>4, <1>5, <2>3, <2>4, <2>5, <2>6 DEF SessionInv
<1> QED
  BY <1>6, <1>7 DEF initialize_stores

\* A request is in the set of its kind, and right for the wish it was made for.
LEMMA RequestMade ==
  ASSUME NEW d \in Device, NEW p \in Param
  PROVE  /\ Request("initialize", d, p) \in RequestsFor(d)
         /\ Request("initialize", d, p) \in Granting(d, p)
         /\ Request("terminate", d, DefaultParam) \in RequestsFor(d)
         /\ Request("terminate", d, DefaultParam) \in Granting(d, NoParam)
         /\ Request("reset", d, DefaultParam) \in Req
         /\ \A c \in Device \ {d} : /\ Request("initialize", d, p) \notin RequestsFor(c)
                                    /\ Request("terminate", d, DefaultParam) \notin RequestsFor(c)
         /\ Request("terminate", d, DefaultParam) \notin KeyboardRequests
         /\ d = "keyboard" => /\ Request("initialize", d, p) \in KeyboardRequests
                              /\ Request("initialize", d, p) \in With(p)
         /\ d # "keyboard" => Request("initialize", d, p) \notin KeyboardRequests
<1> DEFINE i == Request("initialize", d, p)
           t == Request("terminate", d, DefaultParam)
<1>1. /\ i \in Req /\ i.task = "request" /\ i.name = "initialize" /\ i.device = d /\ i.param = p
      /\ t \in Req /\ t.task = "request" /\ t.name = "terminate" /\ t.device = d
      /\ Request("reset", d, DefaultParam) \in Req
  BY EntryAssumption DEF Req, Request
<1>2. p # NoParam
  BY EntryAssumption
<1> HIDE DEF i, t
<1>3. i \in RequestsFor(d) /\ t \in RequestsFor(d)
  BY <1>1 DEF RequestsFor
<1>4. Op(i) = "initialize" /\ Op(t) = "terminate"
  BY <1>1 DEF Op
<1>5. i \in Granting(d, p) /\ t \in Granting(d, NoParam)
  BY <1>1, <1>2, <1>3, <1>4 DEF Granting
<1>6. \A c \in Device \ {d} : i \notin RequestsFor(c) /\ t \notin RequestsFor(c)
  BY <1>1 DEF RequestsFor
<1>7. /\ t \notin KeyboardRequests
      /\ d # "keyboard" => i \notin KeyboardRequests
      /\ d = "keyboard" => i \in KeyboardRequests
  BY <1>1 DEF KeyboardRequests
<1>8. d = "keyboard" => i \in With(p)
  BY <1>1, <1>7 DEF With
<1> QED
  BY <1>1, <1>3, <1>5, <1>6, <1>7, <1>8 DEF i, t

\* A request that asks for w goes into the library's queue with the wish.
LEMMA WishAdded ==
  ASSUME SessionInv, NEW d \in Device, NEW w, NEW e \in Req,
         e \in RequestsFor(d), e \in Granting(d, w),
         \A c \in Device \ {d} : e \notin RequestsFor(c),
         todo' = Append(todo, e),
         UNCHANGED <<linked, to_server, queue, enabled, params, skipped>>,
         linked => intent' = [intent EXCEPT ![d] = w]
  PROVE  WishOnItsWay'
<1> SUFFICES ASSUME linked', ~skipped', NEW c \in Device
             PROVE  \/ Above(todo', to_server', queue', RequestsFor(c), TasksFor(c),
                             Granting(c, intent'[c]))
                    \/ Clear(todo', to_server', queue', RequestsFor(c), TasksFor(c))
                       /\ Granted(c, intent[c])'
  BY DEF WishOnItsWay
<1>1. todo \in Seq(Errand) /\ e \in Errand /\ intent \in [Device -> Param \cup {NoParam}]
  BY DEF SessionInv, LibraryTypes, Errand
<1>2. CASE c = d
  <2>1. intent'[c] = w
    BY <1>1, <1>2
  <2>2. Above(Append(todo, e), to_server, queue, RequestsFor(d), TasksFor(d), Granting(d, w))
    BY <1>1, NewWish
  <2> QED
    BY <1>2, <2>1, <2>2
<1>3. CASE c # d
  <2>1. intent'[c] = intent[c]
    BY <1>1, <1>3
  <2>2. e \notin RequestsFor(c)
    BY <1>3
  <2>3. Carried(todo, to_server, queue, Append(todo, e), to_server, queue,
                RequestsFor(c), TasksFor(c), Granting(c, intent[c]))
    BY <1>1, <2>2, OtherErrand
  <2>4. \/ Above(todo, to_server, queue, RequestsFor(c), TasksFor(c), Granting(c, intent[c]))
        \/ Clear(todo, to_server, queue, RequestsFor(c), TasksFor(c)) /\ Granted(c, intent[c])
    BY DEF SessionInv, WishOnItsWay
  <2>5. Granted(c, intent[c]) => Granted(c, intent[c])'
    BY <2>1 DEF Granted
  <2> QED
    BY <2>1, <2>3, <2>4, <2>5 DEF Carried
<1> QED
  BY <1>2, <1>3

\* What is queued has no keyboard parameters.
LEMMA ParamsKept ==
  ASSUME SessionInv, NEW e \in Errand, e \notin KeyboardRequests, todo' = Append(todo, e),
         ~KeyboardCall, ~KeyboardCall',
         UNCHANGED <<linked, to_server, queue, enabled, params, last_params>>
  PROVE  ParamsOnTheirWay'
<1>1. todo \in Seq(Errand)
  BY DEF SessionInv, LibraryTypes
<1>2. Carried(todo, to_server, queue, Append(todo, e), to_server, queue,
              KeyboardRequests, KeyboardTasks, With(last_params))
  BY <1>1, OtherErrand
<1> QED
  BY <1>2 DEF SessionInv, ParamsOnTheirWay, Carried

LEMMA InitializeRequests ==
  ASSUME SessionInv, initialize_requests
  PROVE  SessionInv'
<1> DEFINE d == call.device
           p == call.param
           e == Request("initialize", d, p)
<1>1. /\ call.at = "stored" /\ call' = NoCall /\ intended
      /\ todo' = Append(todo, e)
      /\ UNCHANGED <<evars, link, last_ready, last_params, skipped>>
      /\ UNCHANGED <<linked, to_server, to_client>>
  BY DEF initialize_requests, async_request, link
<1>2. call \in Started /\ d \in Device /\ p \in Param
  BY <1>1, CallFacts DEF SessionInv, Started
<1>3. e \in Req /\ e \in Errand
  BY <1>2, RequestMade DEF RequestsFor, Errand
<1>4. DaemonTypes' /\ todo' \in Seq(Errand) /\ StatusFollows' /\ (None(todo', {Lost}) <=> None(todo, {Lost}))
  BY <1>1, <1>3, ErrandQueued
<1>5. UNCHANGED <<enabled, params, queue>>
  BY <1>1 DEF evars
<1>6. /\ intent' \in [Device -> Param \cup {NoParam}]
      /\ ~linked => intent' = intent
  BY <1>1, <1>2, IntendedType DEF SessionInv
<1>7. LibraryTypes'
  BY <1>1, <1>4, <1>6 DEF SessionInv, LibraryTypes
<1>8. EndsKnown'
  BY <1>1, <1>4, <1>6 DEF SessionInv, EndsKnown
<1>9. WishOnItsWay'
  <2>1. linked => intent' = [intent EXCEPT ![d] = p]
    BY <1>1 DEF intended
  <2>2. /\ e \in RequestsFor(d) /\ e \in Granting(d, p)
        /\ \A c \in Device \ {d} : e \notin RequestsFor(c)
    BY <1>2, RequestMade
  <2> HIDE DEF d, p, e
  <2> QED
    BY <1>1, <1>2, <1>3, <1>5, <2>1, <2>2, WishAdded
<1>10. ParamsOnTheirWay'
  <2>1. ~KeyboardCall'
    BY <1>1 DEF KeyboardCall
  <2>2. CASE d = "keyboard"
    <3>1. KeyboardCall /\ last_params \in {NoParam, p}
      BY <1>1, <1>2, <2>2 DEF SessionInv, ParamsOnTheirWay, KeyboardCall, NoCall, Started
    <3>2. e \in KeyboardRequests /\ e \in With(p)
      BY <1>2, <2>2, RequestMade
    <3>3. todo \in Seq(Errand)
      BY DEF SessionInv, LibraryTypes
    <3>4. Above(Append(todo, e), to_server, queue, KeyboardRequests, KeyboardTasks, With(p))
      BY <1>3, <3>2, <3>3, NewWish
    <3> QED
      BY <1>1, <1>5, <2>1, <3>1, <3>4 DEF ParamsOnTheirWay
  <2>3. CASE d # "keyboard"
    <3>1. ~KeyboardCall
      BY <2>3 DEF KeyboardCall
    <3>2. e \notin KeyboardRequests
      BY <1>2, <2>3, RequestMade
    <3> QED
      BY <1>1, <1>3, <1>5, <2>1, <3>1, <3>2, ParamsKept
  <2> QED
    BY <2>2, <2>3
<1> QED
  BY <1>4, <1>7, <1>8, <1>9, <1>10 DEF SessionInv

LEMMA TerminateCall ==
  ASSUME SessionInv, NEW d \in Device, async_terminate(d)
  PROVE  SessionInv'
<1> DEFINE e == Request("terminate", d, DefaultParam)
<1>1. /\ call = NoCall /\ call' = NoCall
      /\ intent' = [intent EXCEPT ![d] = NoParam]
      /\ todo' = Append(todo, e)
      /\ UNCHANGED <<evars, link, last_ready, last_params, skipped>>
      /\ UNCHANGED <<linked, to_server, to_client>>
  BY DEF async_terminate, Call, async_request, link
<1>2. /\ e \in RequestsFor(d) /\ e \in Granting(d, NoParam) /\ e \notin KeyboardRequests
      /\ \A c \in Device \ {d} : e \notin RequestsFor(c)
  BY EntryAssumption, RequestMade
<1>3. e \in Req /\ e \in Errand
  BY <1>2 DEF RequestsFor, Errand
<1> HIDE DEF e
<1>4. DaemonTypes' /\ todo' \in Seq(Errand) /\ StatusFollows' /\ (None(todo', {Lost}) <=> None(todo, {Lost}))
  BY <1>1, <1>3, ErrandQueued
<1>5. UNCHANGED <<enabled, params, queue>>
  BY <1>1 DEF evars
<1>6. LibraryTypes'
  BY <1>1, <1>4 DEF SessionInv, LibraryTypes
<1>7. EndsKnown'
  BY <1>1, <1>4 DEF SessionInv, EndsKnown
<1>8. WishOnItsWay'
  BY <1>1, <1>2, <1>3, <1>5, WishAdded
<1>9. ParamsOnTheirWay'
  <2>1. ~KeyboardCall /\ ~KeyboardCall'
    BY <1>1 DEF KeyboardCall
  <2> QED
    BY <1>1, <1>2, <1>3, <1>5, <2>1, ParamsKept
<1> QED
  BY <1>4, <1>6, <1>7, <1>8, <1>9 DEF SessionInv

\* async_reset and async_stop ask for nothing.
LEMMA OtherCall ==
  ASSUME SessionInv, NEW e \in Req \cup {Stop}, e \in Req => e.name = "reset",
         todo' = Append(todo, e),
         UNCHANGED <<evars, link, last_ready, last_params, call, session>>
  PROVE  SessionInv'
<1>1. UNCHANGED <<linked, to_server, to_client, intent, skipped, enabled, params, queue>>
  BY DEF link, session, evars
<1>2. DaemonTypes' /\ todo' \in Seq(Errand) /\ StatusFollows' /\ (None(todo', {Lost}) <=> None(todo, {Lost}))
  BY ErrandQueued
<1>3. LibraryTypes' /\ EndsKnown'
  BY <1>1, <1>2 DEF SessionInv, LibraryTypes, EndsKnown
<1>4. ASSUME NEW R, NEW T, NEW G, Fits(R, T, G)
      PROVE  Carried(todo, to_server, queue, todo', to_server', queue', R, T, G)
  <2>1. e \in Errand /\ todo \in Seq(Errand)
    BY DEF SessionInv, LibraryTypes, Errand
  <2>2. e \notin R
    BY <1>4, Apart DEF Fits
  <2> QED
    BY <1>1, <2>1, <2>2, OtherErrand
<1>5. WishOnItsWay' /\ ParamsOnTheirWay'
  BY <1>1, <1>4, WishesKept DEF SessionInv
<1> QED
  BY <1>2, <1>3, <1>5 DEF SessionInv

(***************************************************************************)
(* The library's dispatcher and the connection.                            *)
(***************************************************************************)
LEMMA Receive ==
  ASSUME SessionInv, receive
  PROVE  SessionInv'
<1> DEFINE m == Message(Head(to_client))
<1>1. /\ linked /\ to_client # <<>> /\ todo' = Append(todo, m) /\ to_client' = Tail(to_client)
      /\ UNCHANGED <<evars, linked, to_server, last_ready, last_params, call, session>>
      /\ UNCHANGED <<intent, skipped, enabled, params, queue, generation, client, last_response>>
  BY DEF receive, session, evars
<1>2. /\ to_client \in Seq(Response) /\ todo \in Seq(Errand)
  BY DEF SessionInv, LibraryTypes
<1>3. /\ Head(to_client) \in Response /\ Tail(to_client) \in Seq(Response)
      /\ Head(to_client) = to_client[1] /\ Len(to_client) \in Nat /\ Len(to_client) > 0
      /\ Len(Tail(to_client)) = Len(to_client) - 1
      /\ \A i \in 1 .. Len(Tail(to_client)) : Tail(to_client)[i] = to_client[i + 1]
  BY <1>1, <1>2
<1>4. m \in Msg /\ m \in Errand /\ m.status = Head(to_client)
  BY <1>3 DEF Msg, Errand, Message
<1>5. /\ \A i \in 1 .. Len(to_client') : Right(to_client'[i], generation)
      /\ Right(Head(to_client), generation)
  <2>1. \A i \in 1 .. Len(to_client) : Right(to_client[i], generation)
    BY <1>1 DEF SessionInv, StatusFollows
  <2>2. \A i \in 1 .. Len(to_client') : i + 1 \in 1 .. Len(to_client)
    BY <1>1, <1>3
  <2> QED
    BY <1>1, <1>3, <2>1, <2>2
<1> HIDE DEF m
<1>6. None(todo', {Lost}) <=> None(todo, {Lost})
  <2>1. m \notin {Lost}
    BY <1>4, ErrandFacts
  <2> QED
    BY <1>1, <1>2, <1>4, <2>1, AtTheEnd
<1>7. DaemonTypes'
  BY <1>1, EntryKept, DaemonKept DEF SessionInv
<1>8. todo' \in Seq(Errand) /\ to_client' \in Seq(Response)
  BY <1>1, <1>2, <1>3, <1>4
<1>9. LibraryTypes' /\ EndsKnown'
  BY <1>1, <1>6, <1>8 DEF SessionInv, LibraryTypes, EndsKnown
<1>10. ASSUME NEW R, NEW T, NEW G, Fits(R, T, G)
       PROVE  Carried(todo, to_server, queue, todo', to_server', queue', R, T, G)
  <2>1. m \notin R
    BY <1>4, <1>10, Apart
  <2> QED
    BY <1>1, <1>2, <1>4, <2>1, OtherErrand
<1>11. WishOnItsWay' /\ ParamsOnTheirWay'
  BY <1>1, <1>10, WishesKept DEF SessionInv
<1>12. StatusFollows'
  <2>1. /\ RightMsg' = RightMsg /\ \A r : Right(r, generation') <=> Right(r, generation)
    BY <1>1 DEF RightMsg, Right
  <2>2. m \in RightMsg
    BY <1>4, <1>5 DEF RightMsg
  <2>3. Last(todo', Msg, RightMsg)
    BY <1>1, <1>2, <1>4, <2>2, AtTheEnd
  <2> QED
    BY <1>1, <1>5, <2>1, <2>3 DEF SessionInv, StatusFollows
<1> QED
  BY <1>7, <1>9, <1>11, <1>12 DEF SessionInv

\* The head of the library's queue.
LEMMA TodoFacts ==
  ASSUME LibraryTypes, NEW name, Todo(name)
  PROVE  /\ todo # <<>> /\ todo \in Seq(Errand) /\ Tail(todo) \in Seq(Errand)
         /\ name = "request" => Head(todo) \in Req /\ Head(todo) \notin Msg
         /\ name = "message" => Head(todo) \in Msg
         /\ name = "stop" => Head(todo) = Stop
         /\ name = "closed" => Head(todo) = Lost
         /\ name # "closed" => Head(todo) # Lost
<1>1. todo # <<>> /\ todo \in Seq(Errand) /\ Head(todo).task = name
  BY DEF Todo, LibraryTypes
<1>2. Head(todo) \in Errand /\ Tail(todo) \in Seq(Errand)
  BY <1>1, FromTheFront
<1> QED
  BY <1>1, <1>2, ErrandFacts DEF Errand

LEMMA Send ==
  ASSUME SessionInv, send
  PROVE  SessionInv'
<1>1. /\ Todo("request") /\ todo' = Tail(todo)
      /\ to_server' = IF linked THEN Append(to_server, Head(todo)) ELSE to_server
      /\ UNCHANGED <<evars, linked, to_client, last_ready, last_params, call, session>>
      /\ UNCHANGED <<intent, skipped, enabled, params, queue, generation, client, last_response>>
  BY DEF send, session, evars
<1>2. /\ todo # <<>> /\ todo \in Seq(Errand) /\ Tail(todo) \in Seq(Errand)
      /\ Head(todo) \in Req /\ Head(todo) \notin Msg /\ Head(todo) # Lost
      /\ to_server \in Seq(Req)
  BY <1>1, TodoFacts DEF SessionInv, LibraryTypes
<1>3. None(todo, {Lost}) <=> None(todo', {Lost})
  BY <1>1, <1>2, FromTheFront
<1>4. DaemonTypes'
  BY <1>1, EntryKept, DaemonKept DEF SessionInv
<1>5. LibraryTypes'
  <2>1. to_server' \in Seq(Req)
    BY <1>1, <1>2
  <2> QED
    BY <1>1, <1>2, <2>1 DEF SessionInv, LibraryTypes
<1>6. EndsKnown'
  BY <1>1, <1>3 DEF SessionInv, EndsKnown
<1>7. WishOnItsWay' /\ ParamsOnTheirWay'
  <2>1. CASE linked
    <3>1. ASSUME NEW R, NEW T, NEW G, Fits(R, T, G)
          PROVE  Carried(todo, to_server, queue, todo', to_server', queue', R, T, G)
      BY <1>1, <1>2, <2>1, SendCarries
    <3> QED
      BY <1>1, <3>1, WishesKept DEF SessionInv
  <2>2. CASE ~linked
    <3>1. (KeyboardCall' <=> KeyboardCall) /\ ~linked'
      BY <1>1, <2>2 DEF KeyboardCall
    <3> QED
      BY <1>1, <3>1 DEF SessionInv, WishOnItsWay, ParamsOnTheirWay
  <2> QED
    BY <2>1, <2>2
<1>8. StatusFollows'
  <2>1. /\ None(todo, Msg) => None(todo', Msg)
        /\ Last(todo, Msg, RightMsg) => Last(todo', Msg, RightMsg)
    BY <1>1, <1>2, FromTheFront
  <2>2. RightStored' <=> RightStored
    BY <1>1 DEF RightStored
  <2> QED
    BY <1>1, <2>1, <2>2, StatusKept DEF SessionInv
<1> QED
  BY <1>4, <1>5, <1>6, <1>7, <1>8 DEF SessionInv

LEMMA HandleMessage ==
  ASSUME SessionInv, handle_message
  PROVE  SessionInv'
<1>1. /\ Todo("message") /\ todo' = Tail(todo)
      /\ last_ready' = [d \in Device |-> IF Head(todo).status.ready[d] THEN "true" ELSE "false"]
      /\ UNCHANGED <<evars, linked, to_server, to_client, last_params, call, intent, skipped>>
      /\ UNCHANGED <<enabled, params, queue, generation, client, last_response>>
  BY DEF handle_message, link, session, evars
<1>2. /\ todo # <<>> /\ todo \in Seq(Errand) /\ Tail(todo) \in Seq(Errand)
      /\ Head(todo) \in Msg /\ Head(todo) # Lost
  BY <1>1, TodoFacts DEF SessionInv
<1>3. None(todo, {Lost}) <=> None(todo', {Lost})
  BY <1>1, <1>2, FromTheFront
<1>4. DaemonTypes'
  BY <1>1, EntryKept, DaemonKept DEF SessionInv
<1>5. LibraryTypes'
  <2>1. last_ready' \in [Device -> {"nullopt", "true", "false"}]
    BY <1>1
  <2> QED
    BY <1>1, <1>2, <2>1 DEF SessionInv, LibraryTypes
<1>6. EndsKnown'
  BY <1>1, <1>3 DEF SessionInv, EndsKnown
<1>7. ASSUME NEW R, NEW T, NEW G, Fits(R, T, G)
      PROVE  Carried(todo, to_server, queue, todo', to_server', queue', R, T, G)
  <2>1. Head(todo) \notin R
    BY <1>2, <1>7, Apart
  <2> QED
    BY <1>1, <1>2, <2>1, ErrandDone
<1>8. WishOnItsWay' /\ ParamsOnTheirWay'
  BY <1>1, <1>7, WishesKept DEF SessionInv
<1>9. StatusFollows'
  <2>1. ~None(todo, Msg)
    BY <1>2, FromTheFront
  <2>2. Last(todo, Msg, RightMsg) =>
          Last(todo', Msg, RightMsg) \/ (None(todo', Msg) /\ Head(todo) \in RightMsg)
    BY <1>1, <1>2, FromTheFront
  <2>3. Head(todo) \in RightMsg => RightStored'
    BY <1>1 DEF RightMsg, Right, RightStored
  <2> QED
    BY <1>1, <2>1, <2>2, <2>3, StatusKept DEF SessionInv
<1> QED
  BY <1>4, <1>5, <1>6, <1>8, <1>9 DEF SessionInv

\* A session has ended: nothing is claimed of its successor until it is there.
LEMMA NotLinked ==
  ASSUME SessionInv, UNCHANGED evars, ~linked', to_client' = <<>>, call' = call,
         last_params' \in {last_params, NoParam}
  PROVE  DaemonTypes' /\ WishOnItsWay' /\ ParamsOnTheirWay' /\ StatusFollows'
<1>1. DaemonTypes'
  BY EntryKept, DaemonKept DEF SessionInv
<1>2. WishOnItsWay'
  BY DEF WishOnItsWay
<1>3. ParamsOnTheirWay'
  <2>1. KeyboardCall' <=> KeyboardCall
    BY DEF KeyboardCall
  <2> QED
    BY <2>1 DEF SessionInv, ParamsOnTheirWay
<1>4. StatusFollows'
  BY DEF SessionInv, StatusFollows, evars
<1> QED
  BY <1>1, <1>2, <1>3, <1>4

LEMMA ClearStateFacts ==
  ASSUME clear_state
  PROVE  /\ last_params' = NoParam /\ skipped' = FALSE
         /\ last_ready' \in [Device -> {"nullopt", "true", "false"}]
         /\ intent' = [d \in Device |-> NoParam]
         /\ intent' \in [Device -> Param \cup {NoParam}]
  BY DEF clear_state

LEMMA NoMessages == <<>> \in Seq(Req) /\ <<>> \in Seq(Response)
  OBVIOUS

LEMMA StopStep ==
  ASSUME SessionInv, stop
  PROVE  SessionInv'
<1>1. /\ Todo("stop") /\ todo' = Tail(todo) /\ clear_state
      /\ linked' = FALSE /\ to_server' = <<>> /\ to_client' = <<>>
      /\ UNCHANGED <<evars, call>>
  BY DEF stop, Unlink, link, SessionInv, EndsKnown, LibraryTypes
<1>2. todo' \in Seq(Errand)
  BY <1>1, TodoFacts DEF SessionInv
<1>3. LibraryTypes'
  BY <1>1, <1>2, ClearStateFacts, NoMessages DEF SessionInv, LibraryTypes
<1>4. EndsKnown'
  BY <1>1, ClearStateFacts DEF EndsKnown
<1> QED
  BY <1>1, <1>3, <1>4, ClearStateFacts, NotLinked DEF SessionInv

LEMMA BreakStep ==
  ASSUME SessionInv, break
  PROVE  SessionInv'
<1>1. /\ todo' = Append(todo, Lost)
      /\ linked' = FALSE /\ to_server' = <<>> /\ to_client' = <<>>
      /\ UNCHANGED <<evars, last_ready, last_params, call, intent, skipped>>
  BY DEF break, Unlink, session
<1>2. todo \in Seq(Errand) /\ Lost \in Errand
  BY DEF SessionInv, LibraryTypes, Errand
<1>3. todo' \in Seq(Errand)
  BY <1>1, <1>2
<1>4. ~None(todo', {Lost})
  BY <1>1, <1>2, AtTheEnd
<1>5. LibraryTypes'
  BY <1>1, <1>3, NoMessages DEF SessionInv, LibraryTypes
<1>6. EndsKnown'
  BY <1>1, <1>4 DEF EndsKnown
<1> QED
  BY <1>1, <1>5, <1>6, NotLinked DEF SessionInv

LEMMA HandleClosed ==
  ASSUME SessionInv, handle_closed
  PROVE  SessionInv'
<1>1. /\ Todo("closed") /\ todo' = Tail(todo) /\ clear_state
      /\ UNCHANGED <<evars, linked, to_server, to_client, call>>
  BY DEF handle_closed, link
<1>2. todo # <<>> /\ todo \in Seq(Errand) /\ Tail(todo) \in Seq(Errand) /\ Head(todo) = Lost
  BY <1>1, TodoFacts DEF SessionInv
<1>3. ~None(todo, {Lost})
  BY <1>2, FromTheFront
<1>4. ~linked /\ to_server = <<>> /\ to_client = <<>>
  BY <1>3 DEF SessionInv, EndsKnown
<1>5. LibraryTypes'
  BY <1>1, <1>2, ClearStateFacts DEF SessionInv, LibraryTypes
<1>6. EndsKnown'
  BY <1>1, <1>4, ClearStateFacts DEF EndsKnown
<1> QED
  BY <1>1, <1>4, <1>5, <1>6, ClearStateFacts, NotLinked DEF SessionInv

LEMMA FirstCheck ==
  /\ <<Check>> \in Seq(Work)
  /\ ~None(<<Check>>, {Check})
  /\ \A R, T, G : Fits(R, T, G) => None(<<Check>>, R) /\ None(<<Check>>, T)
<1> DEFINE q == <<Check>>
<1>1. Check \in Task /\ Check.task = "check"
  BY MakersOfTasks DEF Check
<1>2. q \in Seq(Work) /\ Len(q) = 1 /\ q[1] = Check
  BY <1>1 DEF Work
<1> HIDE DEF q
<1>3. ~None(q, {Check})
  BY <1>2 DEF None
<1>4. ASSUME NEW R, NEW T, NEW G, Fits(R, T, G) PROVE None(q, R) /\ None(q, T)
  <2>1. Check \notin R /\ Check \notin T
    BY <1>1, <1>4, Apart DEF Fits
  <2> QED
    BY <1>2, <2>1 DEF None
<1> QED
  BY <1>2, <1>3, <1>4 DEF q

\* A new entry, for which nothing is on its way.
Fresh ==
  /\ linked /\ None(todo, Req) /\ to_server = <<>> /\ to_client = <<>>
  /\ queue = <<Check>> /\ enabled = [d \in Device |-> FALSE]
  /\ client = [d \in Device |-> "none"] /\ last_response = NoResponse
  /\ intent = [d \in Device |-> NoParam]
  /\ KeyboardCall => last_params \in {NoParam, call.param}

LEMMA FreshSession == Fresh => WishOnItsWay /\ ParamsOnTheirWay /\ StatusFollows
<1> SUFFICES ASSUME Fresh PROVE WishOnItsWay /\ ParamsOnTheirWay /\ StatusFollows
  OBVIOUS
<1> USE DEF Fresh
<1>1. ASSUME NEW R, NEW T, NEW G, Fits(R, T, G)
      PROVE  Clear(todo, to_server, queue, R, T)
  <2>1. None(todo, R)
    BY <1>1 DEF Fits, None
  <2> QED
    BY <1>1, <2>1, FirstCheck, OfNothing DEF Clear
<1>2. WishOnItsWay
  <2> SUFFICES ASSUME NEW d \in Device
               PROVE  /\ Clear(todo, to_server, queue, RequestsFor(d), TasksFor(d))
                      /\ Granted(d, intent[d])
    BY DEF WishOnItsWay
  <2>1. Fits(RequestsFor(d), TasksFor(d), Granting(d, NoParam))
    BY WishesFit
  <2> QED
    BY <1>1, <2>1 DEF Granted
<1>3. ParamsOnTheirWay
  <2>1. Fits(KeyboardRequests, KeyboardTasks, With(NoParam))
    BY ParamsFit
  <2>2. ~enabled["keyboard"]
    BY DEF Device
  <2> QED
    BY <1>1, <2>1, <2>2 DEF ParamsOnTheirWay
<1>4. StatusFollows
  <2>1. Len(to_client) = 0 /\ \A d \in Device : client[d] = "none"
    OBVIOUS
  <2>2. ~None(queue, {Check})
    BY FirstCheck
  <2> QED
    BY <2>1, <2>2 DEF StatusFollows
<1> QED
  BY <1>2, <1>3, <1>4

LEMMA FreshSessionNext == (Fresh => WishOnItsWay /\ ParamsOnTheirWay /\ StatusFollows)'
  BY FreshSession, PTL

LEMMA SessionInvInit == SessionInit => SessionInv
<1> SUFFICES ASSUME SessionInit PROVE SessionInv
  OBVIOUS
<1>1. /\ EntryInit /\ linked = TRUE /\ to_server = <<>> /\ to_client = <<>> /\ todo = <<>>
      /\ last_ready = [d \in Device |-> "nullopt"] /\ last_params = NoParam /\ call = NoCall
      /\ intent = [d \in Device |-> NoParam] /\ skipped = FALSE
  BY DEF SessionInit
<1>2. Len(todo) = 0 /\ todo \in Seq(Errand)
  BY <1>1
<1>3. DaemonTypes
  <2>1. \A d \in Device : checks[d] = <<>> /\ <<>> \in Seq(Nat)
    BY <1>1 DEF EntryInit
  <2>2. SetupTypes
    BY <1>1, <2>1 DEF EntryInit, SetupTypes, ClientState
  <2>3. queue \in Seq(Work)
    BY <1>1, FirstCheck DEF EntryInit, peer_connected
  <2> QED
    BY <1>1, <2>2, <2>3, EntryAssumption DEF EntryInit, DaemonTypes, Driver
<1>4. LibraryTypes
  BY <1>1, <1>2, NoMessages DEF LibraryTypes
<1>5. EndsKnown
  BY <1>1, <1>2 DEF EndsKnown, None
<1>6. Fresh
  <2>1. None(todo, Req)
    BY <1>2 DEF None
  <2> QED
    BY <1>1, <2>1 DEF Fresh, EntryInit, peer_connected, KeyboardCall
<1> QED
  BY <1>3, <1>4, <1>5, <1>6, FreshSession DEF SessionInv

LEMMA ConnectStep ==
  ASSUME SessionInv, connect
  PROVE  SessionInv'
<1>1. /\ ~linked /\ linked' = TRUE
      /\ \A i \in 1 .. Len(todo) : todo[i].task = "message"
      /\ UNCHANGED <<activated, to_server, to_client, todo, last_ready, last_params,
                     call, intent, skipped>>
  BY DEF connect, library, session
<1>2. /\ driver' = "unconnected" /\ enabled' = [d \in Device |-> FALSE]
      /\ params' = DefaultParam /\ client' = [d \in Device |-> "none"]
      /\ generation' = [d \in Device |-> 0] /\ checks' = [d \in Device |-> <<>>]
      /\ last_response' = NoResponse /\ queue' = <<Check>>
      /\ was_ready' = [d \in Device |-> FALSE] /\ failures' = [d \in Device |-> 0]
  BY DEF connect, peer_connected
<1>3. None(todo, {Lost}) /\ None(todo, Req)
  BY <1>1, ErrandFacts DEF None
<1>4. /\ to_server = <<>> /\ to_client = <<>>
      /\ intent = [d \in Device |-> NoParam]
  BY <1>1, <1>3 DEF SessionInv, EndsKnown
<1>5. DaemonTypes'
  <2>1. SetupTypes'
    <3>1. <<>> \in Seq(Nat)
      OBVIOUS
    <3> QED
      BY <1>2, <3>1 DEF SetupTypes, ClientState
  <2>2. queue' \in Seq(Work)
    BY <1>2, FirstCheck
  <2>3. activated' \in BOOLEAN /\ driver' \in Driver
    BY <1>1, <1>2 DEF SessionInv, DaemonTypes, Driver
  <2>4. enabled' \in [Device -> BOOLEAN] /\ params' \in Param
    BY <1>2, EntryAssumption
  <2> QED
    BY <1>2, <2>1, <2>2, <2>3, <2>4 DEF DaemonTypes
<1>6. LibraryTypes'
  BY <1>1 DEF SessionInv, LibraryTypes
<1>7. EndsKnown'
  BY <1>1, <1>3 DEF EndsKnown
<1>8. Fresh'
  <2>1. KeyboardCall' <=> KeyboardCall
    BY <1>1 DEF KeyboardCall
  <2>2. KeyboardCall' => (last_params \in {NoParam, call.param})'
    BY <1>1, <2>1 DEF SessionInv, ParamsOnTheirWay
  <2> QED
    BY <1>1, <1>2, <1>3, <1>4, <2>2 DEF Fresh
<1> QED
  BY <1>5, <1>6, <1>7, <1>8, FreshSessionNext DEF SessionInv

(***************************************************************************)
(* The daemon.                                                             *)
(***************************************************************************)
LEMMA ArriveStep ==
  ASSUME SessionInv, arrive
  PROVE  SessionInv'
<1>1. /\ linked /\ to_server # <<>> /\ queue' = Append(queue, Head(to_server))
      /\ to_server' = Tail(to_server)
      /\ UNCHANGED <<activated, driver, enabled, params, client, generation, checks,
                     was_ready, failures, last_response>>
      /\ UNCHANGED <<linked, to_client, todo, last_ready, last_params, call, intent, skipped>>
  BY DEF arrive, observed, history, library, session
<1>2. /\ to_server \in Seq(Req) /\ queue \in Seq(Work)
      /\ Head(to_server) \in Req /\ Tail(to_server) \in Seq(Req)
  BY <1>1, FromTheFront DEF SessionInv, DaemonTypes, LibraryTypes
<1>3. Head(to_server) \in Work /\ Head(to_server) # Check
  BY <1>2, ErrandFacts DEF Work, Check
<1>4. queue' \in Seq(Work)
  BY <1>1, <1>2, <1>3
<1>5. DaemonTypes'
  BY <1>1, <1>4 DEF SessionInv, DaemonTypes, SetupTypes
<1>6. LibraryTypes'
  BY <1>1, <1>2 DEF SessionInv, LibraryTypes
<1>7. EndsKnown'
  BY <1>1 DEF SessionInv, EndsKnown
<1>8. ASSUME NEW R, NEW T, NEW G, Fits(R, T, G)
      PROVE  Carried(todo, to_server, queue, todo', to_server', queue', R, T, G)
  BY <1>1, <1>2, <1>8, ArriveCarries
<1>9. WishOnItsWay' /\ ParamsOnTheirWay'
  BY <1>1, <1>8, WishesKept DEF SessionInv
<1>10. StatusFollows'
  <2>1. None(queue', {Check}) => None(queue, {Check})
    BY <1>1, <1>2, <1>3, AtTheEnd
  <2>2. /\ RightMsg' = RightMsg /\ (RightStored' <=> RightStored)
        /\ \A r : Right(r, generation') <=> Right(r, generation)
    BY <1>1 DEF RightMsg, Right, RightStored
  <2> QED
    BY <1>1, <2>1, <2>2 DEF SessionInv, StatusFollows
<1> QED
  BY <1>5, <1>6, <1>7, <1>9, <1>10 DEF SessionInv

\* The status of this moment is right.
LEMMA CurrentStatus ==
  ASSUME DaemonTypes, \A d \in Device : client[d] # "none" => generation[d] > 0
  PROVE  make_response(client) \in Response /\ Right(make_response(client), generation)
  BY DEF DaemonTypes, make_response, Response, Right

\* A status that is right stays right as long as the session goes on.
LEMMA StaysRight ==
  ASSUME DaemonTypes, DaemonTypes', UNCHANGED <<todo, last_ready>>,
         \A d \in Device : generation'[d] >= generation[d]
  PROVE  /\ \A r : Right(r, generation) => Right(r, generation')
         /\ Last(todo, Msg, RightMsg) => Last(todo, Msg, RightMsg)'
         /\ RightStored => RightStored'
<1>1. \A d \in Device : generation[d] \in Nat /\ generation'[d] \in Nat
  BY DEF DaemonTypes, SetupTypes
<1>2. \A d \in Device : generation[d] > 0 => generation'[d] > 0
  BY <1>1
<1>3. \A r : Right(r, generation) => Right(r, generation')
  BY <1>2 DEF Right
<1>4. RightStored => RightStored'
  BY <1>2 DEF RightStored
<1>5. \A e \in Msg : e \in RightMsg => e \in RightMsg'
  BY <1>3 DEF RightMsg
<1>6. Last(todo, Msg, RightMsg) => Last(todo, Msg, RightMsg')
  BY <1>5, LastGrows
<1> QED
  BY <1>3, <1>4, <1>6

\* A status is sent: as an answer, or because it differs from the last push.
LEMMA StatusSent ==
  ASSUME SessionInv, DaemonTypes', UNCHANGED <<linked, todo, last_ready>>, linked,
         \A d \in Device : generation'[d] >= generation[d],
         \A d \in Device : client'[d] # "none" => generation'[d] > 0,
         NEW r \in Response, Right(r, generation'), to_client' = Append(to_client, r),
         last_response' = NoResponse => ~None(queue', {Check})
  PROVE  StatusFollows' /\ to_client' \in Seq(Response)
<1>1. /\ to_client \in Seq(Response)
      /\ \A i \in 1 .. Len(to_client) : Right(to_client[i], generation)
  BY DEF SessionInv, LibraryTypes, StatusFollows
<1>2. /\ Len(to_client) \in Nat /\ Len(to_client') = Len(to_client) + 1
      /\ to_client'[Len(to_client) + 1] = r /\ to_client' \in Seq(Response)
      /\ \A i \in 1 .. Len(to_client) : to_client'[i] = to_client[i]
  BY <1>1
<1>3. \A q : Right(q, generation) => Right(q, generation')
  BY StaysRight DEF SessionInv
<1>4. \A i \in 1 .. Len(to_client') : Right(to_client'[i], generation')
  <2>1. \A i \in 1 .. Len(to_client') : i = Len(to_client) + 1 \/ i \in 1 .. Len(to_client)
    BY <1>2
  <2> QED
    BY <1>1, <1>2, <1>3, <2>1 DEF Right
<1>5. to_client' # <<>>
  BY <1>2
<1> QED
  BY <1>2, <1>4, <1>5 DEF StatusFollows, Right

\* Nothing is sent.
LEMMA NothingSent ==
  ASSUME SessionInv, DaemonTypes',
         UNCHANGED <<linked, todo, last_ready, to_client, last_response>>,
         \A d \in Device : generation'[d] >= generation[d],
         \A d \in Device : client'[d] # "none" => generation'[d] > 0,
         last_response = NoResponse /\ None(queue', {Check}) => None(queue, {Check})
  PROVE  StatusFollows'
<1>1. /\ \A r : Right(r, generation) => Right(r, generation')
      /\ Last(todo, Msg, RightMsg) => Last(todo, Msg, RightMsg)'
      /\ RightStored => RightStored'
  BY StaysRight DEF SessionInv
<1>2. \A i \in 1 .. Len(to_client') : linked' => Right(to_client'[i], generation')
  BY <1>1 DEF SessionInv, StatusFollows, Right
<1> QED
  BY <1>1, <1>2 DEF SessionInv, StatusFollows, Right

\* check_status_changed and async_deliver_status.
LEMMA StatusChecked ==
  ASSUME SessionInv, DaemonTypes', UNCHANGED <<linked, todo, last_ready>>, linked,
         \A d \in Device : generation'[d] >= generation[d],
         \A d \in Device : client'[d] # "none" => generation'[d] > 0,
         UNCHANGED <<activated, driver>>, check_status_changed(client'), deliver_status
  PROVE  StatusFollows' /\ to_client' \in Seq(Response)
<1>1. last_response' = make_response(client')
  BY DEF check_status_changed
<1>2. make_response(client') \in Response /\ Right(make_response(client'), generation')
  BY DEF DaemonTypes, make_response, Response, Right
<1>3. last_response' # NoResponse
  BY <1>1, <1>2, ResponseAssumption
<1>4. CASE last_response' = last_response
  <2>1. to_client' = to_client
    BY <1>4 DEF deliver_status
  <2> QED
    BY <1>3, <1>4, <2>1, NothingSent DEF SessionInv, LibraryTypes
<1>5. CASE last_response' # last_response
  <2>1. to_client' = Append(to_client, last_response')
    BY <1>5 DEF deliver_status
  <2>2. last_response' \in Response /\ Right(last_response', generation')
    BY <1>1, <1>2 DEF Right
  <2> QED
    BY <1>3, <2>1, <2>2, StatusSent
<1> QED
  BY <1>4, <1>5

LEMMA QueueHead ==
  ASSUME DaemonTypes, NEW name, HasTask(name)
  PROVE  /\ queue # <<>> /\ queue \in Seq(Work) /\ Tail(queue) \in Seq(Work)
         /\ Head(queue).task = name
         /\ name = "request" => Head(queue) \in Req
         /\ name # "request" => Head(queue) \in Task
<1>1. queue # <<>> /\ queue \in Seq(Work) /\ Head(queue).task = name
  BY DEF HasTask, DaemonTypes
<1>2. Head(queue) \in Work /\ Tail(queue) \in Seq(Work)
  BY <1>1, FromTheFront
<1>3. \A t \in Task : t.task # "request"
  BY TaskFacts
<1> QED
  BY <1>1, <1>2, <1>3, ErrandFacts DEF Work

LEMMA RequestReceived ==
  ASSUME SessionInv, request_received
  PROVE  SessionInv'
<1> DEFINE r == Head(queue)
<1>1. /\ linked /\ HasTask("request")
      /\ to_client' = Append(to_client, make_response(client))
      /\ UNCHANGED <<activated, driver, enabled, params, client, generation, checks,
                     was_ready, failures, last_response>>
      /\ UNCHANGED <<linked, to_server, todo, last_ready, last_params, call, intent, skipped>>
  BY DEF request_received, observed, history, library, session
<1>2. queue' = Tail(queue) \o
               CASE r.name = "initialize" -> <<Initialize(r.device, r.param)>>
                 [] r.name = "terminate"  -> <<Terminate(r.device)>>
                 [] r.name = "reset"      -> <<>>
  BY DEF request_received
<1>3. queue # <<>> /\ queue \in Seq(Work) /\ Tail(queue) \in Seq(Work) /\ r \in Req
  BY <1>1, QueueHead DEF SessionInv
<1>4. /\ r.task = "request" /\ r.name \in {"initialize", "terminate", "reset"}
      /\ WorkFor(r) \in Task /\ WorkFor(r) \in Work /\ WorkFor(r) # Check
  BY <1>3, RequestFacts DEF Work, Check
<1>5. queue' = IF r.name = "reset" THEN Tail(queue) ELSE Append(Tail(queue), WorkFor(r))
  <2>1. \A q \in Seq(Work) : q \o <<>> = q /\ \A e \in Work : q \o <<e>> = Append(q, e)
    OBVIOUS
  <2>2. CASE r.name = "reset"
    BY <1>2, <1>3, <2>1, <2>2
  <2>3. CASE r.name = "initialize"
    <3>1. queue' = Tail(queue) \o <<WorkFor(r)>>
      BY <1>2, <2>3 DEF WorkFor
    <3> QED
      BY <1>3, <1>4, <2>1, <2>3, <3>1
  <2>4. CASE r.name = "terminate"
    <3>1. queue' = Tail(queue) \o <<WorkFor(r)>>
      BY <1>2, <2>4 DEF WorkFor
    <3> QED
      BY <1>3, <1>4, <2>1, <2>4, <3>1
  <2> QED
    BY <1>4, <2>2, <2>3, <2>4
<1>6. queue' \in Seq(Work)
  BY <1>3, <1>4, <1>5
<1>7. DaemonTypes'
  BY <1>1, <1>6 DEF SessionInv, DaemonTypes, SetupTypes
<1>8. EndsKnown'
  BY <1>1 DEF SessionInv, EndsKnown
<1>9. ASSUME NEW R, NEW T, NEW G, Fits(R, T, G)
      PROVE  Carried(todo, to_server, queue, todo', to_server', queue', R, T, G)
  BY <1>1, <1>3, <1>5, <1>9, ReceiveCarries
<1>10. WishOnItsWay' /\ ParamsOnTheirWay'
  BY <1>1, <1>9, WishesKept DEF SessionInv
<1>11. StatusFollows' /\ to_client' \in Seq(Response)
  <2>1. \A d \in Device : client[d] # "none" => generation[d] > 0
    BY DEF SessionInv, StatusFollows
  <2>2. make_response(client) \in Response /\ Right(make_response(client), generation)
    BY <2>1, CurrentStatus DEF SessionInv
  <2>3. r \notin {Check}
    BY <1>4 DEF Check
  <2>4. None(Tail(queue), {Check}) => None(queue, {Check})
    BY <1>3, <2>3, FromTheFront
  <2>5. None(Append(Tail(queue), WorkFor(r)), {Check}) => None(Tail(queue), {Check})
    BY <1>3, <1>4, AtTheEnd
  <2>6. last_response' = NoResponse => ~None(queue', {Check})
    BY <1>1, <1>5, <2>4, <2>5 DEF SessionInv, StatusFollows
  <2>7. \A d \in Device : generation'[d] >= generation[d]
    BY <1>1 DEF SessionInv, DaemonTypes, SetupTypes
  <2> HIDE DEF r
  <2> QED
    BY <1>1, <1>7, <2>1, <2>2, <2>6, <2>7, StatusSent
<1>12. LibraryTypes'
  BY <1>1, <1>11 DEF SessionInv, LibraryTypes
<1> QED
  BY <1>7, <1>8, <1>10, <1>11, <1>12 DEF SessionInv

\* The library's side of a step of the entry.
LEMMA LibraryKept ==
  ASSUME SessionInv, linked, to_client' \in Seq(Response),
         UNCHANGED <<linked, to_server, todo, last_ready, last_params, call, intent, skipped>>
  PROVE  LibraryTypes' /\ EndsKnown'
  BY DEF SessionInv, LibraryTypes, EndsKnown

\* The wishes when a task of the entry runs.
LEMMA WishesRun ==
  ASSUME SessionInv, queue # <<>>, Head(queue) \in Task, NEW gone,
         queue' = Dropping(Tail(queue), gone) \/ queue' = Tail(queue),
         UNCHANGED <<linked, to_server, todo, last_params, call, intent, skipped>>,
         \A d \in Device : \A w :
           /\ Head(queue) \in TasksFor(d) /\ Head(queue) \in Granting(d, w) => Granted(d, w)'
           /\ Head(queue) \notin TasksFor(d) /\ Granted(d, w) => Granted(d, w)',
         \A p : /\ Head(queue) \in KeyboardTasks /\ Head(queue) \in With(p) => params' = p
                /\ Head(queue) \notin KeyboardTasks /\ (enabled["keyboard"] => params = p)
                     => (enabled'["keyboard"] => params' = p)
  PROVE  WishOnItsWay' /\ ParamsOnTheirWay'
<1>1. queue \in Seq(Work) /\ Tail(queue) \in Seq(Work)
  BY FromTheFront DEF SessionInv, DaemonTypes
<1>2. ASSUME NEW R, NEW T, NEW G, Fits(R, T, G)
      PROVE  /\ Clear(todo, to_server, queue, R, T) =>
                  Clear(todo', to_server', queue', R, T) /\ Head(queue) \notin T
             /\ Above(todo, to_server, queue, R, T, G) =>
                  \/ Above(todo', to_server', queue', R, T, G)
                  \/ /\ Clear(todo', to_server', queue', R, T)
                     /\ Head(queue) \in T /\ Head(queue) \in G
  <2>1. /\ Clear(todo, to_server, queue, R, T) =>
             Clear(todo, to_server, Tail(queue), R, T) /\ Head(queue) \notin T
        /\ Above(todo, to_server, queue, R, T, G) =>
             \/ Above(todo, to_server, Tail(queue), R, T, G)
             \/ /\ Clear(todo, to_server, Tail(queue), R, T)
                /\ Head(queue) \in T /\ Head(queue) \in G
    BY <1>1, <1>2, RunCarries
  <2>2. Carried(todo, to_server, Tail(queue), todo, to_server, Dropping(Tail(queue), gone), R, T, G)
    BY <1>1, <1>2, DropCarries
  <2>3. CASE queue' = Tail(queue)
    BY <2>1, <2>3
  <2>4. CASE queue' = Dropping(Tail(queue), gone)
    BY <2>1, <2>2, <2>4 DEF Carried
  <2> QED
    BY <2>3, <2>4
<1>3. WishOnItsWay'
  <2> SUFFICES ASSUME linked', ~skipped', NEW d \in Device
               PROVE  \/ Above(todo', to_server', queue', RequestsFor(d), TasksFor(d),
                               Granting(d, intent'[d]))
                      \/ Clear(todo', to_server', queue', RequestsFor(d), TasksFor(d))
                         /\ Granted(d, intent[d])'
    BY DEF WishOnItsWay
  <2>1. \/ Above(todo, to_server, queue, RequestsFor(d), TasksFor(d), Granting(d, intent[d]))
        \/ Clear(todo, to_server, queue, RequestsFor(d), TasksFor(d)) /\ Granted(d, intent[d])
    BY DEF SessionInv, WishOnItsWay
  <2>2. Fits(RequestsFor(d), TasksFor(d), Granting(d, intent[d]))
    BY WishesFit
  <2>3. PICK w : w = intent[d]
    OBVIOUS
  <2>4. Granted(d, w)' => Granted(d, intent[d])'
    BY <2>3 DEF Granted
  <2>5. \/ Above(todo', to_server', queue', RequestsFor(d), TasksFor(d), Granting(d, intent[d]))
        \/ /\ Clear(todo', to_server', queue', RequestsFor(d), TasksFor(d))
           /\ \/ Head(queue) \in TasksFor(d) /\ Head(queue) \in Granting(d, w)
              \/ Head(queue) \notin TasksFor(d) /\ Granted(d, w)
    BY <1>2, <2>1, <2>2, <2>3
  <2> QED
    BY <2>4, <2>5
<1>4. ParamsOnTheirWay'
  <2>1. KeyboardCall' <=> KeyboardCall
    BY DEF KeyboardCall
  <2>2. Fits(KeyboardRequests, KeyboardTasks, With(last_params))
    BY ParamsFit
  <2> QED
    BY <1>2, <2>1, <2>2 DEF SessionInv, ParamsOnTheirWay
<1> QED
  BY <1>3, <1>4

\* What a task that turns a device on or off grants.
LEMMA TaskGrants ==
  ASSUME NEW t \in Task, NEW d \in Device, NEW w
  PROVE  /\ t \in TasksFor(d) <=> t.task \in {"initialize", "terminate"} /\ t.device = d
         /\ t \in KeyboardTasks <=> t.task = "initialize" /\ t.device = "keyboard"
         /\ t \in With(w) => t.param = w
         /\ t \in TasksFor(d) /\ t \in Granting(d, w) =>
              IF t.task = "initialize" THEN w # NoParam /\ (d = "keyboard" => t.param = w)
                                       ELSE w = NoParam
<1>1. t.task # "request"
  BY TaskFacts
<1> QED
  BY <1>1 DEF TasksFor, KeyboardTasks, With, Granting, Op

LEMMA DroppedType ==
  ASSUME NEW q \in Seq(Work), NEW gone
  PROVE  Dropping(q, gone) \in Seq(Work)
<1>1. \A e \in {} : e.task # "state_changed"
  OBVIOUS
<1> QED
  BY <1>1, InWhatIsLeft

\* A response is one whatever the clients are.
LEMMA CheckedType ==
  ASSUME DaemonTypes, check_status_changed(client')
  PROVE  last_response' \in Response \cup {NoResponse}
  BY DEF DaemonTypes, check_status_changed, make_response, Response

EntryStepFrame ==
  /\ linked /\ deliver_status
  /\ UNCHANGED <<linked, to_server, todo, last_ready, last_params, call, intent, skipped>>

LEMMA InitializeTask ==
  ASSUME SessionInv, EntryStepFrame, run_initialize
  PROVE  SessionInv'
<1> DEFINE t  == Head(queue)
           d  == t.device
           p  == t.param
           en == [enabled EXCEPT ![d] = TRUE]
           cl == [c \in Device |-> IF c \in ReplacedBy(d, p) THEN "none" ELSE client[c]]
<1>1. /\ HasTask("initialize") /\ enabled' = en
      /\ params' = IF d = "keyboard" THEN p ELSE params
      /\ queue' = Dropping(Tail(queue), ReplacedBy(d, p))
      /\ setup_virtual_hid_devices(en, cl, checks)
      /\ check_status_changed(client')
      /\ UNCHANGED <<activated, driver>>
  BY DEF run_initialize, observed
<1>2. DaemonTypes /\ SetupTypes /\ StatusFollows
  BY DEF SessionInv, DaemonTypes
<1>3. /\ queue # <<>> /\ queue \in Seq(Work) /\ Tail(queue) \in Seq(Work)
      /\ t \in Task /\ t.task = "initialize"
  BY <1>1, <1>2, QueueHead
<1>4. d \in Device /\ p \in Param
  BY <1>3, TaskFacts
<1> HIDE DEF t
<1>5. /\ en \in [Device -> BOOLEAN] /\ cl \in [Device -> ClientState]
      /\ checks \in [Device -> Seq(Nat)]
      /\ \A c \in Device : cl[c] # "none" => client[c] # "none"
  BY <1>2, <1>4 DEF DaemonTypes, SetupTypes, ClientState
<1>6. /\ en[d] = TRUE /\ \A c \in Device : c # d => en[c] = enabled[c]
      /\ enabled \in [Device -> BOOLEAN]
  BY <1>2, <1>4 DEF DaemonTypes
<1> HIDE DEF en, cl
<1>7. SetupTypes' /\ SetupDone(en, cl, checks)
  BY <1>1, <1>2, <1>5, SetupFacts
<1>8. \A c \in Device : /\ generation'[c] >= generation[c]
                        /\ client'[c] # "none" => generation'[c] > 0
  <2> SUFFICES ASSUME NEW c \in Device
               PROVE  /\ generation'[c] >= generation[c]
                      /\ client'[c] # "none" => generation'[c] > 0
    OBVIOUS
  <2>1. generation[c] \in Nat /\ (client[c] # "none" => generation[c] > 0)
    BY <1>2 DEF SetupTypes, StatusFollows
  <2>2. CASE en[c] /\ cl[c] = "none"
    <3>1. generation'[c] = generation[c] + 1
      BY <1>7, <2>2 DEF SetupDone
    <3> QED
      BY <2>1, <3>1
  <2>3. CASE ~(en[c] /\ cl[c] = "none")
    <3>1. generation'[c] = generation[c] /\ client'[c] = IF en[c] THEN cl[c] ELSE "none"
      BY <1>7, <2>3 DEF SetupDone
    <3> QED
      BY <1>5, <2>1, <3>1
  <2> QED
    BY <2>2, <2>3
<1>9. DaemonTypes'
  <2>1. queue' \in Seq(Work)
    BY <1>1, <1>3, DroppedType
  <2>2. params' \in Param
    BY <1>1, <1>2, <1>4 DEF DaemonTypes
  <2>3. last_response' \in Response \cup {NoResponse}
    BY <1>1, <1>2, CheckedType
  <2>4. activated' \in BOOLEAN /\ driver' \in Driver
    BY <1>1, <1>2 DEF DaemonTypes
  <2> QED
    BY <1>1, <1>5, <1>7, <2>1, <2>2, <2>3, <2>4 DEF DaemonTypes
<1>10. StatusFollows' /\ to_client' \in Seq(Response)
  BY <1>1, <1>8, <1>9, StatusChecked DEF EntryStepFrame
<1>11. LibraryTypes' /\ EndsKnown'
  BY <1>10, LibraryKept DEF EntryStepFrame
<1>12. ASSUME NEW c \in Device, NEW w
       PROVE  /\ t \in TasksFor(c) /\ t \in Granting(c, w) => Granted(c, w)'
              /\ t \notin TasksFor(c) /\ Granted(c, w) => Granted(c, w)'
  <2>1. CASE c = d
    <3>1. t \in TasksFor(c)
      BY <1>3, <2>1, TaskGrants
    <3>2. t \in Granting(c, w) => w # NoParam /\ (c = "keyboard" => p = w)
      BY <1>3, <3>1, TaskGrants
    <3> QED
      BY <1>1, <1>6, <2>1, <3>1, <3>2 DEF Granted
  <2>2. CASE c # d
    <3>1. t \notin TasksFor(c)
      BY <1>3, <2>2, TaskGrants
    <3> QED
      BY <1>1, <1>6, <2>2, <3>1 DEF Granted
  <2> QED
    BY <2>1, <2>2
<1>13. ASSUME NEW w
       PROVE  /\ t \in KeyboardTasks /\ t \in With(w) => params' = w
              /\ t \notin KeyboardTasks /\ (enabled["keyboard"] => params = w)
                   => (enabled'["keyboard"] => params' = w)
  <2>1. (t \in KeyboardTasks <=> d = "keyboard") /\ (t \in With(w) => p = w)
    BY <1>3, <1>4, TaskGrants
  <2>2. d # "keyboard" => enabled'["keyboard"] = enabled["keyboard"]
    BY <1>1, <1>6 DEF Device
  <2> QED
    BY <1>1, <2>1, <2>2
<1>14. WishOnItsWay' /\ ParamsOnTheirWay'
  BY <1>1, <1>3, <1>12, <1>13, WishesRun DEF EntryStepFrame, t
<1> QED
  BY <1>9, <1>10, <1>11, <1>14 DEF SessionInv

LEMMA TerminateTask ==
  ASSUME SessionInv, EntryStepFrame, run_terminate
  PROVE  SessionInv'
<1> DEFINE t == Head(queue)
           d == t.device
<1>1. /\ HasTask("terminate") /\ enabled' = [enabled EXCEPT ![d] = FALSE]
      /\ generation' = [generation EXCEPT ![d] = @ + 1]
      /\ client' = [client EXCEPT ![d] = "none"]
      /\ was_ready' = [was_ready EXCEPT ![d] = FALSE]
      /\ queue' = Dropping(Tail(queue), {d})
      /\ check_status_changed(client')
      /\ UNCHANGED <<activated, driver, params, checks, failures>>
  BY DEF run_terminate, observed
<1>2. DaemonTypes /\ SetupTypes /\ StatusFollows
  BY DEF SessionInv, DaemonTypes
<1>3. /\ queue # <<>> /\ queue \in Seq(Work) /\ Tail(queue) \in Seq(Work)
      /\ t \in Task /\ t.task = "terminate"
  BY <1>1, <1>2, QueueHead
<1>4. d \in Device
  BY <1>3, TaskFacts
<1> HIDE DEF t
<1>5. SetupTypes'
  BY <1>1, <1>2, <1>4 DEF SetupTypes, ClientState
<1>6. \A c \in Device : /\ generation'[c] >= generation[c]
                        /\ client'[c] # "none" => generation'[c] > 0
  BY <1>1, <1>2, <1>4 DEF SetupTypes, StatusFollows
<1>7. /\ enabled' \in [Device -> BOOLEAN] /\ enabled'[d] = FALSE
      /\ \A c \in Device : c # d => enabled'[c] = enabled[c]
  BY <1>1, <1>2, <1>4 DEF DaemonTypes
<1>8. DaemonTypes'
  <2>1. queue' \in Seq(Work)
    BY <1>1, <1>3, DroppedType
  <2>2. last_response' \in Response \cup {NoResponse}
    BY <1>1, <1>2, CheckedType
  <2>3. activated' \in BOOLEAN /\ driver' \in Driver /\ params' \in Param
    BY <1>1, <1>2 DEF DaemonTypes
  <2> QED
    BY <1>5, <1>7, <2>1, <2>2, <2>3 DEF DaemonTypes
<1>9. StatusFollows' /\ to_client' \in Seq(Response)
  BY <1>1, <1>6, <1>8, StatusChecked DEF EntryStepFrame
<1>10. LibraryTypes' /\ EndsKnown'
  BY <1>9, LibraryKept DEF EntryStepFrame
<1>11. ASSUME NEW c \in Device, NEW w
       PROVE  /\ t \in TasksFor(c) /\ t \in Granting(c, w) => Granted(c, w)'
              /\ t \notin TasksFor(c) /\ Granted(c, w) => Granted(c, w)'
  <2>1. CASE c = d
    <3>1. t \in TasksFor(c)
      BY <1>3, <2>1, TaskGrants
    <3>2. t \in Granting(c, w) => w = NoParam
      BY <1>3, <3>1, TaskGrants
    <3> QED
      BY <1>7, <2>1, <3>1, <3>2 DEF Granted
  <2>2. CASE c # d
    BY <1>1, <1>3, <1>7, <2>2, TaskGrants DEF Granted
  <2> QED
    BY <2>1, <2>2
<1>12. ASSUME NEW w
       PROVE  /\ t \in KeyboardTasks /\ t \in With(w) => params' = w
              /\ t \notin KeyboardTasks /\ (enabled["keyboard"] => params = w)
                   => (enabled'["keyboard"] => params' = w)
  <2>1. t \notin KeyboardTasks
    BY <1>3, <1>4, TaskGrants
  <2>2. enabled'["keyboard"] => enabled["keyboard"]
    BY <1>4, <1>7 DEF Device
  <2> QED
    BY <1>1, <2>1, <2>2
<1>13. WishOnItsWay' /\ ParamsOnTheirWay'
  BY <1>1, <1>3, <1>11, <1>12, WishesRun DEF EntryStepFrame, t
<1> QED
  BY <1>8, <1>9, <1>10, <1>13 DEF SessionInv

LEMMA CheckTask ==
  ASSUME SessionInv, EntryStepFrame, run_check
  PROVE  SessionInv'
<1> DEFINE t == Head(queue)
<1>1. /\ HasTask("check") \/ HasTask("state_changed")
      /\ queue' = Tail(queue) /\ check_status_changed(client')
      /\ UNCHANGED <<activated, driver, enabled, params, client, generation, checks,
                     was_ready, failures>>
  BY DEF run_check, observed, history
<1>2. /\ queue # <<>> /\ Tail(queue) \in Seq(Work) /\ t \in Task
      /\ t.task \in {"check", "state_changed"}
  BY <1>1, QueueHead DEF SessionInv
<1>3. \A d \in Device : /\ generation'[d] >= generation[d]
                        /\ client'[d] # "none" => generation'[d] > 0
  BY <1>1 DEF SessionInv, DaemonTypes, SetupTypes, StatusFollows
<1>4. DaemonTypes'
  <2>1. last_response' \in Response \cup {NoResponse}
    BY <1>1, CheckedType DEF SessionInv
  <2> QED
    BY <1>1, <1>2, <2>1 DEF SessionInv, DaemonTypes, SetupTypes
<1>5. StatusFollows' /\ to_client' \in Seq(Response)
  BY <1>1, <1>3, <1>4, StatusChecked DEF EntryStepFrame
<1>6. LibraryTypes' /\ EndsKnown'
  BY <1>5, LibraryKept DEF EntryStepFrame
<1> HIDE DEF t
<1>7. ASSUME NEW d \in Device, NEW w
      PROVE  t \notin TasksFor(d) /\ t \notin KeyboardTasks /\ (Granted(d, w) => Granted(d, w)')
  BY <1>1, <1>2, TaskGrants DEF Granted
<1>8. "keyboard" \in Device
  BY DEF Device
<1>9. WishOnItsWay' /\ ParamsOnTheirWay'
  BY <1>1, <1>2, <1>7, <1>8, WishesRun DEF EntryStepFrame, t
<1> QED
  BY <1>4, <1>5, <1>6, <1>9 DEF SessionInv

\* A step of the clients, which sends nothing and grants nothing.
LEMMA ClientsStep ==
  ASSUME SessionInv, linked, DaemonTypes',
         \/ queue' = queue
         \/ \E src \in Device \cup {"observer"} : queue' = Append(queue, StateChanged(src)),
         \A d \in Device : /\ generation'[d] >= generation[d]
                           /\ client'[d] # "none" => generation'[d] > 0,
         UNCHANGED <<enabled, params, last_response>>,
         UNCHANGED <<linked, to_server, to_client, todo, last_ready, last_params, call,
                     intent, skipped>>
  PROVE  SessionInv'
<1>1. LibraryTypes' /\ EndsKnown'
  BY LibraryKept DEF SessionInv, LibraryTypes
<1>2. queue \in Seq(Work)
  BY DEF SessionInv, DaemonTypes
<1>3. \A src \in Device \cup {"observer"} :
        /\ StateChanged(src) \in Task /\ StateChanged(src) \in Work
        /\ StateChanged(src).task = "state_changed" /\ StateChanged(src) # Check
  BY MakersOfTasks DEF Work, StateChanged, Check
<1>4. ASSUME NEW R, NEW T, NEW G, Fits(R, T, G)
      PROVE  Carried(todo, to_server, queue, todo', to_server', queue', R, T, G)
  <2>1. CASE queue' = queue
    BY <2>1 DEF Carried
  <2>2. ASSUME NEW src \in Device \cup {"observer"}, queue' = Append(queue, StateChanged(src))
        PROVE  Carried(todo, to_server, queue, todo', to_server', queue', R, T, G)
    <3>1. StateChanged(src) \notin R /\ StateChanged(src) \notin T
      BY <1>3, <1>4, Apart DEF Fits
    <3> QED
      BY <1>2, <1>3, <2>2, <3>1, OtherTask
  <2> QED
    BY <2>1, <2>2
<1>5. WishOnItsWay' /\ ParamsOnTheirWay'
  BY <1>4, WishesKept DEF SessionInv
<1>6. StatusFollows'
  <2>1. None(queue', {Check}) => None(queue, {Check})
    <3>1. ASSUME NEW src \in Device \cup {"observer"}, queue' = Append(queue, StateChanged(src))
          PROVE  None(queue', {Check}) => None(queue, {Check})
      BY <1>2, <1>3, <3>1, AtTheEnd
    <3> QED
      BY <3>1
  <2> QED
    BY <2>1, NothingSent
<1> QED
  BY <1>1, <1>5, <1>6 DEF SessionInv

LEMMA CheckDue ==
  ASSUME SessionInv, EntryStepFrame, NEW d \in Device, readiness_check(d)
  PROVE  SessionInv'
<1> DEFINE left == [checks EXCEPT ![d] = Tail(@)]
           cl   == [client EXCEPT ![d] = "none"]
<1>1. /\ checks[d] # <<>>
      /\ \/ checks' = left /\ UNCHANGED <<client, generation, was_ready, failures>>
         \/ setup_virtual_hid_devices(enabled, cl, left)
      /\ UNCHANGED <<activated, driver, enabled, params, last_response, queue>>
  BY DEF readiness_check, CheckIsDue, observed, history
<1>2. DaemonTypes /\ SetupTypes /\ StatusFollows
  BY DEF SessionInv, DaemonTypes
<1>3. left \in [Device -> Seq(Nat)] /\ cl \in [Device -> ClientState]
  <2>1. checks \in [Device -> Seq(Nat)] /\ client \in [Device -> ClientState]
    BY <1>2 DEF SetupTypes
  <2>2. Tail(checks[d]) \in Seq(Nat)
    BY <1>1, <2>1
  <2> QED
    BY <2>1, <2>2 DEF ClientState
<1>4. \A c \in Device : /\ generation[c] \in Nat
                        /\ client[c] # "none" => generation[c] > 0
                        /\ cl[c] # "none" => cl[c] = client[c]
  BY <1>2 DEF SetupTypes, StatusFollows
<1>5. /\ SetupTypes'
      /\ \A c \in Device : /\ generation'[c] >= generation[c]
                           /\ client'[c] # "none" => generation'[c] > 0
  <2>1. CASE checks' = left /\ UNCHANGED <<client, generation, was_ready, failures>>
    BY <1>2, <1>3, <1>4, <2>1 DEF SetupTypes
  <2>2. CASE setup_virtual_hid_devices(enabled, cl, left)
    <3> HIDE DEF left, cl
    <3>1. SetupTypes' /\ SetupDone(enabled, cl, left)
      BY <1>2, <1>3, <2>2, SetupFacts DEF DaemonTypes
    <3> SUFFICES ASSUME NEW c \in Device
                 PROVE  /\ generation'[c] >= generation[c]
                        /\ client'[c] # "none" => generation'[c] > 0
      BY <3>1
    <3>2. CASE enabled[c] /\ cl[c] = "none"
      <4>1. generation'[c] = generation[c] + 1
        BY <3>1, <3>2 DEF SetupDone
      <4> QED
        BY <1>4, <4>1
    <3>3. CASE ~(enabled[c] /\ cl[c] = "none")
      <4>1. /\ generation'[c] = generation[c]
            /\ client'[c] = IF enabled[c] THEN cl[c] ELSE "none"
        BY <3>1, <3>3 DEF SetupDone
      <4> QED
        BY <1>4, <4>1
    <3> QED
      BY <3>2, <3>3
  <2> QED
    BY <1>1, <2>1, <2>2
<1>6. DaemonTypes'
  BY <1>1, <1>2, <1>5 DEF DaemonTypes
<1>7. to_client' = to_client
  BY <1>1 DEF EntryStepFrame, deliver_status
<1> QED
  BY <1>1, <1>5, <1>6, <1>7, ClientsStep DEF EntryStepFrame

LEMMA QueuedEmission ==
  ASSUME DaemonTypes, NEW src \in Device \cup {"observer"}
  PROVE  Append(queue, StateChanged(src)) \in Seq(Work)
<1>1. StateChanged(src) \in Work
  BY MakersOfTasks DEF Work
<1> QED
  BY <1>1 DEF DaemonTypes

LEMMA BecomesReady ==
  ASSUME SessionInv, EntryStepFrame, NEW d \in Device, client_becomes_ready(d)
  PROVE  SessionInv'
<1>1. /\ client[d] = "starting" /\ client' = [client EXCEPT ![d] = "ready"]
      /\ was_ready' = [was_ready EXCEPT ![d] = TRUE]
      /\ queue' = Append(queue, StateChanged(d))
      /\ UNCHANGED <<activated, driver, enabled, params, generation, checks,
                     last_response, failures>>
  BY DEF client_becomes_ready, observed
<1>2. DaemonTypes /\ SetupTypes /\ StatusFollows
  BY DEF SessionInv, DaemonTypes
<1>3. SetupTypes'
  BY <1>1, <1>2 DEF SetupTypes, ClientState
<1>4. DaemonTypes'
  BY <1>1, <1>2, <1>3, QueuedEmission DEF DaemonTypes
<1>5. \A c \in Device : /\ generation'[c] >= generation[c]
                        /\ client'[c] # "none" => generation'[c] > 0
  BY <1>1, <1>2 DEF SetupTypes, StatusFollows
<1>6. to_client' = to_client
  BY <1>1 DEF EntryStepFrame, deliver_status
<1> QED
  BY <1>1, <1>4, <1>5, <1>6, ClientsStep DEF EntryStepFrame

LEMMA DriverEvent ==
  ASSUME SessionInv, driver_event
  PROVE  SessionInv'
<1>1. /\ linked
      /\ UNCHANGED <<linked, to_server, to_client, todo, last_ready, last_params, call,
                     intent, skipped>>
  BY DEF driver_event, link, library, session
<1>2. DaemonTypes /\ SetupTypes /\ StatusFollows
  BY DEF SessionInv, DaemonTypes
<1>3. CASE registry_changes
  <2>1. /\ activated' = ~activated
        /\ UNCHANGED <<driver, enabled, params, client, generation, checks, last_response,
                       queue, was_ready, failures>>
    BY <1>3 DEF registry_changes, history
  <2>2. activated' \in BOOLEAN
    BY <1>2, <2>1 DEF DaemonTypes
  <2>3. DaemonTypes'
    BY <1>2, <2>1, <2>2 DEF DaemonTypes, SetupTypes
  <2>4. \A c \in Device : /\ generation'[c] >= generation[c]
                          /\ client'[c] # "none" => generation'[c] > 0
    BY <1>2, <2>1 DEF SetupTypes, StatusFollows
  <2> QED
    BY <1>1, <2>1, <2>3, <2>4, ClientsStep
<1>4. CASE observer_changes
  <2>1. /\ driver' \in Driver /\ queue' = Append(queue, StateChanged("observer"))
        /\ UNCHANGED <<activated, enabled, params, client, generation, checks, last_response,
                       was_ready, failures>>
    BY <1>4 DEF observer_changes, history
  <2>2. DaemonTypes'
    BY <1>2, <2>1, QueuedEmission DEF DaemonTypes, SetupTypes
  <2>3. \A c \in Device : /\ generation'[c] >= generation[c]
                          /\ client'[c] # "none" => generation'[c] > 0
    BY <1>2, <2>1 DEF SetupTypes, StatusFollows
  <2> QED
    BY <1>1, <2>1, <2>2, <2>3, ClientsStep
<1>5. ASSUME NEW d \in Device, client_loses_ready(d) PROVE SessionInv'
  <2>1. /\ client[d] = "ready"
        /\ \/ client' = [client EXCEPT ![d] = "starting"] /\ UNCHANGED failures
           \/ /\ client' = [client EXCEPT ![d] = "dud"]
              /\ failures' = [failures EXCEPT ![d] = @ + 1]
        /\ queue' = Append(queue, StateChanged(d))
        /\ UNCHANGED <<activated, driver, enabled, params, generation, checks,
                       last_response, was_ready>>
    BY <1>5 DEF client_loses_ready, observed
  <2>2. client' \in [Device -> ClientState] /\ failures' \in [Device -> Nat]
    <3>1. client \in [Device -> ClientState] /\ failures \in [Device -> Nat]
      BY <1>2 DEF SetupTypes
    <3>2. client' \in [Device -> ClientState]
      BY <2>1, <3>1 DEF ClientState
    <3>3. failures' \in [Device -> Nat]
      BY <2>1, <3>1
    <3> QED
      BY <3>2, <3>3
  <2>3. SetupTypes'
    BY <1>2, <2>1, <2>2 DEF SetupTypes
  <2>4. DaemonTypes'
    BY <1>2, <2>1, <2>3, QueuedEmission DEF DaemonTypes
  <2>5. \A c \in Device : /\ generation'[c] >= generation[c]
                          /\ client'[c] # "none" => generation'[c] > 0
    BY <1>2, <2>1 DEF SetupTypes, StatusFollows
  <2> QED
    BY <1>1, <2>1, <2>4, <2>5, ClientsStep
<1> QED
  BY <1>3, <1>4, <1>5 DEF driver_event

LEMMA EntryStep ==
  ASSUME SessionInv, entry_step
  PROVE  SessionInv'
<1>1. EntryStepFrame
  BY DEF entry_step, EntryStepFrame, library, session
<1> QED
  BY <1>1, InitializeTask, TerminateTask, CheckTask, CheckDue, BecomesReady
  DEF entry_step, RunTask

LEMMA SessionInvStep ==
  ASSUME SessionInv, [SessionNext]_pvars
  PROVE  SessionInv'
<1>1. CASE Calls
  <2>1. ASSUME NEW d \in Wanted, NEW p \in Param, NEW force \in Forced,
               async_initialize(d, p, force)
        PROVE  SessionInv'
    <3>1. d \in Device /\ force \in BOOLEAN
      BY EntryAssumption, SessionAssumption DEF Device
    <3> QED
      BY <2>1, <3>1, InitializeLooks
  <2>2. ASSUME NEW d \in Wanted, async_terminate(d) PROVE SessionInv'
    BY <2>2, EntryAssumption, TerminateCall DEF Device
  <2>3. ASSUME NEW d \in Wanted, async_reset(d) PROVE SessionInv'
    <3>1. /\ todo' = Append(todo, Request("reset", d, DefaultParam))
          /\ UNCHANGED <<evars, link, last_ready, last_params, call, session>>
      BY <2>3 DEF async_reset, Call, async_request
    <3>2. /\ Request("reset", d, DefaultParam) \in Req
          /\ Request("reset", d, DefaultParam).name = "reset"
      BY EntryAssumption DEF Req, Request, Device
    <3> QED
      BY <3>1, <3>2, OtherCall
  <2>4. CASE async_stop
    <3>1. /\ todo' = Append(todo, Stop)
          /\ UNCHANGED <<evars, link, last_ready, last_params, call, session>>
      BY <2>4 DEF async_stop, Call
    <3>2. Stop \notin Req
      BY ErrandFacts DEF Stop
    <3> QED
      BY <3>1, <3>2, OtherCall
  <2> QED
    BY <1>1, <2>1, <2>2, <2>3, <2>4, InitializeStores, InitializeRequests DEF Calls
<1>2. CASE UNCHANGED pvars
  <2>1. /\ UNCHANGED daemon
        /\ UNCHANGED <<linked, to_server, to_client, todo, last_ready, last_params, call,
                       intent, skipped>>
    BY <1>2 DEF pvars, evars, daemon, link, library, session
  <2>2. DaemonTypes'
    BY <2>1, DaemonKept DEF SessionInv
  <2>3. LibraryTypes' /\ EndsKnown'
    BY <2>1 DEF SessionInv, LibraryTypes, EndsKnown
  <2>4. WishOnItsWay' /\ ParamsOnTheirWay'
    <3>1. UNCHANGED <<queue, enabled, params>>
      BY <2>1 DEF daemon
    <3>2. \A R, T, G : Carried(todo, to_server, queue, todo', to_server', queue', R, T, G)
      BY <2>1, <3>1 DEF Carried
    <3> QED
      BY <2>1, <3>1, <3>2, WishesKept DEF SessionInv
  <2>5. StatusFollows'
    <3>1. RightStored' <=> RightStored
      BY <2>1 DEF RightStored, daemon
    <3> QED
      BY <2>1, <3>1, StatusKept DEF SessionInv, daemon
  <2> QED
    BY <2>2, <2>3, <2>4, <2>5 DEF SessionInv
<1> QED
  BY <1>1, <1>2, Receive, Send, HandleMessage, StopStep, BreakStep, HandleClosed,
     ConnectStep, ArriveStep, RequestReceived, EntryStep, DriverEvent
  DEF SessionNext

LEMMA SessionInvHolds == SessionSpec => []SessionInv
<1>1. SessionInit => SessionInv
  BY SessionInvInit
<1>2. SessionInv /\ [SessionNext]_pvars => SessionInv'
  BY SessionInvStep
<1> QED
  BY <1>1, <1>2, PTL DEF SessionSpec

\* Once nothing is on its way, the entry does what the application asked for
\* last: no interleaving of calls, sends, request_received, the entry's tasks and
\* reconnections makes the daemon end up with an earlier wish.
THEOREM LastWishGranted == SessionSpec => []IntentHonoured
<1>1. SessionInv => IntentHonoured
  <2> SUFFICES ASSUME SessionInv, Quiescent, ~skipped, NEW d \in Device
               PROVE  Granted(d, intent[d])
    BY DEF IntentHonoured, Granted
  <2>1. ~Above(todo, to_server, queue, RequestsFor(d), TasksFor(d), Granting(d, intent[d]))
    BY NothingCarried DEF Quiescent
  <2> QED
    BY <2>1 DEF SessionInv, WishOnItsWay, Quiescent
<1> QED
  BY <1>1, SessionInvHolds, PTL

\* A status that async_stop or a lost connection left behind does not outlive the
\* first status of the next session: handle_message comes to the new entry's push.
THEOREM NoStatusOfOldSession == SessionSpec => []StatusOfThisSession
<1>1. SessionInv => StatusOfThisSession
  <2> SUFFICES ASSUME SessionInv, Quiescent PROVE RightStored
    BY DEF StatusOfThisSession, RightStored
  <2>1. None(queue, {Check}) /\ ~Last(todo, Msg, RightMsg)
    BY OfNothing DEF Quiescent
  <2> QED
    BY <2>1 DEF SessionInv, StatusFollows, Quiescent
<1> QED
  BY <1>1, SessionInvHolds, PTL

\* The parameters that the library stores on the caller's thread, before the
\* request is sent, are those of the daemon's keyboard once everything has settled.
THEOREM StoredParamsRight == SessionSpec => []ParamsBelievedRight
<1>1. SessionInv => ParamsBelievedRight
  <2> SUFFICES ASSUME SessionInv, Quiescent, enabled["keyboard"]
               PROVE  last_params \in {NoParam, params}
    BY DEF ParamsBelievedRight
  <2>1. ~Above(todo, to_server, queue, KeyboardRequests, KeyboardTasks, With(last_params))
    BY NothingCarried DEF Quiescent
  <2>2. ~KeyboardCall /\ linked
    BY DEF Quiescent, KeyboardCall
  <2> QED
    BY <2>1, <2>2 DEF SessionInv, ParamsOnTheirWay
<1> QED
  BY <1>1, SessionInvHolds, PTL
=============================================================================
