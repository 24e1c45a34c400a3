-------------------------- MODULE ReportPath_proofs --------------------------
(***************************************************************************)
(* Proofs about ReportPath and HidReport, for any number of slots, keys    *)
(* and kinds of report, and for every bound on calls and incidents.        *)
(***************************************************************************)
EXTENDS ReportPath, Subsequence_proofs, FunctionTheorems

(***************************************************************************)
(* The array of keys.                                                      *)
(***************************************************************************)
\* A key is in at most one slot.
Distinct(a) == \A s, t \in Slot : a[s] = a[t] /\ a[s] # Zero => s = t

Filled(a) == {s \in Slot : a[s] # Zero}

KeysInv ==
  /\ keys_ \in [Slot -> KeyValue]
  /\ Distinct(keys_)
  /\ held = Down(keys_)

LEMMA SlotFacts ==
  /\ Slots \in Nat /\ IsFiniteSet(Slot) /\ Cardinality(Slot) = Slots
  /\ \A s \in Slot : s \in Nat
<1>1. Slots \in Nat /\ Slots # 0
  BY ReportAssumption
<1>2. IsFiniteSet(1 .. Slots) /\ Cardinality(1 .. Slots) = Slots
  BY <1>1, FS_Interval
<1> QED
  BY <1>1, <1>2 DEF Slot

\* The slots that are not free and the keys correspond one to one.
LEMMA CountsKeys ==
  ASSUME NEW a \in [Slot -> KeyValue], Distinct(a)
  PROVE  /\ IsFiniteSet(Down(a)) /\ Cardinality(Down(a)) = count(a)
         /\ IsFiniteSet(Filled(a)) /\ count(a) = Cardinality(Filled(a))
<1>1. IsFiniteSet(Filled(a))
  <2>1. Filled(a) \subseteq Slot
    BY DEF Filled
  <2> QED
    BY <2>1, SlotFacts, FS_Subset
<1>2. ExistsBijection(Filled(a), Down(a))
  <2> DEFINE f == [s \in Filled(a) |-> a[s]]
  <2>1. f \in [Filled(a) -> Down(a)]
    BY DEF Filled, Down
  <2>2. \A s, t \in Filled(a) : f[s] = f[t] => s = t
    BY DEF Filled, Distinct
  <2>3. \A k \in Down(a) : \E s \in Filled(a) : f[s] = k
    BY DEF Filled, Down
  <2> HIDE DEF f
  <2>4. f \in Injection(Filled(a), Down(a))
    BY <2>1, <2>2 DEF Injection, IsInjective
  <2>5. f \in Surjection(Filled(a), Down(a))
    BY <2>1, <2>3 DEF Surjection
  <2>6. f \in Bijection(Filled(a), Down(a))
    BY <2>4, <2>5 DEF Bijection
  <2> QED
    BY <2>6 DEF ExistsBijection
<1>3. IsFiniteSet(Down(a)) /\ Cardinality(Down(a)) = Cardinality(Filled(a))
  BY <1>1, <1>2, FS_Bijection
<1> QED
  BY <1>1, <1>3 DEF count, Filled

\* The report is full exactly if no slot is free.
LEMMA FullReport ==
  ASSUME NEW a \in [Slot -> KeyValue], Distinct(a)
  PROVE  Cardinality(Down(a)) = Slots <=> \A s \in Slot : a[s] # Zero
<1>1. Cardinality(Down(a)) = Cardinality(Filled(a)) /\ Filled(a) \subseteq Slot
  BY CountsKeys DEF Filled
<1>2. Cardinality(Filled(a)) = Cardinality(Slot) <=> Filled(a) = Slot
  BY <1>1, SlotFacts, FS_Subset
<1>3. Filled(a) = Slot <=> \A s \in Slot : a[s] # Zero
  BY DEF Filled
<1> QED
  BY <1>1, <1>2, <1>3, SlotFacts

\* insert puts a new key into one slot, the first that is free.
LEMMA InsertFacts ==
  ASSUME NEW a \in [Slot -> KeyValue], Distinct(a), NEW k \in KeyValue
  PROVE  /\ insert(a, k) \in [Slot -> KeyValue]
         /\ Distinct(insert(a, k))
         /\ k = Zero => Down(insert(a, k)) = Down(a)
         /\ Cardinality(Down(a)) = Slots => Down(insert(a, k)) = Down(a)
         /\ k # Zero /\ Cardinality(Down(a)) # Slots
              => Down(insert(a, k)) = Down(a) \cup {k}
<1>1. CASE exists(a, k)
  <2>1. insert(a, k) = a
    BY <1>1 DEF insert
  <2>2. k # Zero => k \in Down(a)
    BY <1>1 DEF exists, Down
  <2> QED
    BY <2>1, <2>2
<1>2. CASE ~exists(a, k)
  <2> DEFINE b == [s \in Slot |-> IF FirstFree(a, s) THEN k ELSE a[s]]
  <2>1. insert(a, k) = b /\ b \in [Slot -> KeyValue]
    BY <1>2 DEF insert
  <2>2. \A s \in Slot : a[s] # k
    BY <1>2 DEF exists
  <2>3. \A s, t \in Slot : FirstFree(a, s) /\ FirstFree(a, t) => s = t
    <3> SUFFICES ASSUME NEW s \in Slot, NEW t \in Slot, FirstFree(a, s), FirstFree(a, t), s < t
                 PROVE  FALSE
      BY SlotFacts
    <3>1. s \in 1 .. t - 1
      BY SlotFacts DEF Slot
    <3> QED
      BY <3>1 DEF FirstFree
  <2>4. Distinct(b)
    BY <2>2, <2>3 DEF Distinct, FirstFree
  <2>5. CASE \A s \in Slot : a[s] # Zero
    <3>1. \A s \in Slot : b[s] = a[s]
      BY <2>5 DEF FirstFree
    <3>2. b = a
      BY <3>1
    <3>3. Cardinality(Down(a)) = Slots
      BY <2>5, FullReport
    <3> QED
      BY <2>1, <2>4, <3>2, <3>3
  <2>6. CASE \E s \in Slot : a[s] = Zero
    <3>1. Cardinality(Down(a)) # Slots
      BY <2>6, FullReport
    <3>2. k # Zero
      BY <2>2, <2>6
    <3>3. PICK s \in Slot : FirstFree(a, s)
      <4> DEFINE Free == {s \in Slot : a[s] = Zero}
      <4>1. Free \in SUBSET Nat /\ Free # {}
        BY <2>6, SlotFacts
      <4>2. PICK m \in Free : \A t \in Free : m <= t
        BY <4>1, LeastOf
      <4>3. m \in Slot /\ a[m] = Zero
        BY <4>2
      <4>4. \A t \in 1 .. m - 1 : t \in Slot /\ ~(m <= t)
        BY <4>3, SlotFacts DEF Slot
      <4>5. \A t \in 1 .. m - 1 : a[t] # Zero
        BY <4>2, <4>4
      <4> QED
        BY <4>3, <4>5 DEF FirstFree
    <3>4. b[s] = k /\ a[s] = Zero /\ \A t \in Slot : t # s => b[t] = a[t]
      BY <2>3, <3>3 DEF FirstFree
    <3> HIDE DEF b
    <3>5. Down(b) = Down(a) \cup {k}
      BY <3>2, <3>4 DEF Down
    <3> QED
      BY <2>1, <2>4, <3>1, <3>2, <3>5
  <2> QED
    BY <2>5, <2>6
<1> QED
  BY <1>1, <1>2

LEMMA EraseFacts ==
  ASSUME NEW a \in [Slot -> KeyValue], Distinct(a), NEW k
  PROVE  /\ erase(a, k) \in [Slot -> KeyValue]
         /\ Distinct(erase(a, k))
         /\ Down(erase(a, k)) = Down(a) \ {k}
<1> DEFINE b == [s \in Slot |-> IF a[s] = k THEN Zero ELSE a[s]]
<1>1. erase(a, k) = b /\ b \in [Slot -> KeyValue]
  BY DEF erase, KeyValue
<1>2. \A s \in Slot : b[s] = IF a[s] = k THEN Zero ELSE a[s]
  OBVIOUS
<1> HIDE DEF b
<1>3. Distinct(b)
  BY <1>2 DEF Distinct
<1>4. Down(b) = Down(a) \ {k}
  BY <1>2 DEF Down
<1> QED
  BY <1>1, <1>3, <1>4

LEMMA KeysInvInit ==
  ASSUME PathInit
  PROVE  KeysInv
  BY DEF PathInit, KeysInv, clear, KeyValue, Distinct, Down

LEMMA KeysInvStep ==
  ASSUME KeysInv, [PathNext]_path_vars
  PROVE  KeysInv'
<1>1. ASSUME NEW k \in KeyValue, press(k) PROVE KeysInv'
  BY <1>1, InsertFacts DEF KeysInv, press
<1>2. ASSUME NEW k \in KeyValue, release(k) PROVE KeysInv'
  BY <1>2, EraseFacts DEF KeysInv, release
<1>3. CASE release_all
  BY <1>3 DEF KeysInv, release_all, clear, KeyValue, Distinct, Down
<1>4. CASE UNCHANGED <<keys_, held>>
  BY <1>4 DEF KeysInv
<1>5. CASE (\E kind \in Kind : async_post_report(kind)) \/ async_reset \/ async_terminate
           \/ (\E p \in Param : async_initialize(p))
  BY <1>4, <1>5 DEF async_post_report, async_reset, async_terminate, async_initialize
<1>6. CASE Daemon \/ connection_lost \/ driver_dies
  BY <1>4, <1>6
     DEF Daemon, connected, peer_closed, request_received, run_initialize, run_terminate,
         run_opened, readiness_check, client_opens, connection_lost, driver_dies, application
<1>7. CASE Driver
  BY <1>4, <1>7
     DEF Driver, keyboard_initialize, handleStart, postReport, reset, dropped, setReport, Posting,
         application
<1>8. CASE UNCHANGED path_vars
  BY <1>4, <1>8 DEF path_vars, application
<1> QED
  BY <1>1, <1>2, <1>3, <1>5, <1>6, <1>7, <1>8 DEF PathNext, Application

\* hid_report/keys.hpp: with insert, erase and clear the array is a set of keys
\* that never holds more than its slots, each key once, for any number of slots.
THEOREM KeysStayASet == PathSpec => []KeysAreASet
<1>1. PathInit => KeysInv
  BY KeysInvInit
<1>2. KeysInv /\ [PathNext]_path_vars => KeysInv'
  BY KeysInvStep
<1>3. KeysInv => KeysAreASet
  BY CountsKeys DEF KeysInv, KeysAreASet
<1> QED
  BY <1>1, <1>2, <1>3, PTL DEF PathSpec

(***************************************************************************)
(* Reports on their way.                                                   *)
(***************************************************************************)
Request ==
  [type : {"report"}, arg : [kind : Kind, keys : SUBSET Key]]
  \cup {[type |-> "reset", arg |-> {}], [type |-> "run_terminate", arg |-> {}]}
  \cup {[type |-> "run_initialize", arg |-> p] : p \in Param}

QueueTask ==
  {Task(r.type, r.arg) : r \in Request} \cup {Task("opened", {}), Task("initialize", {})}

\* What a request or a task does to the keys of a kind, once it gets to the
\* keyboard.
Updates(t, kind) == t.type = "reset" \/ (t.type = "report" /\ t.arg.kind = kind)
KeysOf(t) == IF t.type = "report" THEN t.arg.keys ELSE {}

Has(s, kind) == \E i \in 1 .. Len(s) : Updates(s[i], kind)

\* The last update of the kind in s, if there is one, leaves these keys.
LastIs(s, kind, keys) ==
  \A i \in 1 .. Len(s) :
    Updates(s[i], kind) /\ (\A j \in 1 .. Len(s) : i < j => ~Updates(s[j], kind))
      => KeysOf(s[i]) = keys

PathTypeOK ==
  /\ wire \in Seq(Request) /\ queue \in Seq(QueueTask)
  /\ posted \in [Kind -> SUBSET Key] /\ host \in [Kind -> SUBSET Key]
  /\ linked \in BOOLEAN /\ entry \in BOOLEAN /\ check \in BOOLEAN
  /\ client \in {"none", "closed", "open"} /\ keyboard \in {"none", "created", "ready"}
  /\ failures \in Nat /\ fresh \subseteq Kind

\* What is there only while something else is.
Layers ==
  /\ linked => entry
  /\ ~linked => wire = <<>> /\ fresh = {}
  /\ ~entry => queue = <<>> /\ client = "none"
  /\ client = "none" => ~check /\ \A i \in 1 .. Len(queue) : queue[i].owner = "entry"
  /\ client # "open" => keyboard = "none"
  /\ keyboard # "ready" => host = NoKeys /\ fresh = {}

\* The last update of a kind that is on its way is the last one posted; when
\* none is, the system sees no key that was not in it, and exactly its keys if
\* the keyboard has been there since.
Delivery(kind) ==
  /\ LastIs(wire, kind, posted[kind])
  /\ ~Has(wire, kind) => LastIs(queue, kind, posted[kind])
  /\ ~Has(wire, kind) /\ ~Has(queue, kind) =>
       \/ kind \in lost
       \/ /\ host[kind] \subseteq posted[kind]
          /\ kind \in fresh => host[kind] = posted[kind]

Deliveries == linked => \A kind \in Kind : Delivery(kind)

\* lastLedState follows the system, so only repeated states are suppressed.
LedsRight ==
  /\ lastLedState = led_set
  /\ led_lost \in BOOLEAN
  /\ led_posted = led_set \/ led_lost = TRUE

PathInv == PathTypeOK /\ Layers /\ Deliveries /\ LedsRight

LEMMA AppendUpdates ==
  ASSUME NEW S, NEW s \in Seq(S), NEW t \in S, NEW kind
  PROVE  /\ Updates(t, kind) => Has(Append(s, t), kind) /\ LastIs(Append(s, t), kind, KeysOf(t))
         /\ ~Updates(t, kind) =>
              /\ Has(Append(s, t), kind) <=> Has(s, kind)
              /\ \A keys : LastIs(s, kind, keys) => LastIs(Append(s, t), kind, keys)
<1> DEFINE r == Append(s, t)
<1>1. /\ Len(s) \in Nat /\ Len(r) = Len(s) + 1 /\ r[Len(r)] = t
      /\ \A i \in 1 .. Len(s) : r[i] = s[i]
  OBVIOUS
<1>2. /\ Len(r) \in 1 .. Len(r)
      /\ \A i \in 1 .. Len(r) : i = Len(r) \/ (i \in 1 .. Len(s) /\ i < Len(r))
      /\ \A i \in 1 .. Len(s) : i \in 1 .. Len(r)
  BY <1>1
<1> HIDE DEF r
<1>3. ASSUME Updates(t, kind) PROVE Has(r, kind) /\ LastIs(r, kind, KeysOf(t))
  <2>1. Has(r, kind)
    BY <1>1, <1>2, <1>3 DEF Has
  <2>2. \A i \in 1 .. Len(r) : Updates(r[i], kind)
             /\ (\A j \in 1 .. Len(r) : i < j => ~Updates(r[j], kind)) => r[i] = t
    BY <1>1, <1>2, <1>3
  <2> QED
    BY <2>1, <2>2 DEF LastIs
<1>4. ASSUME ~Updates(t, kind) PROVE Has(r, kind) <=> Has(s, kind)
  BY <1>1, <1>2, <1>4 DEF Has
<1>5. ASSUME ~Updates(t, kind), NEW keys, LastIs(s, kind, keys) PROVE LastIs(r, kind, keys)
  <2> SUFFICES ASSUME NEW i \in 1 .. Len(r), Updates(r[i], kind),
                      \A j \in 1 .. Len(r) : i < j => ~Updates(r[j], kind)
               PROVE  KeysOf(r[i]) = keys
    BY DEF LastIs
  <2>1. i \in 1 .. Len(s) /\ r[i] = s[i]
    BY <1>1, <1>2, <1>5
  <2>2. \A j \in 1 .. Len(s) : i < j => ~Updates(s[j], kind)
    BY <1>1, <1>2
  <2> QED
    BY <1>5, <2>1, <2>2 DEF LastIs
<1> QED
  BY <1>3, <1>4, <1>5 DEF r

LEMMA TailUpdates ==
  ASSUME NEW S, NEW s \in Seq(S), s # <<>>, NEW kind
  PROVE  /\ \A keys : LastIs(s, kind, keys) => LastIs(Tail(s), kind, keys)
         /\ ~Updates(Head(s), kind) => (Has(Tail(s), kind) <=> Has(s, kind))
         /\ ~Has(Tail(s), kind) /\ Updates(Head(s), kind)
              => Has(s, kind) /\ \A keys : LastIs(s, kind, keys) => KeysOf(Head(s)) = keys
<1> DEFINE r == Tail(s)
<1>1. /\ Len(s) \in Nat /\ Len(s) > 0 /\ Len(r) = Len(s) - 1 /\ Head(s) = s[1]
      /\ \A i \in 1 .. Len(r) : r[i] = s[i + 1]
  OBVIOUS
<1> HIDE DEF r
<1>2. /\ 1 \in 1 .. Len(s)
      /\ \A i \in 1 .. Len(s) : i = 1 \/ (i - 1 \in 1 .. Len(r) /\ s[i] = r[i - 1])
      /\ \A i \in 1 .. Len(r) : i + 1 \in 1 .. Len(s)
  <2>1. \A i \in 1 .. Len(s) : i = 1 \/ (i - 1 \in 1 .. Len(r) /\ (i - 1) + 1 = i)
    BY <1>1
  <2> QED
    BY <1>1, <2>1
<1>3. ASSUME NEW keys, LastIs(s, kind, keys) PROVE LastIs(r, kind, keys)
  <2> SUFFICES ASSUME NEW i \in 1 .. Len(r), Updates(r[i], kind),
                      \A j \in 1 .. Len(r) : i < j => ~Updates(r[j], kind)
               PROVE  KeysOf(r[i]) = keys
    BY DEF LastIs
  <2>1. i + 1 \in 1 .. Len(s) /\ r[i] = s[i + 1]
    BY <1>1, <1>2
  <2>2. ASSUME NEW j \in 1 .. Len(s), i + 1 < j PROVE ~Updates(s[j], kind)
    <3>1. j - 1 \in 1 .. Len(r) /\ s[j] = r[j - 1] /\ i < j - 1
      BY <1>1, <1>2, <2>2
    <3> QED
      BY <3>1
  <2> QED
    BY <1>3, <2>1, <2>2 DEF LastIs
<1>4. ASSUME ~Updates(Head(s), kind) PROVE Has(r, kind) <=> Has(s, kind)
  BY <1>1, <1>2, <1>4 DEF Has
<1>5. ASSUME ~Has(r, kind), Updates(Head(s), kind) PROVE Has(s, kind)
  BY <1>1, <1>2, <1>5 DEF Has
<1>6. ASSUME ~Has(r, kind), Updates(Head(s), kind), NEW keys, LastIs(s, kind, keys)
      PROVE  KeysOf(Head(s)) = keys
  <2>1. \A j \in 1 .. Len(s) : 1 < j => ~Updates(s[j], kind)
    BY <1>1, <1>2, <1>6 DEF Has
  <2> QED
    BY <1>1, <1>2, <1>6, <2>1 DEF LastIs
<1> QED
  BY <1>3, <1>4, <1>5, <1>6 DEF r

\* A queue without an update says nothing about a kind.
LEMMA NoUpdates ==
  ASSUME NEW s, NEW kind, ~Has(s, kind), NEW keys
  PROVE  LastIs(s, kind, keys)
  BY DEF Has, LastIs

LEMMA EmptyHasNone ==
  ASSUME NEW kind
  PROVE  ~Has(<<>>, kind)
  BY DEF Has

(***************************************************************************)
(* Tasks.                                                                  *)
(***************************************************************************)
LEMMA QueueTaskFacts ==
  ASSUME NEW t \in QueueTask
  PROVE  /\ t.type \in {"report", "reset", "run_terminate", "run_initialize", "opened",
                        "initialize"}
         /\ t.owner = "entry" <=> t.type \in {"run_initialize", "run_terminate"}
         /\ t.type = "report" => t.arg.kind \in Kind /\ t.arg.keys \in SUBSET Key
         /\ t.owner = "entry" => \A kind : ~Updates(t, kind)
         /\ t.type \in {"opened", "initialize"} => \A kind : ~Updates(t, kind)
  BY DEF QueueTask, Request, Task, Updates

LEMMA RequestFacts ==
  ASSUME NEW r \in Request
  PROVE  /\ Task(r.type, r.arg) \in QueueTask
         /\ Task(r.type, r.arg).owner = "entry" =>
              /\ r.type \in {"run_initialize", "run_terminate"}
              /\ \A kind : ~Updates(r, kind)
         /\ KeysOf(Task(r.type, r.arg)) = KeysOf(r)
         /\ \A kind : Updates(Task(r.type, r.arg), kind) <=> Updates(r, kind)
<1>1. Task(r.type, r.arg) \in QueueTask
  BY DEF QueueTask
<1>2. Task(r.type, r.arg).type = r.type /\ Task(r.type, r.arg).arg = r.arg
  BY DEF Task
<1>3. Task(r.type, r.arg).owner = "entry" => r.type \in {"run_initialize", "run_terminate"}
  BY DEF Task
<1> QED
  BY <1>1, <1>2, <1>3 DEF KeysOf, Updates

\* The entry's tasks do not update anything.
LEMMA EntryTasksFacts ==
  ASSUME NEW q \in Seq(QueueTask)
  PROVE  /\ EntryTasks(q) \in Seq(QueueTask)
         /\ \A i \in 1 .. Len(EntryTasks(q)) : EntryTasks(q)[i].owner = "entry"
         /\ \A kind : ~Has(EntryTasks(q), kind)
<1> DEFINE K == {i \in 1 .. Len(q) : q[i].owner = "entry"}
<1>1. /\ \A k \in K : k \in 1 .. Len(q)
      /\ \A k \in K : q[k].owner = "entry"
  OBVIOUS
<1> HIDE DEF K
<1>2. /\ SubseqAt(q, K) \in Seq(QueueTask) /\ Len(SubseqAt(q, K)) = Cardinality(K)
      /\ \E f \in [1 .. Cardinality(K) -> K] :
           \A i \in 1 .. Cardinality(K) : SubseqAt(q, K)[i] = q[f[i]]
  BY <1>1, SubseqAtFacts
<1>3. EntryTasks(q) = SubseqAt(q, K)
  BY DEF EntryTasks, K
<1>4. \A i \in 1 .. Len(EntryTasks(q)) : EntryTasks(q)[i].owner = "entry"
  BY <1>1, <1>2, <1>3
<1>5. \A i \in 1 .. Len(EntryTasks(q)) : EntryTasks(q)[i] \in QueueTask
  BY <1>2, <1>3
<1>6. \A kind : ~Has(EntryTasks(q), kind)
  BY <1>4, <1>5, QueueTaskFacts DEF Has
<1> QED
  BY <1>2, <1>3, <1>4, <1>6

(***************************************************************************)
(* The application.                                                        *)
(***************************************************************************)
LEMMA SameDeliveries ==
  ASSUME PathInv, UNCHANGED <<linked, wire, queue, posted, host, lost, fresh>>
  PROVE  Deliveries'
  BY DEF PathInv, Deliveries, Delivery

LEMMA SameLeds ==
  ASSUME PathInv, UNCHANGED leds
  PROVE  LedsRight'
  BY DEF PathInv, LedsRight, leds

LEMMA FillingStep ==
  ASSUME PathInv, UNCHANGED <<posted, linked, wire, daemon, driver, history>>
  PROVE  PathInv'
<1>1. /\ UNCHANGED <<posted, linked, wire, entry, client, check, queue, keyboard, host, lost,
                     fresh, failures>>
      /\ UNCHANGED leds
  BY DEF daemon, driver, history
<1>2. PathTypeOK' /\ Layers'
  BY <1>1 DEF PathInv, PathTypeOK, Layers
<1>3. Deliveries' /\ LedsRight'
  BY <1>1, SameDeliveries, SameLeds DEF PathInv, PathTypeOK
<1> QED
  BY <1>2, <1>3 DEF PathInv

\* A report of any set of keys is a request.
LEMMA ReportIsRequest ==
  ASSUME NEW kind \in Kind, NEW keys \in SUBSET Key
  PROVE  [type |-> "report", arg |-> [kind |-> kind, keys |-> keys]] \in Request
  BY DEF Request

\* A request goes to the end of the wire, if there is a connection.
LEMMA RequestStep ==
  ASSUME PathInv, NEW r \in Request, async_request(r),
         UNCHANGED <<linked, daemon, driver, failures, incidents, lost>>,
         posted' \in [Kind -> SUBSET Key], fresh' \subseteq Kind,
         ~InPlace => fresh' \subseteq fresh,
         \A kind \in Kind :
           \/ Updates(r, kind) /\ posted'[kind] = KeysOf(r)
           \/ /\ ~Updates(r, kind) /\ posted'[kind] = posted[kind]
              /\ kind \in fresh' => kind \in fresh
  PROVE  PathInv'
<1>1. /\ UNCHANGED <<linked, entry, client, check, queue, keyboard, host, lost, failures>>
      /\ UNCHANGED leds
      /\ wire' = IF linked THEN Append(wire, r) ELSE wire
  BY DEF daemon, driver, async_request
<1>2. PathTypeOK /\ Layers /\ Deliveries
  BY DEF PathInv
<1>3. wire \in Seq(Request) /\ Append(wire, r) \in Seq(Request)
  BY <1>2 DEF PathTypeOK
<1>4. PathTypeOK'
  BY <1>1, <1>2, <1>3 DEF PathTypeOK
<1>5. Layers'
  BY <1>1, <1>2 DEF Layers, InPlace, PathTypeOK
<1>6. Deliveries'
  <2> SUFFICES ASSUME linked, NEW kind \in Kind PROVE Delivery(kind)'
    BY <1>1 DEF Deliveries
  <2>1. wire' = Append(wire, r)
    BY <1>1
  <2>2. Delivery(kind)
    BY <1>2 DEF Deliveries
  <2>3. CASE Updates(r, kind) /\ posted'[kind] = KeysOf(r)
    <3>1. Has(wire', kind) /\ LastIs(wire', kind, posted'[kind])
      BY <1>3, <2>1, <2>3, AppendUpdates
    <3> QED
      BY <3>1 DEF Delivery
  <2>4. CASE /\ ~Updates(r, kind) /\ posted'[kind] = posted[kind]
             /\ kind \in fresh' => kind \in fresh
    <3>1. /\ Has(wire', kind) <=> Has(wire, kind)
          /\ LastIs(wire, kind, posted[kind]) => LastIs(wire', kind, posted[kind])
      BY <1>3, <2>1, <2>4, AppendUpdates
    <3> QED
      BY <1>1, <2>2, <2>4, <3>1 DEF Delivery
  <2> QED
    BY <2>3, <2>4
<1>7. LedsRight'
  BY <1>1, <1>2, SameLeds DEF PathTypeOK
<1> QED
  BY <1>4, <1>5, <1>6, <1>7 DEF PathInv

LEMMA PostStep ==
  ASSUME PathInv, KeysInv, NEW kind \in Kind, async_post_report(kind)
  PROVE  PathInv'
<1> DEFINE r == [type |-> "report", arg |-> [kind |-> kind, keys |-> Down(keys_)]]
<1>1. Down(keys_) \in SUBSET Key
  BY DEF KeysInv, Down, KeyValue
<1>2. r \in Request
  BY <1>1, ReportIsRequest
<1>3. /\ async_request(r)
      /\ UNCHANGED <<linked, daemon, driver, failures, incidents, lost>>
      /\ posted' = [posted EXCEPT ![kind] = Down(keys_)]
      /\ fresh' = IF InPlace THEN fresh \cup {kind} ELSE fresh \ {kind}
  BY DEF async_post_report
<1>4. posted \in [Kind -> SUBSET Key] /\ fresh \subseteq Kind
  BY DEF PathInv, PathTypeOK
<1>5. /\ posted' \in [Kind -> SUBSET Key] /\ fresh' \subseteq Kind
      /\ ~InPlace => fresh' \subseteq fresh
  BY <1>1, <1>3, <1>4
<1>6. KeysOf(r) = Down(keys_) /\ \A k \in Kind : Updates(r, k) <=> k = kind
  BY DEF KeysOf, Updates
<1>7. \A k \in Kind :
        \/ Updates(r, k) /\ posted'[k] = KeysOf(r)
        \/ ~Updates(r, k) /\ posted'[k] = posted[k] /\ (k \in fresh' => k \in fresh)
  BY <1>3, <1>4, <1>6
<1> HIDE DEF r
<1> QED
  BY <1>2, <1>3, <1>5, <1>7, RequestStep

LEMMA ResetRequestStep ==
  ASSUME PathInv, async_reset
  PROVE  PathInv'
<1> DEFINE r == [type |-> "reset", arg |-> {}]
<1>1. r \in Request
  BY DEF Request
<1>2. /\ async_request(r)
      /\ UNCHANGED <<linked, daemon, driver, failures, incidents, lost>>
      /\ posted' = NoKeys
      /\ fresh' = IF InPlace THEN Kind ELSE {}
  BY DEF async_reset
<1>3. /\ posted' \in [Kind -> SUBSET Key] /\ fresh' \subseteq Kind
      /\ ~InPlace => fresh' \subseteq fresh
  BY <1>2 DEF NoKeys
<1>4. \A k \in Kind : Updates(r, k) /\ posted'[k] = KeysOf(r)
  BY <1>2 DEF NoKeys, KeysOf, Updates
<1> HIDE DEF r
<1> QED
  BY <1>1, <1>2, <1>3, <1>4, RequestStep

LEMMA OtherRequestStep ==
  ASSUME PathInv, async_terminate \/ \E p \in Param : async_initialize(p)
  PROVE  PathInv'
<1>1. PICK r \in Request :
        /\ async_request(r) /\ r.type \in {"run_initialize", "run_terminate"}
  <2>1. CASE async_terminate
    <3>1. [type |-> "run_terminate", arg |-> {}] \in Request
      BY DEF Request
    <3> QED
      BY <2>1, <3>1 DEF async_terminate
  <2>2. ASSUME NEW p \in Param, async_initialize(p)
        PROVE  \E r \in Request :
                 async_request(r) /\ r.type \in {"run_initialize", "run_terminate"}
    <3>1. [type |-> "run_initialize", arg |-> p] \in Request
      BY DEF Request
    <3> QED
      BY <2>2, <3>1 DEF async_initialize
  <2> QED
    BY <2>1, <2>2
<1>2. /\ UNCHANGED <<linked, daemon, driver, failures, incidents, lost>>
      /\ posted' = posted /\ fresh' = fresh
  BY DEF async_terminate, async_initialize, history
<1>3. posted' \in [Kind -> SUBSET Key] /\ fresh' \subseteq Kind
  BY <1>2 DEF PathInv, PathTypeOK
<1>4. \A k \in Kind : ~Updates(r, k) /\ posted'[k] = posted[k] /\ (k \in fresh' => k \in fresh)
  BY <1>1, <1>2 DEF Updates
<1> QED
  BY <1>1, <1>2, <1>3, <1>4, RequestStep

(***************************************************************************)
(* The keyboard goes away.  The system releases its keys, so nothing that  *)
(* was posted can be stuck.                                                *)
(***************************************************************************)
LEMMA GoneFacts ==
  ASSUME PathInv, KeyboardGone, UNCHANGED <<wire, posted>>, linked' => linked,
         \A kind \in Kind : ~Has(queue', kind) \/ queue' = queue
  PROVE  Deliveries' /\ LedsRight' /\ host' = NoKeys /\ fresh' = {} /\ keyboard' = "none"
<1>1. /\ host' = NoKeys /\ fresh' = {} /\ keyboard' = "none"
      /\ lastLedState' = 0 /\ led_posted' = 0 /\ led_set' = 0 /\ led_lost' = FALSE
  BY DEF KeyboardGone
<1>2. Deliveries'
  <2> SUFFICES ASSUME linked, NEW kind \in Kind PROVE Delivery(kind)'
    BY DEF Deliveries
  <2>1. Delivery(kind)
    BY DEF PathInv, Deliveries
  <2>2. LastIs(wire, kind, posted[kind])' /\ (Has(wire, kind)' <=> Has(wire, kind))
    BY <2>1 DEF Delivery
  <2>3. ~Has(wire, kind) => LastIs(queue', kind, posted'[kind])
    BY <2>1, NoUpdates DEF Delivery
  <2>4. host'[kind] = {}
    BY <1>1 DEF NoKeys
  <2> QED
    BY <1>1, <2>2, <2>3, <2>4 DEF Delivery
<1>3. LedsRight'
  BY <1>1 DEF LedsRight
<1> QED
  BY <1>1, <1>2, <1>3

LEMMA EmptyTypes ==
  /\ NoKeys \in [Kind -> SUBSET Key]
  /\ <<>> \in Seq(Request) /\ <<>> \in Seq(QueueTask)
  BY DEF NoKeys

LEMMA ConnectionLost ==
  ASSUME PathInv, connection_lost
  PROVE  PathInv'
<1>1. /\ linked' = FALSE /\ wire' = <<>> /\ fresh' = {}
      /\ UNCHANGED <<posted, entry, client, check, queue, keyboard, host, failures>>
      /\ UNCHANGED leds
  BY DEF connection_lost, application, daemon, driver
<1>2. PathTypeOK'
  BY <1>1, EmptyTypes DEF PathInv, PathTypeOK
<1>3. Layers' /\ LedsRight'
  BY <1>1, SameLeds DEF PathInv, PathTypeOK, Layers
<1>4. Deliveries'
  BY <1>1 DEF Deliveries
<1> QED
  BY <1>2, <1>3, <1>4 DEF PathInv

LEMMA PeerClosed ==
  ASSUME PathInv, peer_closed
  PROVE  PathInv'
<1>1. /\ ~linked /\ entry' = FALSE /\ client' = "none" /\ check' = FALSE /\ queue' = <<>>
      /\ KeyboardGone
      /\ UNCHANGED <<posted, linked, wire, failures>>
  BY DEF peer_closed, application
<1>2. Deliveries' /\ LedsRight' /\ host' = NoKeys /\ fresh' = {} /\ keyboard' = "none"
  BY <1>1, GoneFacts, EmptyHasNone
<1>3. PathTypeOK'
  BY <1>1, <1>2, EmptyTypes DEF PathInv, PathTypeOK
<1>4. Layers'
  BY <1>1, <1>2 DEF PathInv, Layers
<1> QED
  BY <1>2, <1>3, <1>4 DEF PathInv

LEMMA Connected ==
  ASSUME PathInv, connected
  PROVE  PathInv'
<1>1. /\ ~linked /\ ~entry /\ linked' = TRUE /\ entry' = TRUE
      /\ UNCHANGED <<posted, wire, client, check, queue, keyboard, host, lost, fresh, failures>>
      /\ UNCHANGED leds
  BY DEF connected, application, driver, history
<1>2. wire = <<>> /\ queue = <<>> /\ fresh = {} /\ host = NoKeys
  BY <1>1 DEF PathInv, Layers
<1>3. PathTypeOK' /\ Layers'
  BY <1>1, <1>2 DEF PathInv, PathTypeOK, Layers
<1>4. LedsRight'
  BY <1>1, SameLeds DEF PathInv, PathTypeOK
<1>5. Deliveries'
  <2> SUFFICES ASSUME NEW kind \in Kind PROVE Delivery(kind)'
    BY DEF Deliveries
  <2>1. ~Has(wire, kind)' /\ ~Has(queue, kind)'
    BY <1>1, <1>2, EmptyHasNone
  <2>2. host'[kind] = {}
    BY <1>1, <1>2 DEF NoKeys
  <2> QED
    BY <1>1, <1>2, <2>1, <2>2, NoUpdates DEF Delivery
<1> QED
  BY <1>3, <1>4, <1>5 DEF PathInv

(***************************************************************************)
(* The daemon.                                                             *)
(***************************************************************************)
\* A request that is dropped finds no client, and so no keyboard and no report
\* in the queue.
LEMMA RequestReceived ==
  ASSUME PathInv, request_received
  PROVE  PathInv'
<1> DEFINE r == Head(wire)
           task == Task(r.type, r.arg)
<1>1. /\ wire # <<>> /\ wire' = Tail(wire)
      /\ queue' = IF task.owner = "entry" \/ client # "none" THEN Append(queue, task) ELSE queue
      /\ UNCHANGED <<posted, linked, entry, client, check, keyboard, host, lost, fresh, failures>>
      /\ UNCHANGED leds
  BY DEF request_received, post_report, application, driver, history
<1>2. PathTypeOK /\ Layers /\ Deliveries
  BY DEF PathInv
<1>3. /\ wire \in Seq(Request) /\ r \in Request /\ Tail(wire) \in Seq(Request)
      /\ queue \in Seq(QueueTask)
  BY <1>1, <1>2 DEF PathTypeOK
<1> HIDE DEF r
<1>4. /\ task \in QueueTask
      /\ task.owner = "entry" => \A kind : ~Updates(r, kind)
      /\ KeysOf(task) = KeysOf(r)
      /\ \A kind : Updates(task, kind) <=> Updates(r, kind)
  BY <1>3, RequestFacts
<1> HIDE DEF task
<1>5. Append(queue, task) \in Seq(QueueTask)
  BY <1>3, <1>4
<1>6. PathTypeOK'
  BY <1>1, <1>2, <1>3, <1>5 DEF PathTypeOK
<1>7. linked /\ entry
  BY <1>1, <1>2 DEF Layers
<1>8. Layers'
  <2>1. ASSUME client = "none", NEW i \in 1 .. Len(queue') PROVE queue'[i].owner = "entry"
    <3>1. \A j \in 1 .. Len(queue) : queue[j].owner = "entry"
      BY <1>2, <2>1 DEF Layers
    <3>2. CASE queue' = queue
      BY <2>1, <3>1, <3>2
    <3>3. CASE queue' = Append(queue, task) /\ task.owner = "entry"
      BY <1>3, <1>4, <2>1, <3>1, <3>3
    <3> QED
      BY <1>1, <2>1, <3>2, <3>3
  <2> QED
    BY <1>1, <1>2, <1>7, <2>1 DEF Layers
<1>9. Deliveries'
  <2> SUFFICES ASSUME NEW kind \in Kind PROVE Delivery(kind)'
    BY DEF Deliveries
  <2>1. Delivery(kind) /\ LastIs(wire, kind, posted[kind])
    BY <1>2, <1>7 DEF Deliveries, Delivery
  <2>2. LastIs(wire', kind, posted'[kind])
    BY <1>1, <1>3, <2>1, TailUpdates
  <2>3. CASE ~Updates(r, kind)
    <3>1. Has(wire', kind) <=> Has(wire, kind)
      BY <1>1, <1>3, <2>3, TailUpdates DEF r
    <3>2. /\ Has(Append(queue, task), kind) <=> Has(queue, kind)
          /\ LastIs(queue, kind, posted[kind]) => LastIs(Append(queue, task), kind, posted[kind])
      BY <1>3, <1>4, <2>3, AppendUpdates
    <3>3. queue' \in {queue, Append(queue, task)}
      BY <1>1
    <3> QED
      BY <1>1, <2>1, <2>2, <3>1, <3>2, <3>3 DEF Delivery
  <2>4. CASE Updates(r, kind) /\ Has(wire', kind)
    BY <2>2, <2>4 DEF Delivery
  <2>5. CASE Updates(r, kind) /\ ~Has(wire', kind)
    <3>1. KeysOf(r) = posted[kind]
      BY <1>1, <1>3, <2>1, <2>5, TailUpdates DEF r
    <3>2. CASE client # "none"
      <4>1. queue' = Append(queue, task)
        BY <1>1, <3>2
      <4>2. Has(queue', kind) /\ LastIs(queue', kind, posted'[kind])
        BY <1>1, <1>3, <1>4, <2>5, <3>1, <4>1, AppendUpdates
      <4> QED
        BY <2>2, <4>2 DEF Delivery
    <3>3. CASE client = "none"
      <4>1. task.owner # "entry"
        BY <1>4, <2>5
      <4>2. queue' = queue
        BY <1>1, <3>3, <4>1
      <4>3. ~Has(queue, kind)
        <5>1. \A i \in 1 .. Len(queue) : queue[i].owner = "entry" /\ queue[i] \in QueueTask
          BY <1>2, <1>3, <3>3 DEF Layers
        <5> QED
          BY <5>1, QueueTaskFacts DEF Has
      <4>4. host[kind] = {} /\ fresh = {}
        BY <1>2, <3>3 DEF Layers, NoKeys
      <4> QED
        BY <1>1, <2>2, <4>2, <4>3, <4>4, NoUpdates DEF Delivery
    <3> QED
      BY <3>2, <3>3
  <2> QED
    BY <2>3, <2>4, <2>5
<1>10. LedsRight'
  BY <1>1, <1>2, SameLeds DEF PathTypeOK
<1> QED
  BY <1>6, <1>8, <1>9, <1>10 DEF PathInv

\* The client is destroyed, and another one may take its place.
LEMMA ClientGone ==
  ASSUME PathInv, KeyboardGone, queue # <<>>, queue' = EntryTasks(Tail(queue)),
         client' \in {"none", "closed"}, check' \in BOOLEAN, client' = "none" => ~check',
         UNCHANGED <<posted, linked, wire, entry, failures>>
  PROVE  PathInv'
<1>1. PathTypeOK /\ Layers /\ queue \in Seq(QueueTask)
  BY DEF PathInv, PathTypeOK
<1>2. Tail(queue) \in Seq(QueueTask)
  BY <1>1
<1>3. /\ queue' \in Seq(QueueTask)
      /\ \A i \in 1 .. Len(queue') : queue'[i].owner = "entry"
      /\ \A kind : ~Has(queue', kind)
  BY <1>2, EntryTasksFacts
<1>4. Deliveries' /\ LedsRight' /\ host' = NoKeys /\ fresh' = {} /\ keyboard' = "none"
  BY <1>3, GoneFacts
<1>5. PathTypeOK'
  BY <1>1, <1>3, <1>4, EmptyTypes DEF PathTypeOK
<1>6. Layers'
  BY <1>1, <1>3, <1>4 DEF Layers
<1> QED
  BY <1>4, <1>5, <1>6 DEF PathInv

\* A task that updates nothing is taken from the queue, or put into it by a
\* client.
LEMMA OtherTask ==
  ASSUME PathInv, queue' \in Seq(QueueTask), client' \in {"none", "closed", "open"},
         client' = "none" <=> client = "none", client # "open" \/ client' = client,
         \A kind : (Has(queue', kind) <=> Has(queue, kind))
                   /\ \A keys : LastIs(queue, kind, keys) => LastIs(queue', kind, keys),
         ~entry => queue' = <<>>,
         client = "none" => \A i \in 1 .. Len(queue') : queue'[i].owner = "entry",
         UNCHANGED <<posted, linked, wire, entry, check, keyboard, host, lost, fresh, failures>>,
         UNCHANGED leds
  PROVE  PathInv'
<1>1. PathTypeOK /\ Layers
  BY DEF PathInv
<1>2. PathTypeOK' /\ Layers'
  BY <1>1 DEF PathTypeOK, Layers
<1>3. Deliveries'
  <2> SUFFICES ASSUME linked, NEW kind \in Kind PROVE Delivery(kind)'
    BY DEF Deliveries
  <2>1. Delivery(kind)
    BY DEF PathInv, Deliveries
  <2> QED
    BY <2>1 DEF Delivery
<1>4. LedsRight'
  BY <1>1, SameLeds DEF PathTypeOK
<1> QED
  BY <1>2, <1>3, <1>4 DEF PathInv

LEMMA TaskTaken ==
  ASSUME PathTypeOK, Layers, NEW type, HasTask(type)
  PROVE  /\ queue \in Seq(QueueTask) /\ queue # <<>> /\ entry
         /\ Head(queue) \in QueueTask /\ Head(queue).type = type
         /\ Tail(queue) \in Seq(QueueTask)
         /\ client = "none" => Head(queue).owner = "entry"
                               /\ \A i \in 1 .. Len(Tail(queue)) : Tail(queue)[i].owner = "entry"
<1>1. queue \in Seq(QueueTask) /\ queue # <<>> /\ entry
  BY DEF PathTypeOK, HasTask, Layers
<1>2. /\ Head(queue) \in QueueTask /\ Head(queue).type = type /\ Tail(queue) \in Seq(QueueTask)
      /\ Head(queue) = queue[1] /\ 1 \in 1 .. Len(queue)
      /\ \A i \in 1 .. Len(Tail(queue)) : Tail(queue)[i] = queue[i + 1] /\ i + 1 \in 1 .. Len(queue)
  BY <1>1 DEF HasTask
<1>3. client = "none" => \A i \in 1 .. Len(queue) : queue[i].owner = "entry"
  BY DEF Layers
<1> QED
  BY <1>1, <1>2, <1>3

LEMMA RunInitialize ==
  ASSUME PathInv, run_initialize
  PROVE  PathInv'
<1>1. HasTask("run_initialize") /\ UNCHANGED <<posted, linked, wire, entry, failures>>
  BY DEF run_initialize, application
<1>2. PathTypeOK /\ Layers
  BY DEF PathInv
<1>3. /\ queue \in Seq(QueueTask) /\ queue # <<>> /\ entry
      /\ Head(queue) \in QueueTask /\ Head(queue).type = "run_initialize"
      /\ Tail(queue) \in Seq(QueueTask)
      /\ client = "none" => \A i \in 1 .. Len(Tail(queue)) : Tail(queue)[i].owner = "entry"
  BY <1>1, <1>2, TaskTaken
<1>4. CASE Replaced
  BY <1>1, <1>3, <1>4, ClientGone DEF Replaced
<1>5. CASE /\ queue' = Tail(queue)
           /\ UNCHANGED <<client, check, driver, lost, fresh>>
  <2>1. /\ UNCHANGED <<client, check, keyboard, host, lost, fresh>> /\ UNCHANGED leds
        /\ queue' = Tail(queue)
    BY <1>5 DEF driver
  <2>2. \A kind : ~Updates(Head(queue), kind)
    BY <1>3 DEF Updates
  <2>3. \A kind : (Has(queue', kind) <=> Has(queue, kind))
                  /\ \A keys : LastIs(queue, kind, keys) => LastIs(queue', kind, keys)
    BY <1>3, <2>1, <2>2, TailUpdates
  <2> QED
    BY <1>1, <1>2, <1>3, <2>1, <2>3, OtherTask DEF PathTypeOK
<1> QED
  BY <1>4, <1>5 DEF run_initialize

LEMMA RunTerminate ==
  ASSUME PathInv, run_terminate
  PROVE  PathInv'
  BY ClientGone DEF run_terminate, application, HasTask

LEMMA ReadinessCheck ==
  ASSUME PathInv, readiness_check
  PROVE  PathInv'
<1>1. PathTypeOK /\ Layers
  BY DEF PathInv
<1>2. /\ check /\ queue = <<>> /\ UNCHANGED <<posted, linked, wire, entry, failures, queue>>
  BY DEF readiness_check, application
<1>3. client # "none" /\ entry
  BY <1>1, <1>2 DEF Layers
<1>4. CASE client' = "closed" /\ KeyboardGone /\ UNCHANGED <<check, queue>>
  <2>1. Deliveries' /\ LedsRight' /\ host' = NoKeys /\ fresh' = {} /\ keyboard' = "none"
    BY <1>2, <1>4, GoneFacts
  <2>2. PathTypeOK'
    BY <1>1, <1>2, <1>4, <2>1, EmptyTypes DEF PathTypeOK
  <2>3. Layers'
    BY <1>1, <1>2, <1>3, <1>4, <2>1 DEF Layers
  <2> QED
    BY <2>1, <2>2, <2>3 DEF PathInv
<1>5. CASE check' = FALSE /\ UNCHANGED <<client, queue, incidents, driver, lost, fresh>>
  <2>1. UNCHANGED <<client, queue, keyboard, host, lost, fresh>> /\ UNCHANGED leds
    BY <1>5 DEF driver
  <2>2. PathTypeOK' /\ Layers'
    BY <1>1, <1>2, <1>5, <2>1 DEF PathTypeOK, Layers
  <2>3. Deliveries' /\ LedsRight'
    BY <1>1, <1>2, <2>1, SameDeliveries, SameLeds DEF PathTypeOK
  <2> QED
    BY <2>2, <2>3 DEF PathInv
<1> QED
  BY <1>4, <1>5 DEF readiness_check

LEMMA ClientOpens ==
  ASSUME PathInv, client_opens
  PROVE  PathInv'
<1> DEFINE t == Task("opened", {})
<1>1. /\ client = "closed" /\ client' = "open" /\ queue' = Append(queue, t)
      /\ UNCHANGED <<posted, linked, wire, entry, check, keyboard, host, lost, fresh, failures>>
      /\ UNCHANGED leds
  BY DEF client_opens, application, driver, history
<1>2. PathTypeOK /\ Layers /\ queue \in Seq(QueueTask)
  BY DEF PathInv, PathTypeOK
<1>3. t \in QueueTask /\ \A kind : ~Updates(t, kind)
  BY DEF QueueTask, Updates, Task
<1> HIDE DEF t
<1>4. queue' \in Seq(QueueTask)
  BY <1>1, <1>2, <1>3
<1>5. \A kind : (Has(queue', kind) <=> Has(queue, kind))
                /\ \A keys : LastIs(queue, kind, keys) => LastIs(queue', kind, keys)
  BY <1>1, <1>2, <1>3, AppendUpdates
<1>6. entry
  BY <1>1, <1>2 DEF Layers
<1> QED
  BY <1>1, <1>4, <1>5, <1>6, OtherTask

LEMMA RunOpened ==
  ASSUME PathInv, run_opened
  PROVE  PathInv'
<1> DEFINE t == Task("initialize", {})
<1>1. /\ HasTask("opened") /\ queue' = Append(Tail(queue), t)
      /\ UNCHANGED <<posted, linked, wire, entry, client, check, keyboard, host, lost, fresh,
                     failures>>
      /\ UNCHANGED leds
  BY DEF run_opened, application, driver, history
<1>2. PathTypeOK /\ Layers
  BY DEF PathInv
<1>3. /\ queue \in Seq(QueueTask) /\ queue # <<>> /\ entry
      /\ Head(queue) \in QueueTask /\ Head(queue).type = "opened"
      /\ Tail(queue) \in Seq(QueueTask)
      /\ client = "none" => Head(queue).owner = "entry"
  BY <1>1, <1>2, TaskTaken
<1>4. client # "none" /\ \A kind : ~Updates(Head(queue), kind)
  BY <1>3, QueueTaskFacts
<1>5. t \in QueueTask /\ \A kind : ~Updates(t, kind)
  BY DEF QueueTask, Updates, Task
<1> HIDE DEF t
<1>6. queue' \in Seq(QueueTask)
  BY <1>1, <1>3, <1>5
<1>7. \A kind : (Has(Tail(queue), kind) <=> Has(queue, kind))
                /\ \A keys : LastIs(queue, kind, keys) => LastIs(Tail(queue), kind, keys)
  BY <1>3, <1>4, TailUpdates
<1>8. \A kind : (Has(queue', kind) <=> Has(Tail(queue), kind))
                /\ \A keys : LastIs(Tail(queue), kind, keys) => LastIs(queue', kind, keys)
  BY <1>1, <1>3, <1>5, AppendUpdates
<1>9. client' \in {"none", "closed", "open"}
  BY <1>1, <1>2 DEF PathTypeOK
<1> QED
  BY <1>1, <1>3, <1>4, <1>6, <1>7, <1>8, <1>9, OtherTask

LEMMA DriverDies ==
  ASSUME PathInv, driver_dies
  PROVE  PathInv'
<1>1. /\ client = "open" /\ client' = "closed" /\ KeyboardGone
      /\ UNCHANGED <<posted, linked, wire, entry, check, queue, failures>>
  BY DEF driver_dies, application
<1>2. PathTypeOK /\ Layers
  BY DEF PathInv
<1>3. Deliveries' /\ LedsRight' /\ host' = NoKeys /\ fresh' = {} /\ keyboard' = "none"
  BY <1>1, GoneFacts
<1>4. PathTypeOK'
  BY <1>1, <1>2, <1>3, EmptyTypes DEF PathTypeOK
<1>5. Layers'
  BY <1>1, <1>2, <1>3 DEF Layers
<1> QED
  BY <1>3, <1>4, <1>5 DEF PathInv

(***************************************************************************)
(* The driver.                                                             *)
(***************************************************************************)
LEMMA KeyboardInitialize ==
  ASSUME PathInv, keyboard_initialize
  PROVE  PathInv'
<1>1. /\ HasTask("initialize") /\ queue' = Tail(queue)
      /\ keyboard' = IF client = "open" /\ keyboard = "none" THEN "created" ELSE keyboard
      /\ UNCHANGED <<posted, linked, wire, entry, client, check, host, lost, fresh, failures>>
      /\ UNCHANGED leds
  BY DEF keyboard_initialize, application, history
<1>2. PathTypeOK /\ Layers
  BY DEF PathInv
<1>3. /\ queue \in Seq(QueueTask) /\ queue # <<>> /\ entry
      /\ Head(queue) \in QueueTask /\ Head(queue).type = "initialize"
      /\ Tail(queue) \in Seq(QueueTask)
      /\ client = "none" => \A i \in 1 .. Len(Tail(queue)) : Tail(queue)[i].owner = "entry"
  BY <1>1, <1>2, TaskTaken
<1>4. \A kind : ~Updates(Head(queue), kind)
  BY <1>3, QueueTaskFacts
<1>5. \A kind : (Has(queue', kind) <=> Has(queue, kind))
                /\ \A keys : LastIs(queue, kind, keys) => LastIs(queue', kind, keys)
  BY <1>1, <1>3, <1>4, TailUpdates
<1>6. PathTypeOK'
  BY <1>1, <1>2, <1>3 DEF PathTypeOK
<1>7. Layers'
  BY <1>1, <1>2, <1>3 DEF Layers
<1>8. Deliveries'
  <2> SUFFICES ASSUME linked, NEW kind \in Kind PROVE Delivery(kind)'
    BY <1>1 DEF Deliveries
  <2>1. Delivery(kind)
    BY DEF PathInv, Deliveries
  <2> QED
    BY <1>1, <1>5, <2>1 DEF Delivery
<1>9. LedsRight'
  BY <1>1, <1>2, SameLeds DEF PathTypeOK
<1> QED
  BY <1>6, <1>7, <1>8, <1>9 DEF PathInv

LEMMA HandleStart ==
  ASSUME PathInv, handleStart
  PROVE  PathInv'
<1>1. /\ keyboard = "created" /\ keyboard' = "ready"
      /\ UNCHANGED <<posted, linked, wire, entry, client, check, queue, host, lost, fresh,
                     failures>>
      /\ UNCHANGED leds
  BY DEF handleStart, application, daemon, history
<1>2. PathTypeOK' /\ Layers'
  BY <1>1 DEF PathInv, PathTypeOK, Layers
<1>3. Deliveries' /\ LedsRight'
  BY <1>1, SameDeliveries, SameLeds DEF PathInv, PathTypeOK
<1> QED
  BY <1>2, <1>3 DEF PathInv

LEMMA SetReport ==
  ASSUME PathInv, NEW state \in Led, setReport(state)
  PROVE  PathInv'
<1>1. /\ UNCHANGED <<posted, linked, wire, entry, client, check, queue, keyboard, host, lost,
                     fresh>>
      /\ led_set' = state
      /\ \/ state = lastLedState /\ UNCHANGED <<lastLedState, led_posted, led_lost, failures>>
         \/ /\ lastLedState' = state /\ led_posted' = state /\ led_lost' = FALSE
            /\ UNCHANGED failures
         \/ lastLedState' = state /\ led_lost' = TRUE /\ failures' = failures + 1
  BY DEF setReport, application, daemon, StoredLed, createWithBytes_fails
<1>2. PathTypeOK' /\ Layers'
  BY <1>1 DEF PathInv, PathTypeOK, Layers
<1>3. Deliveries'
  BY <1>1, SameDeliveries
<1>4. LedsRight'
  BY <1>1 DEF PathInv, PathTypeOK, LedsRight
<1> QED
  BY <1>2, <1>3, <1>4 DEF PathInv

\* An update is taken from the queue: what it does to the kinds that it is about
\* is what is left to show.
LEMMA UpdateTaken ==
  ASSUME PathInv, NEW type \in {"report", "reset"}, Posting(type),
         host' \in [Kind -> SUBSET Key], keyboard # "ready" => host' = host,
         failures' \in Nat, failures' >= failures,
         \A kind \in Kind :
           IF Updates(Head(queue), kind)
             THEN \/ kind \in lost'
                  \/ host'[kind] = KeysOf(Head(queue))
                  \/ host'[kind] = {} /\ fresh = {}
             ELSE host'[kind] = host[kind] /\ (kind \in lost => kind \in lost')
  PROVE  PathInv'
<1>1. /\ HasTask(type) /\ queue' = Tail(queue)
      /\ UNCHANGED <<posted, linked, wire, entry, client, check, keyboard, fresh>>
      /\ UNCHANGED leds
  BY DEF Posting, application
<1>2. PathTypeOK /\ Layers /\ Deliveries
  BY DEF PathInv
<1>3. /\ queue \in Seq(QueueTask) /\ queue # <<>> /\ entry
      /\ Head(queue) \in QueueTask /\ Head(queue).type = type
      /\ Tail(queue) \in Seq(QueueTask)
      /\ client = "none" => \A i \in 1 .. Len(Tail(queue)) : Tail(queue)[i].owner = "entry"
  BY <1>1, <1>2, TaskTaken
<1>4. PathTypeOK' /\ Layers'
  <2>1. PathTypeOK'
    BY <1>1, <1>2, <1>3 DEF PathTypeOK
  <2> QED
    BY <1>1, <1>2, <1>3, <2>1 DEF Layers
<1>5. Deliveries'
  <2> SUFFICES ASSUME linked, NEW kind \in Kind PROVE Delivery(kind)'
    BY <1>1 DEF Deliveries
  <2>1. Delivery(kind)
    BY <1>2 DEF Deliveries
  <2>2. /\ LastIs(wire', kind, posted'[kind])
        /\ ~Has(wire', kind) => LastIs(queue', kind, posted'[kind])
    BY <1>1, <1>3, <2>1, TailUpdates DEF Delivery
  <2>3. CASE Has(wire, kind) \/ Has(queue', kind)
    BY <1>1, <2>2, <2>3 DEF Delivery
  <2>4. CASE ~Has(wire, kind) /\ ~Has(queue', kind) /\ ~Updates(Head(queue), kind)
    <3>1. ~Has(queue, kind)
      BY <1>1, <1>3, <2>4, TailUpdates
    <3> QED
      BY <1>1, <2>1, <2>2, <2>4, <3>1 DEF Delivery
  <2>5. CASE ~Has(wire, kind) /\ ~Has(queue', kind) /\ Updates(Head(queue), kind)
    <3>1. KeysOf(Head(queue)) = posted[kind]
      BY <1>1, <1>3, <2>1, <2>5, TailUpdates DEF Delivery
    <3> QED
      BY <1>1, <2>2, <2>5, <3>1 DEF Delivery
  <2> QED
    BY <2>3, <2>4, <2>5
<1>6. LedsRight'
  BY <1>1, <1>2, SameLeds DEF PathTypeOK
<1> QED
  BY <1>4, <1>5, <1>6 DEF PathInv

LEMMA Dropped ==
  ASSUME PathInv, dropped
  PROVE  PathInv'
<1>1. PICK type \in {"report", "reset"} : Posting(type)
  BY DEF dropped
<1>2. ~Postable /\ UNCHANGED <<host, lost, failures>>
  BY DEF dropped
<1>3. host = NoKeys /\ fresh = {} /\ host \in [Kind -> SUBSET Key] /\ failures \in Nat
  BY <1>2 DEF Postable, PathInv, PathTypeOK, Layers
<1>4. \A kind \in Kind : host'[kind] = {}
  BY <1>2, <1>3 DEF NoKeys
<1> QED
  BY <1>1, <1>2, <1>3, <1>4, UpdateTaken

LEMMA PostReport ==
  ASSUME PathInv, postReport
  PROVE  PathInv'
<1> DEFINE t == Head(queue)
<1>1. Posting("report") /\ Postable
  BY DEF postReport
<1>2. \/ host' = [host EXCEPT ![t.arg.kind] = t.arg.keys]
         /\ lost' = lost \ {t.arg.kind} /\ failures' = failures
      \/ host' = host /\ lost' = lost \cup {t.arg.kind} /\ failures' = failures + 1
  BY DEF postReport, Reported, createWithBytes_fails
<1>3. host \in [Kind -> SUBSET Key] /\ failures \in Nat
  BY DEF PathInv, PathTypeOK
<1>4. t \in QueueTask /\ t.type = "report"
  BY <1>1, TaskTaken DEF Posting, PathInv
<1>5. t.arg.kind \in Kind /\ t.arg.keys \in SUBSET Key
  BY <1>4, QueueTaskFacts
<1> HIDE DEF t
<1>6. KeysOf(t) = t.arg.keys /\ \A kind \in Kind : Updates(t, kind) <=> kind = t.arg.kind
  BY <1>4 DEF KeysOf, Updates
<1>7. /\ host' \in [Kind -> SUBSET Key] /\ failures' \in Nat /\ failures' >= failures
  BY <1>2, <1>3, <1>5
<1>8. \A kind \in Kind :
        IF Updates(t, kind) THEN kind \in lost' \/ host'[kind] = KeysOf(t)
                            ELSE host'[kind] = host[kind] /\ (kind \in lost => kind \in lost')
  BY <1>2, <1>3, <1>5, <1>6
<1>9. keyboard = "ready"
  BY <1>1 DEF Postable
<1> QED
  BY <1>1, <1>7, <1>8, <1>9, UpdateTaken DEF t

\* A reset that ends half-way leaves the rest among the kinds that are lost.
LEMMA Reset ==
  ASSUME PathInv, reset
  PROVE  PathInv'
<1>1. Posting("reset") /\ Postable
  BY DEF reset
<1>2. PICK n \in 0 .. Len(Kinds) :
        /\ host' = [kind \in Kind |-> IF kind \in EmptiedBy(n) THEN {} ELSE host[kind]]
        /\ lost' = (lost \ EmptiedBy(n)) \cup (Kind \ EmptiedBy(n))
        /\ failures' = failures \/ failures' = failures + 1
  BY DEF reset, createWithBytes_fails
<1>3. host \in [Kind -> SUBSET Key] /\ failures \in Nat
  BY DEF PathInv, PathTypeOK
<1>4. Head(queue).type = "reset"
  BY <1>1, TaskTaken DEF Posting, PathInv
<1>5. KeysOf(Head(queue)) = {} /\ \A kind \in Kind : Updates(Head(queue), kind)
  BY <1>4 DEF KeysOf, Updates
<1>6. host' \in [Kind -> SUBSET Key] /\ failures' \in Nat /\ failures' >= failures
  BY <1>2, <1>3
<1>7. \A kind \in Kind : kind \in lost' \/ host'[kind] = {}
  BY <1>2
<1>8. keyboard = "ready"
  BY <1>1 DEF Postable
<1> QED
  BY <1>1, <1>5, <1>6, <1>7, <1>8, UpdateTaken

-----------------------------------------------------------------------------
LEMMA PathInvInit ==
  ASSUME PathInit
  PROVE  PathInv
<1>1. PathTypeOK
  BY EmptyTypes DEF PathInit, PathTypeOK
<1>2. LedsRight
  BY DEF PathInit, LedsRight
<1>3. Layers /\ Deliveries
  BY DEF PathInit, Layers, Deliveries
<1> QED
  BY <1>1, <1>2, <1>3 DEF PathInv

LEMMA PathInvStep ==
  ASSUME PathInv, KeysInv, [PathNext]_path_vars
  PROVE  PathInv'
<1>1. CASE (\E k \in KeyValue : press(k) \/ release(k)) \/ release_all
  BY <1>1, FillingStep DEF press, release, release_all
<1>2. CASE Application
  BY <1>1, <1>2, PostStep, ResetRequestStep, OtherRequestStep DEF Application
<1>3. CASE Daemon
  BY <1>3, Connected, PeerClosed, RequestReceived, RunInitialize, RunTerminate, RunOpened,
     ReadinessCheck, ClientOpens DEF Daemon
<1>4. CASE Driver
  BY <1>4, KeyboardInitialize, HandleStart, PostReport, Reset, Dropped, SetReport DEF Driver
<1>5. CASE connection_lost \/ driver_dies
  BY <1>5, ConnectionLost, DriverDies
<1>6. CASE UNCHANGED path_vars
  BY <1>6, FillingStep DEF path_vars, application
<1> QED
  BY <1>2, <1>3, <1>4, <1>5, <1>6 DEF PathNext

LEMMA PathInvHolds == PathSpec => [](KeysInv /\ PathInv)
<1>1. PathInit => KeysInv /\ PathInv
  BY KeysInvInit, PathInvInit
<1>2. KeysInv /\ PathInv /\ [PathNext]_path_vars => KeysInv' /\ PathInv'
  BY KeysInvStep, PathInvStep
<1> QED
  BY <1>1, <1>2, PTL DEF PathSpec

\* What the invariant says of a system in which nothing is on its way.
LEMMA QuietFacts ==
  ASSUME PathInv, Quiet, NEW kind \in Kind, kind \notin lost
  PROVE  /\ host[kind] \subseteq posted[kind]
         /\ kind \in fresh => host[kind] = posted[kind]
<1>1. CASE linked
  <2>1. Delivery(kind) /\ ~Has(wire, kind) /\ ~Has(queue, kind)
    BY <1>1, EmptyHasNone DEF PathInv, Deliveries, Quiet
  <2> QED
    BY <2>1 DEF Delivery
<1>2. CASE ~linked
  <2>1. host = NoKeys /\ fresh = {}
    BY <1>2 DEF PathInv, Layers, Quiet
  <2> QED
    BY <2>1 DEF NoKeys
<1> QED
  BY <1>1, <1>2

\* No key stays down that the application has released, for any number of
\* reports, replaced clients, driver deaths and lost connections.
THEOREM NoKeyStuck == PathSpec => []NoStuckKey
<1>1. PathInv => NoStuckKey
  BY QuietFacts DEF NoStuckKey
<1> QED
  BY <1>1, PathInvHolds, PTL

\* The last report arrives, last, while the keyboard stays in place: the library,
\* the daemon and the client's tasks keep the order in which it was posted.
THEOREM LastPostShown == PathSpec => []LastPostArrives
<1>1. PathInv => LastPostArrives
  <2> SUFFICES ASSUME PathInv, Quiet, NEW kind \in fresh \ lost
               PROVE  host[kind] = posted[kind]
    BY DEF LastPostArrives
  <2>1. kind \in Kind
    BY DEF PathInv, PathTypeOK
  <2> QED
    BY <2>1, QuietFacts
<1> QED
  BY <1>1, PathInvHolds, PTL

\* setReport never drops a change: the keyboard has posted the LED state that the
\* system set last, unless the allocation for that very change failed.
THEOREM LedAlwaysShown == PathSpec => []LedShown
<1>1. PathInv => LedShown
  BY DEF PathInv, LedsRight, LedShown
<1> QED
  BY <1>1, PathInvHolds, PTL
=============================================================================
