----------------------- MODULE IoServiceClient_proofs -----------------------
(***************************************************************************)
(* Proofs about IoServiceClient, for every set of services and versions,   *)
(* every choice of faulty services and polled devices, and every MaxQueue. *)
(***************************************************************************)
EXTENDS MonitoredClient, SequenceTheorems, WellFoundedInduction, TLAPS

\* A nonempty set of numbers has a least element.
LEMMA LeastElement ==
  ASSUME NEW T \in SUBSET Nat, T # {}
  PROVE  \E m \in T : \A k \in T : m <= k
<1>1. \E m \in T : \A k \in T : ~(<<k, m>> \in OpToRel(<, Nat))
  BY NatLessThanWellFounded, WFMin
<1>2. PICK m \in T : \A k \in T : ~(<<k, m>> \in OpToRel(<, Nat))
  BY <1>1
<1>3. \A k \in T : ~(k < m)
  BY <1>2 DEF OpToRel
<1> QED
  BY <1>3

(***************************************************************************)
(* The tasks the setters enqueue.                                          *)
(***************************************************************************)
LEMMA TaskFacts ==
  /\ StateChanged \in Task /\ Opened \in Task /\ Closed \in Task
  /\ \A d \in Device, v \in OptBool : SetReady(d, v) \in Task
  BY DEF Task

LEMMA NoticeType ==
  ASSUME NEW changed \in BOOLEAN
  PROVE  Notice(changed) \in Seq(Task)
<1>1. <<StateChanged>> \in Seq(Task) /\ <<>> \in Seq(Task)
  BY TaskFacts
<1> QED
  BY <1>1 DEF Notice

LEMMA ClearNoticesType ==
  ASSUME NEW version, NEW rdy
  PROVE  ClearNotices(version, rdy) \in Seq(Task)
<1>1. Notice(version # NoVersion) \in Seq(Task)
  BY NoticeType
<1>2. Notice(rdy["keyboard"] # "nullopt") \in Seq(Task)
  BY NoticeType
<1>3. Notice(rdy["pointing"] # "nullopt") \in Seq(Task)
  BY NoticeType
<1> QED
  BY <1>1, <1>2, <1>3 DEF ClearNotices

(***************************************************************************)
(* The loop of open_connection.                                            *)
(***************************************************************************)
LEMMA RejectedFaulty ==
  ASSUME NEW svcs \in Seq(Service), NEW inv \in SUBSET Service,
         NEW out \in [Service -> Outcome], Answers(out), TypeOK
  PROVE  Rejected(svcs, inv, out) \subseteq Faulty
  BY ConstantsAssumption DEF Rejected, Answers, TypeOK

\* At most one service is connected to, and it is the only one that is left
\* open.
LEMMA OneConnects ==
  ASSUME NEW svcs \in Seq(Service), NEW inv \in SUBSET Service,
         NEW out \in [Service -> Outcome],
         NEW i \in 1 .. Len(svcs), Connects(svcs, inv, out, i)
  PROVE  /\ OpenedBy(svcs, inv, out) \ ClosedAgain(svcs, inv, out) = {svcs[i]}
         /\ svcs[i] \in Service
         /\ out[svcs[i]] \in Version
         /\ svcs[i] \notin Rejected(svcs, inv, out)
         /\ svcs[i] \notin inv
<1>1. svcs[i] \in Service /\ out[svcs[i]] \in Version /\ svcs[i] \notin inv
  BY DEF Connects
<1>2. svcs[i] \notin Rejected(svcs, inv, out)
  BY <1>1, ConstantsAssumption DEF Rejected
<1>3. svcs[i] \in OpenedBy(svcs, inv, out)
  BY <1>1, ConstantsAssumption DEF OpenedBy, Connects
<1>4. ASSUME NEW s \in OpenedBy(svcs, inv, out), s \notin Rejected(svcs, inv, out)
      PROVE  s = svcs[i]
  <2>1. PICK j \in 1 .. Len(svcs) :
          /\ svcs[j] = s /\ s \notin inv /\ out[s] # "open_failed"
          /\ Reached(svcs, inv, out, j)
    BY <1>4 DEF OpenedBy
  <2>2. out[s] \in Version
    BY <1>4, <2>1 DEF Rejected, OpenedBy, Outcome
  <2>3. ~(j < i)
    BY <2>1, <2>2 DEF Connects, Reached
  <2>4. ~(i < j)
    BY <1>1, <2>1 DEF Reached
  <2> QED
    BY <2>1, <2>3, <2>4
<1> QED
  BY <1>1, <1>2, <1>3, <1>4 DEF ClosedAgain

LEMMA NoneConnects ==
  ASSUME NEW svcs \in Seq(Service), NEW inv \in SUBSET Service,
         NEW out \in [Service -> Outcome],
         \A i \in 1 .. Len(svcs) : ~Connects(svcs, inv, out, i)
  PROVE  OpenedBy(svcs, inv, out) \ ClosedAgain(svcs, inv, out) = {}
  BY DEF OpenedBy, ClosedAgain, Rejected, Connects, Outcome

(***************************************************************************)
(* What open_connection leaves behind, whatever its caller passes to it.   *)
(***************************************************************************)
LEMMA OpenConnectionType ==
  ASSUME NEW svcs \in Seq(Service), NEW inv \in SUBSET Service,
         NEW opn \in SUBSET Service, NEW conn \in Service \cup {NoService},
         NEW version \in Version \cup {NoVersion},
         NEW rdy \in [Device -> OptBool], NEW hnd \in SUBSET Service,
         NEW dev \in [Device -> {"none", "starting", "ready"}],
         NEW q \in Seq(Task),
         open_connection(svcs, inv, opn, conn, version, rdy, hnd, dev, q)
  PROVE  /\ services' \in Seq(Service)
         /\ opened' \subseteq Service
         /\ invalidated' \subseteq Service
         /\ connection' \in Service \cup {NoService}
         /\ driver_version' \in Version \cup {NoVersion}
         /\ ready' \in [Device -> OptBool]
         /\ queue' \in Seq(Task)
         /\ handles' \subseteq Service
         /\ device' \in [Device -> {"none", "starting", "ready"}]
<1>1. /\ q \o <<StateChanged>> \in Seq(Task)
      /\ q \o ClearNotices(version, rdy) \o <<StateChanged>> \in Seq(Task)
      /\ q \o ClearNotices(version, rdy) \o <<StateChanged, Opened, StateChanged>>
           \in Seq(Task)
  <2>1. /\ <<StateChanged>> \in Seq(Task)
        /\ <<StateChanged, Opened, StateChanged>> \in Seq(Task)
    BY TaskFacts
  <2>2. ClearNotices(version, rdy) \in Seq(Task)
    BY ClearNoticesType
  <2> QED
    BY <2>1, <2>2
<1>2. CASE conn # NoService
  BY <1>1, <1>2 DEF open_connection
<1>3. CASE conn = NoService
  <2>1. /\ ready' = Cleared /\ device' = NoDevice /\ services' = svcs
    BY <1>3 DEF open_connection
  <2>2. /\ ready' \in [Device -> OptBool]
        /\ device' \in [Device -> {"none", "starting", "ready"}]
    BY <2>1 DEF Cleared, NoDevice, OptBool
  <2>3. PICK out \in [Service -> Outcome] :
          /\ invalidated' = inv \cup Rejected(svcs, inv, out)
          /\ handles' = hnd \cup (OpenedBy(svcs, inv, out)
                                    \ ClosedAgain(svcs, inv, out))
          /\ \/ \E i \in 1 .. Len(svcs) :
                  /\ Connects(svcs, inv, out, i)
                  /\ connection' = svcs[i]
                  /\ driver_version' = out[svcs[i]]
                  /\ opened' = opn \cup {svcs[i]}
                  /\ queue' = q \o ClearNotices(version, rdy)
                                \o <<StateChanged, Opened, StateChanged>>
             \/ /\ connection' = NoService
                /\ driver_version' = NoVersion
                /\ opened' = opn
                /\ queue' = q \o ClearNotices(version, rdy) \o <<StateChanged>>
    BY <1>3 DEF open_connection
  <2>4. Rejected(svcs, inv, out) \subseteq Service
    BY DEF Rejected
  <2>5. OpenedBy(svcs, inv, out) \subseteq Service
    BY DEF OpenedBy
  <2>6. \A i \in 1 .. Len(svcs) : Connects(svcs, inv, out, i)
          => svcs[i] \in Service /\ out[svcs[i]] \in Version
    BY DEF Connects
  <2> QED
    BY <1>1, <2>1, <2>2, <2>3, <2>4, <2>5, <2>6
<1> QED
  BY <1>2, <1>3

\* The flags, the version and the handles agree with the connection afterwards
\* if they agreed before.
LEMMA OpenConnectionConsistent ==
  ASSUME NEW svcs \in Seq(Service), NEW inv \in SUBSET Service,
         NEW opn \in SUBSET Service, NEW conn \in Service \cup {NoService},
         NEW version \in Version \cup {NoVersion},
         NEW rdy \in [Device -> OptBool], NEW hnd \in SUBSET Service,
         NEW dev, NEW q, NEW alive,
         alive = {svcs[i] : i \in 1 .. Len(svcs)},
         opn = IF conn = NoService THEN {} ELSE {conn},
         hnd = IF conn = NoService THEN {} ELSE {conn},
         conn # NoService => conn \in alive \ inv,
         version # NoVersion <=> conn # NoService,
         open_connection(svcs, inv, opn, conn, version, rdy, hnd, dev, q)
  PROVE  /\ services' = svcs
         /\ opened' = IF connection' = NoService THEN {} ELSE {connection'}
         /\ handles' = IF connection' = NoService THEN {} ELSE {connection'}
         /\ connection' # NoService => connection' \in alive \ invalidated'
         /\ driver_version' # NoVersion <=> connection' # NoService
<1>1. CASE conn # NoService
  BY <1>1 DEF open_connection
<1>2. CASE conn = NoService
  <2>1. services' = svcs
    BY DEF open_connection
  <2>2. PICK out \in [Service -> Outcome] :
          /\ invalidated' = inv \cup Rejected(svcs, inv, out)
          /\ handles' = hnd \cup (OpenedBy(svcs, inv, out)
                                    \ ClosedAgain(svcs, inv, out))
          /\ \/ \E i \in 1 .. Len(svcs) :
                  /\ Connects(svcs, inv, out, i)
                  /\ connection' = svcs[i]
                  /\ driver_version' = out[svcs[i]]
                  /\ opened' = opn \cup {svcs[i]}
             \/ /\ \A i \in 1 .. Len(svcs) : ~Connects(svcs, inv, out, i)
                /\ connection' = NoService
                /\ driver_version' = NoVersion
                /\ opened' = opn
    BY <1>2 DEF open_connection
  <2>3. CASE \E i \in 1 .. Len(svcs) :
               /\ Connects(svcs, inv, out, i)
               /\ connection' = svcs[i]
               /\ driver_version' = out[svcs[i]]
               /\ opened' = opn \cup {svcs[i]}
    <3>1. PICK i \in 1 .. Len(svcs) :
            /\ Connects(svcs, inv, out, i)
            /\ connection' = svcs[i]
            /\ driver_version' = out[svcs[i]]
            /\ opened' = opn \cup {svcs[i]}
      BY <2>3
    <3>2. /\ OpenedBy(svcs, inv, out) \ ClosedAgain(svcs, inv, out) = {svcs[i]}
          /\ svcs[i] \in Service
          /\ out[svcs[i]] \in Version
          /\ svcs[i] \notin Rejected(svcs, inv, out)
          /\ svcs[i] \notin inv
      BY <3>1, OneConnects
    <3>3. svcs[i] \in alive
      OBVIOUS
    <3> QED
      BY <1>2, <2>1, <2>2, <3>1, <3>2, <3>3, ConstantsAssumption
  <2>4. CASE /\ \A i \in 1 .. Len(svcs) : ~Connects(svcs, inv, out, i)
             /\ connection' = NoService
             /\ driver_version' = NoVersion
             /\ opened' = opn
    <3>1. OpenedBy(svcs, inv, out) \ ClosedAgain(svcs, inv, out) = {}
      BY <2>4, NoneConnects
    <3> QED
      BY <1>2, <2>1, <2>2, <2>4, <3>1
  <2> QED
    BY <2>2, <2>3, <2>4
<1> QED
  BY <1>1, <1>2

\* Only faulty services get invalidated, and a service that is there and not
\* faulty is not left without a connection.
LEMMA OpenConnectionHealthy ==
  ASSUME NEW svcs \in Seq(Service), NEW inv \in SUBSET Service,
         NEW opn, NEW conn \in Service \cup {NoService},
         NEW version, NEW rdy, NEW hnd, NEW dev, NEW q,
         inv \subseteq Faulty, TypeOK,
         open_connection(svcs, inv, opn, conn, version, rdy, hnd, dev, q)
  PROVE  /\ invalidated' \subseteq Faulty
         /\ \A i \in 1 .. Len(svcs) :
              life[svcs[i]] = "present" /\ svcs[i] \notin Faulty
                => connection' # NoService
<1>1. CASE conn # NoService
  BY <1>1 DEF open_connection
<1>2. CASE conn = NoService
  <2>1. PICK out \in [Service -> Outcome] :
          /\ Answers(out)
          /\ invalidated' = inv \cup Rejected(svcs, inv, out)
          /\ \/ \E i \in 1 .. Len(svcs) : connection' = svcs[i]
             \/ \A i \in 1 .. Len(svcs) : ~Connects(svcs, inv, out, i)
    BY <1>2 DEF open_connection
  <2>2. invalidated' \subseteq Faulty
    BY <2>1, RejectedFaulty
  <2>3. ASSUME NEW i \in 1 .. Len(svcs), life[svcs[i]] = "present",
               svcs[i] \notin Faulty, connection' = NoService
        PROVE  FALSE
    <3>1. \A j \in 1 .. Len(svcs) : svcs[j] # NoService
      BY ConstantsAssumption
    <3>2. \A j \in 1 .. Len(svcs) : ~Connects(svcs, inv, out, j)
      BY <2>1, <2>3, <3>1
    <3>3. svcs[i] \notin inv /\ out[svcs[i]] \in Version
      BY <2>1, <2>3 DEF Answers
    <3> DEFINE Fitting == {j \in 1 .. Len(svcs) :
                             svcs[j] \notin inv /\ out[svcs[j]] \in Version}
    <3>4. PICK j \in Fitting : \A k \in Fitting : j <= k
      <4>1. i \in Fitting /\ Fitting \in SUBSET Nat
        BY <3>3
      <4> QED
        BY <4>1, LeastElement
    <3>5. Connects(svcs, inv, out, j)
      BY <3>4 DEF Connects, Reached
    <3> QED
      BY <3>2, <3>5
  <2> QED
    BY <2>2, <2>3
<1> QED
  BY <1>1, <1>2

(***************************************************************************)
(* matched_services::insert and matched_services::erase.                   *)
(***************************************************************************)
LEMMA InsertedFacts ==
  ASSUME TypeOK, ServicesMirrorMonitor, NEW s \in Service
  PROVE  /\ Inserted(s) \in Seq(Service)
         /\ {Inserted(s)[i] : i \in 1 .. Len(Inserted(s))} = known \cup {s}
         /\ \A i, j \in 1 .. Len(Inserted(s)) :
              Inserted(s)[i] = Inserted(s)[j] => i = j
<1>1. CASE \E i \in 1 .. Len(services) : services[i] = s
  BY <1>1 DEF Inserted, TypeOK, ServicesMirrorMonitor
<1>2. CASE ~\E i \in 1 .. Len(services) : services[i] = s
  <2> DEFINE t == Append(services, s)
  <2>1. Inserted(s) = t
    BY <1>2 DEF Inserted
  <2>2. /\ t \in Seq(Service)
        /\ Len(t) = Len(services) + 1
        /\ \A i \in 1 .. Len(services) : t[i] = services[i]
        /\ t[Len(services) + 1] = s
    BY DEF TypeOK
  <2> HIDE DEF t
  <2>3. {t[i] : i \in 1 .. Len(t)} = known \cup {s}
    <3>1. Len(services) \in Nat
      BY DEF TypeOK
    <3>2. 1 .. Len(t) = (1 .. Len(services)) \cup {Len(services) + 1}
      BY <2>2, <3>1
    <3> QED
      BY <2>2, <3>1, <3>2 DEF ServicesMirrorMonitor
  <2>4. \A i, j \in 1 .. Len(t) : t[i] = t[j] => i = j
    BY <1>2, <2>2 DEF ServicesMirrorMonitor, TypeOK
  <2> QED
    BY <2>1, <2>2, <2>3, <2>4
<1> QED
  BY <1>1, <1>2

LEMMA ErasedFacts ==
  ASSUME TypeOK, ServicesMirrorMonitor, NEW s \in Service
  PROVE  /\ Erased(s) \in Seq(Service)
         /\ {Erased(s)[i] : i \in 1 .. Len(Erased(s))} = known \ {s}
         /\ \A i, j \in 1 .. Len(Erased(s)) :
              Erased(s)[i] = Erased(s)[j] => i = j
<1>1. CASE \E i \in 1 .. Len(services) : services[i] = s
  <2> DEFINE p == CHOOSE i \in 1 .. Len(services) : services[i] = s
             n == Len(services)
             t == Erased(s)
  <2>1. p \in 1 .. n /\ services[p] = s /\ n \in Nat
    BY <1>1 DEF TypeOK
  <2>2. t = SubSeq(services, 1, p - 1) \o SubSeq(services, p + 1, n)
    BY <1>1 DEF Erased
  <2> HIDE DEF p, n, t
  <2>3. /\ services \in Seq(Service)
        /\ \A i \in 1 .. n : services[i] \in Service
    BY DEF TypeOK, n
  <2>4. /\ SubSeq(services, 1, p - 1) \in Seq(Service)
        /\ Len(SubSeq(services, 1, p - 1)) = p - 1
        /\ \A i \in 1 .. p - 1 : SubSeq(services, 1, p - 1)[i] = services[i]
    BY <2>1, <2>3, SubSeqProperties
  <2>5. /\ SubSeq(services, p + 1, n) \in Seq(Service)
        /\ Len(SubSeq(services, p + 1, n)) = n - p
        /\ \A i \in 1 .. n - p : SubSeq(services, p + 1, n)[i] = services[p + i]
    BY <2>1, <2>3, SubSeqProperties
  <2>6. /\ t \in Seq(Service)
        /\ Len(t) = n - 1
        /\ \A i \in 1 .. n - 1 :
             t[i] = IF i < p THEN services[i] ELSE services[i + 1]
    <3> DEFINE a == SubSeq(services, 1, p - 1)
               b == SubSeq(services, p + 1, n)
    <3> HIDE DEF a, b
    <3>1. /\ a \in Seq(Service) /\ Len(a) = p - 1
          /\ b \in Seq(Service) /\ Len(b) = n - p
          /\ t = a \o b
      BY <2>2, <2>4, <2>5 DEF a, b
    <3>2. /\ \A i \in 1 .. p - 1 : a[i] = services[i]
          /\ \A i \in 1 .. n - p : b[i] = services[p + i]
      BY <2>4, <2>5 DEF a, b
    <3>3. /\ t \in Seq(Service)
          /\ Len(t) = Len(a) + Len(b)
          /\ \A i \in 1 .. Len(a) + Len(b) :
               t[i] = IF i <= Len(a) THEN a[i] ELSE b[i - Len(a)]
      BY <3>1, ConcatProperties
    <3>4. Len(t) = n - 1
      BY <2>1, <3>1, <3>3
    <3>5. ASSUME NEW i \in 1 .. n - 1
          PROVE  t[i] = IF i < p THEN services[i] ELSE services[i + 1]
      <4>1. CASE i < p
        BY <2>1, <3>1, <3>2, <3>3, <4>1
      <4>2. CASE ~(i < p)
        <5>1. i - (p - 1) \in 1 .. n - p /\ p + (i - (p - 1)) = i + 1
          BY <2>1, <4>2
        <5>2. t[i] = b[i - (p - 1)]
          BY <2>1, <3>1, <3>3, <4>2
        <5> QED
          BY <3>2, <4>2, <5>1, <5>2
      <4> QED
        BY <4>1, <4>2
    <3> QED
      BY <3>3, <3>4, <3>5
  <2>7. \A i, j \in 1 .. n : services[i] = services[j] => i = j
    BY DEF ServicesMirrorMonitor, n
  <2>8. {t[i] : i \in 1 .. Len(t)} = known \ {s}
    <3>1. ASSUME NEW i \in 1 .. Len(t) PROVE t[i] \in known \ {s}
      BY <2>1, <2>6, <2>7 DEF ServicesMirrorMonitor, n
    <3>2. ASSUME NEW u \in known \ {s} PROVE \E i \in 1 .. Len(t) : u = t[i]
      <4>1. PICK k \in 1 .. n : services[k] = u
        BY DEF ServicesMirrorMonitor, n
      <4>2. CASE k < p
        BY <2>1, <2>6, <4>1, <4>2
      <4>3. CASE p < k
        <5>1. k - 1 \in 1 .. Len(t) /\ t[k - 1] = u
          BY <2>1, <2>6, <4>1, <4>3
        <5> QED
          BY <5>1
      <4>4. k # p
        BY <2>1, <4>1
      <4> QED
        BY <2>1, <4>2, <4>3, <4>4
    <3> QED
      BY <3>1, <3>2
  <2>9. \A i, j \in 1 .. Len(t) : t[i] = t[j] => i = j
    BY <2>1, <2>6, <2>7
  <2> QED
    BY <2>6, <2>8, <2>9 DEF t
<1>2. CASE ~\E i \in 1 .. Len(services) : services[i] = s
  <2>1. Erased(s) = services
    BY <1>2 DEF Erased
  <2> QED
    BY <1>2, <2>1 DEF TypeOK, ServicesMirrorMonitor
<1> QED
  BY <1>1, <1>2

-----------------------------------------------------------------------------
(***************************************************************************)
(* The inductive invariant.  The five invariants of the runs are not       *)
(* inductive by themselves: that a healthy service is connected to needs   *)
(* that the loop skips only faulty ones and that a service which is still  *)
(* absent has not been reported.                                           *)
(***************************************************************************)
OnlyFaultyInvalidated == invalidated \subseteq Faulty
KnownNotAbsent == \A s \in known : life[s] # "absent"

IInv ==
  /\ TypeOK
  /\ ServicesMirrorMonitor
  /\ ConnectionConsistent
  /\ HandlesBalanced
  /\ HealthyServiceConnected
  /\ OnlyFaultyInvalidated
  /\ KnownNotAbsent

LEMMA InitIInv == Init => IInv
<1> SUFFICES ASSUME Init PROVE IInv
  OBVIOUS
<1>1. TypeOK
  BY DEF Init, TypeOK, Cleared, NoDevice, OptBool, InitialStatus, Status
<1>2. ServicesMirrorMonitor
  BY DEF Init, ServicesMirrorMonitor
<1> QED
  BY <1>1, <1>2 DEF Init, IInv, ConnectionConsistent, HandlesBalanced,
     HealthyServiceConnected, OnlyFaultyInvalidated, KnownNotAbsent,
     driver_connected

LEMMA VisibleStatusType ==
  ASSUME TypeOK
  PROVE  VisibleStatus \in Status
<1>1. /\ driver_connected \in BOOLEAN
      /\ driver_version_mismatched \in BOOLEAN
  BY DEF driver_connected, driver_version_mismatched
<1>2. [d \in Device |-> VisibleReady(d)] \in [Device -> OptBool]
  BY DEF TypeOK, VisibleReady, OptBool
<1> QED
  BY <1>1, <1>2 DEF VisibleStatus, Status

\* Steps that leave the services, the connection and what belongs to it alone.
LEMMA QuietStep ==
  ASSUME IInv, TypeOK',
         UNCHANGED <<life, known, services, opened, invalidated, connection,
                     driver_version, handles>>
  PROVE  IInv'
  BY DEF IInv, ServicesMirrorMonitor, ConnectionConsistent, HandlesBalanced,
     HealthyServiceConnected, OnlyFaultyInvalidated, KnownNotAbsent,
     driver_connected

LEMMA DeviceStepIInv ==
  ASSUME IInv, NEW d \in Polled, DeviceStep(d)
  PROVE  IInv'
<1>0. d \in Device
  BY ConstantsAssumption DEF Device
<1>1. CASE initialize(d)
  <2>1. TypeOK'
    BY <1>0, <1>1 DEF IInv, TypeOK, initialize, kernel
  <2> QED
    BY <1>1, <2>1, QuietStep DEF initialize, kernel
<1>2. CASE DeviceStarts(d)
  <2>1. TypeOK'
    BY <1>0, <1>2 DEF IInv, TypeOK, DeviceStarts, kernel
  <2> QED
    BY <1>2, <2>1, QuietStep DEF DeviceStarts, kernel
<1>3. CASE query_ready(d)
  <2>1. PICK v \in ReadyAnswers(d) : queue' = Append(queue, SetReady(d, v))
    BY <1>3 DEF query_ready
  <2>2. v \in OptBool
    BY <2>1 DEF ReadyAnswers, OptBool
  <2>3. queue' \in Seq(Task)
    BY <1>0, <2>1, <2>2, TaskFacts DEF IInv, TypeOK
  <2>4. TypeOK'
    BY <1>3, <2>3 DEF IInv, TypeOK, query_ready, kernel
  <2> QED
    BY <1>3, <2>4, QuietStep DEF query_ready, kernel
<1> QED
  BY <1>1, <1>2, <1>3 DEF DeviceStep

LEMMA TailType ==
  ASSUME TypeOK, queue # <<>>
  PROVE  Tail(queue) \in Seq(Task) /\ Head(queue) \in Task
  BY DEF TypeOK

LEMMA SetReadyTask ==
  ASSUME NEW t \in Task, t.task = "set_ready"
  PROVE  t.device \in Device /\ t.value \in OptBool
  BY DEF Task, StateChanged, Opened, Closed, SetReady

LEMMA RunTaskIInv ==
  ASSUME IInv, RunTask
  PROVE  IInv'
<1>0. TypeOK
  BY DEF IInv
<1>1. CASE set_ready
  <2> DEFINE d == Head(queue).device
             v == Head(queue).value
  <2>1. d \in Device /\ v \in OptBool
    BY <1>0, <1>1, TailType, SetReadyTask DEF set_ready
  <2>2. /\ ready' = [ready EXCEPT ![d] = v]
        /\ queue' = Tail(queue) \o Notice(ready[d] # v)
    BY <1>1 DEF set_ready
  <2> HIDE DEF d, v
  <2>3. queue' \in Seq(Task)
    <3>1. Notice(ready[d] # v) \in Seq(Task)
      BY NoticeType
    <3>2. Tail(queue) \in Seq(Task)
      BY <1>0, <1>1, TailType DEF set_ready
    <3> QED
      BY <2>2, <3>1, <3>2
  <2>4. TypeOK'
    BY <1>0, <1>1, <2>1, <2>2, <2>3 DEF TypeOK, set_ready, kernel
  <2> QED
    BY <1>1, <2>4, QuietStep DEF set_ready, kernel
<1>2. CASE emit_state_changed
  <2>1. TypeOK'
    BY <1>0, <1>2, TailType, VisibleStatusType
    DEF TypeOK, emit_state_changed, kernel
  <2> QED
    BY <1>2, <2>1, QuietStep DEF emit_state_changed, kernel
<1>3. CASE emit_opened_or_closed
  <2>1. TypeOK'
    BY <1>0, <1>3, TailType DEF TypeOK, emit_opened_or_closed, kernel
  <2> QED
    BY <1>3, <2>1, QuietStep DEF emit_opened_or_closed, kernel
<1> QED
  BY <1>1, <1>2, <1>3 DEF RunTask

LEMMA LifeIInv ==
  ASSUME IInv, NEW s \in Service, ServiceAppears(s) \/ ServiceDies(s)
  PROVE  IInv'
<1>1. UNCHANGED <<known, client>>
  BY DEF ServiceAppears, ServiceDies
<1>2. /\ life' \in [Service -> {"absent", "present", "terminated"}]
      /\ \A t \in Service : life'[t] = "absent" => life[t] = "absent"
      /\ \A t \in known : life'[t] = "present" => life[t] = "present"
  BY DEF IInv, TypeOK, KnownNotAbsent, ServiceAppears, ServiceDies
<1>3. TypeOK'
  BY <1>1, <1>2 DEF IInv, TypeOK, client
<1>4. ServicesMirrorMonitor' /\ ConnectionConsistent' /\ HandlesBalanced'
  BY <1>1 DEF IInv, ServicesMirrorMonitor, ConnectionConsistent,
     HandlesBalanced, driver_connected, client
<1>5. HealthyServiceConnected' /\ OnlyFaultyInvalidated' /\ KnownNotAbsent'
  BY <1>1, <1>2 DEF IInv, TypeOK, HealthyServiceConnected,
     OnlyFaultyInvalidated, KnownNotAbsent, client
<1> QED
  BY <1>3, <1>4, <1>5 DEF IInv

LEMMA DestructIInv ==
  ASSUME IInv, destruct
  PROVE  IInv'
<1>1. /\ known' = {} /\ services' = <<>> /\ opened' = {} /\ invalidated' = {}
      /\ connection' = NoService /\ driver_version' = NoVersion
      /\ ready' = Cleared /\ queue' = <<>> /\ device' = NoDevice
      /\ seen' = InitialStatus /\ life' = life
  BY DEF destruct
<1>2. handles' = {}
  BY DEF destruct, IInv, HandlesBalanced, ConnectionConsistent
<1>3. TypeOK'
  BY <1>1, <1>2 DEF IInv, TypeOK, Cleared, NoDevice, OptBool, InitialStatus, Status
<1>4. ServicesMirrorMonitor'
  BY <1>1 DEF ServicesMirrorMonitor
<1>5. ConnectionConsistent' /\ HandlesBalanced'
  BY <1>1, <1>2 DEF ConnectionConsistent, HandlesBalanced, driver_connected
<1>6. HealthyServiceConnected' /\ OnlyFaultyInvalidated' /\ KnownNotAbsent'
  BY <1>1 DEF HealthyServiceConnected, OnlyFaultyInvalidated, KnownNotAbsent
<1> QED
  BY <1>3, <1>4, <1>5, <1>6 DEF IInv

LEMMA MatchedIInv ==
  ASSUME IInv, NEW s \in Service, Matched(s)
  PROVE  IInv'
<1>0. TypeOK /\ ServicesMirrorMonitor
  BY DEF IInv
<1>1. /\ known' = known \cup {s} /\ life' = life /\ life[s] # "absent"
      /\ seen' = seen
      /\ open_connection(Inserted(s), invalidated, opened, connection,
                         driver_version, ready, handles, device, queue)
  BY DEF Matched, service_matched
<1>2. /\ Inserted(s) \in Seq(Service)
      /\ {Inserted(s)[i] : i \in 1 .. Len(Inserted(s))} = known'
      /\ \A i, j \in 1 .. Len(Inserted(s)) :
           Inserted(s)[i] = Inserted(s)[j] => i = j
  BY <1>0, <1>1, InsertedFacts
<1>3. TypeOK'
  BY <1>0, <1>1, <1>2, OpenConnectionType DEF TypeOK
<1>4. /\ services' = Inserted(s)
      /\ opened' = IF connection' = NoService THEN {} ELSE {connection'}
      /\ handles' = IF connection' = NoService THEN {} ELSE {connection'}
      /\ connection' # NoService => connection' \in known' \ invalidated'
      /\ driver_version' # NoVersion <=> connection' # NoService
  <2>1. /\ opened = IF connection = NoService THEN {} ELSE {connection}
        /\ handles = IF connection = NoService THEN {} ELSE {connection}
        /\ connection # NoService => connection \in known' \ invalidated
        /\ driver_version # NoVersion <=> connection # NoService
    BY <1>1 DEF IInv, ConnectionConsistent, HandlesBalanced, driver_connected
  <2>2. /\ invalidated \in SUBSET Service /\ opened \in SUBSET Service
        /\ connection \in Service \cup {NoService}
        /\ driver_version \in Version \cup {NoVersion}
        /\ ready \in [Device -> OptBool] /\ handles \in SUBSET Service
    BY <1>0 DEF TypeOK
  <2> QED
    BY <1>1, <1>2, <2>1, <2>2, OpenConnectionConsistent
<1>5. /\ invalidated' \subseteq Faulty
      /\ \A i \in 1 .. Len(Inserted(s)) :
           life[Inserted(s)[i]] = "present" /\ Inserted(s)[i] \notin Faulty
             => connection' # NoService
  BY <1>0, <1>1, <1>2, OpenConnectionHealthy
  DEF IInv, TypeOK, OnlyFaultyInvalidated
<1>6. ServicesMirrorMonitor'
  BY <1>2, <1>4 DEF ServicesMirrorMonitor
<1>7. ConnectionConsistent' /\ HandlesBalanced'
  BY <1>4 DEF ConnectionConsistent, HandlesBalanced, driver_connected
<1>8. HealthyServiceConnected'
  BY <1>1, <1>2, <1>5 DEF HealthyServiceConnected
<1>9. OnlyFaultyInvalidated' /\ KnownNotAbsent'
  BY <1>1, <1>5 DEF IInv, OnlyFaultyInvalidated, KnownNotAbsent
<1> QED
  BY <1>3, <1>6, <1>7, <1>8, <1>9 DEF IInv

\* service_terminated, for the state that its two branches pass to
\* open_connection.
LEMMA TerminatedStep ==
  ASSUME IInv, NEW s \in Service, known' = known \ {s}, UNCHANGED <<life, seen>>,
         NEW conn \in Service \cup {NoService},
         NEW version \in Version \cup {NoVersion},
         NEW rdy \in [Device -> OptBool], NEW hnd \in SUBSET Service,
         NEW dev \in [Device -> {"none", "starting", "ready"}],
         NEW q \in Seq(Task),
         opened \ {s} = IF conn = NoService THEN {} ELSE {conn},
         hnd = IF conn = NoService THEN {} ELSE {conn},
         conn # NoService => conn \in known' \ (invalidated \ {s}),
         version # NoVersion <=> conn # NoService,
         open_connection(Erased(s), invalidated \ {s}, opened \ {s}, conn,
                         version, rdy, hnd, dev, q)
  PROVE  IInv'
<1>0. TypeOK /\ ServicesMirrorMonitor
  BY DEF IInv
<1>1. /\ Erased(s) \in Seq(Service)
      /\ {Erased(s)[i] : i \in 1 .. Len(Erased(s))} = known'
      /\ \A i, j \in 1 .. Len(Erased(s)) : Erased(s)[i] = Erased(s)[j] => i = j
  BY <1>0, ErasedFacts
<1>2. invalidated \ {s} \in SUBSET Service /\ opened \ {s} \in SUBSET Service
  BY <1>0 DEF TypeOK
<1>3. TypeOK'
  BY <1>0, <1>1, <1>2, OpenConnectionType DEF TypeOK
<1>4. /\ services' = Erased(s)
      /\ opened' = IF connection' = NoService THEN {} ELSE {connection'}
      /\ handles' = IF connection' = NoService THEN {} ELSE {connection'}
      /\ connection' # NoService => connection' \in known' \ invalidated'
      /\ driver_version' # NoVersion <=> connection' # NoService
  BY <1>1, <1>2, OpenConnectionConsistent
<1>5. /\ invalidated' \subseteq Faulty
      /\ \A i \in 1 .. Len(Erased(s)) :
           life[Erased(s)[i]] = "present" /\ Erased(s)[i] \notin Faulty
             => connection' # NoService
  BY <1>0, <1>1, <1>2, OpenConnectionHealthy DEF IInv, OnlyFaultyInvalidated
<1>6. ServicesMirrorMonitor'
  BY <1>1, <1>4 DEF ServicesMirrorMonitor
<1>7. ConnectionConsistent' /\ HandlesBalanced'
  BY <1>4 DEF ConnectionConsistent, HandlesBalanced, driver_connected
<1>8. HealthyServiceConnected'
  BY <1>1, <1>5 DEF HealthyServiceConnected
<1>9. OnlyFaultyInvalidated' /\ KnownNotAbsent'
  BY <1>5 DEF IInv, OnlyFaultyInvalidated, KnownNotAbsent
<1> QED
  BY <1>3, <1>6, <1>7, <1>8, <1>9 DEF IInv

LEMMA TerminatedIInv ==
  ASSUME IInv, NEW s \in Service, Terminated(s)
  PROVE  IInv'
<1>0. TypeOK
  BY DEF IInv
<1>1. /\ known' = known \ {s} /\ life' = life /\ seen' = seen
      /\ service_terminated(s)
  BY DEF Terminated, service_terminated
<1>2. /\ opened = IF connection = NoService THEN {} ELSE {connection}
      /\ handles = IF connection = NoService THEN {} ELSE {connection}
      /\ connection # NoService => connection \in known \ invalidated
      /\ driver_version # NoVersion <=> connection # NoService
  BY DEF IInv, ConnectionConsistent, HandlesBalanced, driver_connected
<1>3. CASE Closes(s)
  <2> DEFINE q == queue \o <<Closed>> \o ClearNotices(driver_version, ready)
  <2>1. open_connection(Erased(s), invalidated \ {s}, opened \ {s},
                        NoService, NoVersion, Cleared,
                        handles \ {connection}, NoDevice, q)
    BY <1>1, <1>3 DEF service_terminated
  <2>2. q \in Seq(Task)
    <3>1. <<Closed>> \in Seq(Task)
      BY TaskFacts
    <3>2. ClearNotices(driver_version, ready) \in Seq(Task)
      BY ClearNoticesType
    <3> QED
      BY <1>0, <3>1, <3>2 DEF TypeOK
  <2> HIDE DEF q
  <2>3. Cleared \in [Device -> OptBool]
    BY DEF Cleared, OptBool
  <2>4. NoDevice \in [Device -> {"none", "starting", "ready"}]
    BY DEF NoDevice
  <2>5. opened \ {s} = {} /\ handles \ {connection} = {}
    BY <1>2, <1>3 DEF Closes
  <2> QED
    BY <1>1, <2>1, <2>2, <2>3, <2>4, <2>5, TerminatedStep
<1>4. CASE ~Closes(s)
  <2>1. open_connection(Erased(s), invalidated \ {s}, opened \ {s}, connection,
                        driver_version, ready, handles, device, queue)
    BY <1>1, <1>4 DEF service_terminated
  <2>2. /\ opened \ {s} = IF connection = NoService THEN {} ELSE {connection}
        /\ connection # NoService => connection \in known' \ (invalidated \ {s})
    BY <1>1, <1>2, <1>4 DEF Closes
  <2>3. /\ connection \in Service \cup {NoService}
        /\ driver_version \in Version \cup {NoVersion}
        /\ ready \in [Device -> OptBool] /\ handles \in SUBSET Service
        /\ device \in [Device -> {"none", "starting", "ready"}]
        /\ queue \in Seq(Task)
    BY <1>0 DEF TypeOK
  <2> QED
    BY <1>1, <1>2, <2>1, <2>2, <2>3, TerminatedStep
<1> QED
  BY <1>3, <1>4

\* The inductive invariant holds in every state of the client: whatever IOKit,
\* the monitor, the driver and the owner do, and in whatever order.
THEOREM IInvHolds == Spec => []IInv
<1>1. Init => IInv
  BY InitIInv
<1>2. IInv /\ [Next]_vars => IInv'
  <2> SUFFICES ASSUME IInv, [Next]_vars PROVE IInv'
    OBVIOUS
  <2>1. ASSUME NEW s \in Service, ServiceStep(s) PROVE IInv'
    BY <2>1, LifeIInv, MatchedIInv, TerminatedIInv DEF ServiceStep
  <2>2. ASSUME NEW d \in Polled, DeviceStep(d) PROVE IInv'
    BY <2>2, DeviceStepIInv
  <2>3. CASE RunTask
    BY <2>3, RunTaskIInv
  <2>4. CASE destruct
    BY <2>4, DestructIInv
  <2>5. CASE UNCHANGED vars
    <3>1. TypeOK'
      BY <2>5 DEF IInv, TypeOK, vars
    <3> QED
      BY <2>5, <3>1, QuietStep DEF vars
  <2> QED
    BY <2>1, <2>2, <2>3, <2>4, <2>5 DEF Next
<1> QED
  BY <1>1, <1>2, PTL DEF Spec

\* The members of the client, its queue and the two other ends always have
\* values of their types.
THEOREM TypeCorrect == Spec => []TypeOK
<1>1. IInv => TypeOK
  BY DEF IInv
<1> QED
  BY <1>1, IInvHolds, PTL

\* matched_services_ mirrors the monitor's registry_entry_ids_.
THEOREM MirrorCorrect == Spec => []ServicesMirrorMonitor
<1>1. IInv => ServicesMirrorMonitor
  BY DEF IInv
<1> QED
  BY <1>1, IInvHolds, PTL

\* connection_, the opened_ and invalidated_ flags and driver_version_ agree.
THEOREM ConnectionCorrect == Spec => []ConnectionConsistent
<1>1. IInv => ConnectionConsistent
  BY DEF IInv
<1> QED
  BY <1>1, IInvHolds, PTL

\* No user client is leaked, and none is closed while in use.
THEOREM NoHandleLeak == Spec => []HandlesBalanced
<1>1. IInv => HandlesBalanced
  BY DEF IInv
<1> QED
  BY <1>1, IInvHolds, PTL

\* A healthy service that was reported is never passed over.
THEOREM HealthyConnected == Spec => []HealthyServiceConnected
<1>1. IInv => HealthyServiceConnected
  BY DEF IInv
<1> QED
  BY <1>1, IInvHolds, PTL

-----------------------------------------------------------------------------
(***************************************************************************)
(* Connections are kept.                                                   *)
(***************************************************************************)
\* A connection goes away only with its own service, or with the client.
THEOREM ConnectionIsKept == Spec => ConnectionKept
<1>1. ASSUME IInv, [Next]_vars, connection # NoService, connection' # connection
      PROVE  connection \notin known'
  <2>1. ASSUME NEW s \in Service, Matched(s) PROVE connection' = connection
    BY <1>1, <2>1 DEF Matched, service_matched, open_connection
  <2>2. ASSUME NEW s \in Service, Terminated(s) PROVE connection \notin known'
    <3>1. known' = known \ {s} /\ service_terminated(s)
      BY <2>2 DEF Terminated
    <3>2. CASE Closes(s)
      BY <1>1, <3>1, <3>2 DEF Closes, IInv, ConnectionConsistent
    <3>3. CASE ~Closes(s)
      BY <1>1, <3>1, <3>3 DEF service_terminated, open_connection
    <3> QED
      BY <3>2, <3>3
  <2>3. ASSUME NEW s \in Service, ServiceAppears(s) \/ ServiceDies(s)
        PROVE  connection' = connection
    BY <2>3 DEF ServiceAppears, ServiceDies, client
  <2>4. ASSUME NEW d \in Polled, DeviceStep(d) PROVE connection' = connection
    BY <2>4 DEF DeviceStep, initialize, DeviceStarts, query_ready
  <2>5. CASE RunTask
    BY <1>1, <2>5 DEF RunTask, set_ready, emit_state_changed, emit_opened_or_closed
  <2>6. CASE destruct
    BY <2>6 DEF destruct
  <2>7. CASE UNCHANGED vars
    BY <1>1, <2>7 DEF vars
  <2> QED
    BY <1>1, <2>1, <2>2, <2>3, <2>4, <2>5, <2>6, <2>7 DEF Next, ServiceStep
<1>2. IInv /\ [Next]_vars
        => [connection # NoService /\ connection' # connection
              => connection \notin known']_vars
  BY <1>1
<1> QED
  BY <1>2, IInvHolds, PTL DEF Spec, ConnectionKept

-----------------------------------------------------------------------------
(***************************************************************************)
(* No status is lost, and the refinement of StatusSource.                  *)
(***************************************************************************)
LEMMA PendingEmpty == ~Pending(<<>>)
  BY DEF Pending

LEMMA PendingConcat ==
  ASSUME NEW q \in Seq(Task), NEW r \in Seq(Task)
  PROVE  Pending(q \o r) <=> Pending(q) \/ Pending(r)
<1> DEFINE t == q \o r
<1>1. /\ Len(t) = Len(q) + Len(r)
      /\ \A i \in 1 .. Len(q) + Len(r) :
           t[i] = IF i <= Len(q) THEN q[i] ELSE r[i - Len(q)]
      /\ Len(q) \in Nat /\ Len(r) \in Nat
  BY ConcatProperties
<1> HIDE DEF t
<1>2. ASSUME Pending(t) PROVE Pending(q) \/ Pending(r)
  <2>1. PICK i \in 1 .. Len(t) : t[i] = StateChanged
    BY <1>2 DEF Pending
  <2>2. CASE i <= Len(q)
    BY <1>1, <2>1, <2>2 DEF Pending
  <2>3. CASE ~(i <= Len(q))
    <3>1. i - Len(q) \in 1 .. Len(r) /\ r[i - Len(q)] = StateChanged
      BY <1>1, <2>1, <2>3
    <3> QED
      BY <3>1 DEF Pending
  <2> QED
    BY <2>2, <2>3
<1>3. ASSUME Pending(q) PROVE Pending(t)
  <2>1. PICK i \in 1 .. Len(q) : q[i] = StateChanged
    BY <1>3 DEF Pending
  <2>2. i \in 1 .. Len(t) /\ t[i] = StateChanged
    BY <1>1, <2>1
  <2> QED
    BY <2>2 DEF Pending
<1>4. ASSUME Pending(r) PROVE Pending(t)
  <2>1. PICK i \in 1 .. Len(r) : r[i] = StateChanged
    BY <1>4 DEF Pending
  <2>2. Len(q) + i \in 1 .. Len(t) /\ t[Len(q) + i] = StateChanged
    BY <1>1, <2>1
  <2> QED
    BY <2>2 DEF Pending
<1> QED
  BY <1>2, <1>3, <1>4 DEF t

LEMMA PendingLast ==
  ASSUME NEW q \in Seq(Task)
  PROVE  /\ Pending(q \o <<StateChanged>>)
         /\ Pending(q \o <<StateChanged, Opened, StateChanged>>)
<1>1. /\ <<StateChanged>> \in Seq(Task)
      /\ <<StateChanged, Opened, StateChanged>> \in Seq(Task)
  BY TaskFacts
<1>2. Pending(<<StateChanged>>)
  BY DEF Pending
<1>3. Pending(<<StateChanged, Opened, StateChanged>>)
  <2>1. 1 \in 1 .. Len(<<StateChanged, Opened, StateChanged>>)
    OBVIOUS
  <2> QED
    BY <2>1 DEF Pending
<1> QED
  BY <1>1, <1>2, <1>3, PendingConcat

LEMMA PendingAppend ==
  ASSUME NEW q \in Seq(Task), NEW t \in Task, t # StateChanged
  PROVE  Pending(Append(q, t)) <=> Pending(q)
<1>1. /\ Len(Append(q, t)) = Len(q) + 1 /\ Len(q) \in Nat
      /\ \A i \in 1 .. Len(q) : Append(q, t)[i] = q[i]
      /\ Append(q, t)[Len(q) + 1] = t
  OBVIOUS
<1> QED
  BY <1>1 DEF Pending

LEMMA PendingTail ==
  ASSUME NEW q \in Seq(Task), q # <<>>
  PROVE  Pending(q) <=> Head(q) = StateChanged \/ Pending(Tail(q))
<1> DEFINE r == Tail(q)
<1>1. /\ Len(q) \in Nat \ {0} /\ Len(r) = Len(q) - 1 /\ Head(q) = q[1]
      /\ \A i \in 1 .. Len(q) - 1 : r[i] = q[i + 1]
  BY HeadTailProperties, EmptySeq
<1> HIDE DEF r
<1>2. ASSUME Pending(q), Head(q) # StateChanged PROVE Pending(r)
  <2>1. PICK i \in 1 .. Len(q) : q[i] = StateChanged
    BY <1>2 DEF Pending
  <2>2. i - 1 \in 1 .. Len(r) /\ r[i - 1] = StateChanged
    BY <1>1, <1>2, <2>1
  <2> QED
    BY <2>2 DEF Pending
<1>3. ASSUME Head(q) = StateChanged PROVE Pending(q)
  BY <1>1, <1>3 DEF Pending
<1>4. ASSUME Pending(r) PROVE Pending(q)
  <2>1. PICK i \in 1 .. Len(r) : r[i] = StateChanged
    BY <1>4 DEF Pending
  <2>2. i + 1 \in 1 .. Len(q) /\ q[i + 1] = StateChanged
    BY <1>1, <2>1
  <2> QED
    BY <2>2 DEF Pending
<1> QED
  BY <1>2, <1>3, <1>4 DEF r

LEMMA StateChangedTask ==
  ASSUME NEW t \in Task
  PROVE  t.task = "state_changed" <=> t = StateChanged
  BY DEF Task, StateChanged, Opened, Closed, SetReady

LEMMA OpenConnectionPending ==
  ASSUME NEW svcs, NEW inv, NEW opn, NEW conn, NEW version, NEW rdy, NEW hnd,
         NEW dev, NEW q \in Seq(Task),
         open_connection(svcs, inv, opn, conn, version, rdy, hnd, dev, q)
  PROVE  Pending(queue')
<1>1. q \o ClearNotices(version, rdy) \in Seq(Task)
  <2>1. ClearNotices(version, rdy) \in Seq(Task)
    BY ClearNoticesType
  <2> QED
    BY <2>1
<1>2. \/ queue' = q \o <<StateChanged>>
      \/ queue' = q \o ClearNotices(version, rdy) \o <<StateChanged>>
      \/ queue' = q \o ClearNotices(version, rdy)
                    \o <<StateChanged, Opened, StateChanged>>
  BY DEF open_connection
<1> QED
  BY <1>1, <1>2, PendingLast

LEMMA VisibleUnchanged ==
  ASSUME UNCHANGED <<driver_version, ready>>
  PROVE  VisibleStatus' = VisibleStatus
  BY DEF VisibleStatus, VisibleReady, driver_connected, driver_version_mismatched

\* Every step of the client is a step of StatusSource, or invisible there.
LEMMA StepRefines ==
  ASSUME IInv, IInv', [Next]_vars
  PROVE  Source!SourceNext \/ UNCHANGED Source!svars
<1>0. TypeOK /\ TypeOK'
  BY DEF IInv
<1>s. VisibleStatus' \in Status
  <2>1. ready' \in [Device -> OptBool]
    BY <1>0 DEF TypeOK
  <2>2. \A d \in Device : VisibleReady(d)' \in OptBool
    BY <2>1 DEF VisibleReady, OptBool
  <2>3. [d \in Device |-> VisibleReady(d)]' \in [Device -> OptBool]
    BY <2>2
  <2>4. driver_connected' \in BOOLEAN /\ driver_version_mismatched' \in BOOLEAN
    BY DEF driver_connected, driver_version_mismatched
  <2> QED
    BY <2>3, <2>4 DEF VisibleStatus, Status
<1> DEFINE Stutter == /\ VisibleStatus' = VisibleStatus
                      /\ Pending(queue') = Pending(queue)
                      /\ seen' = seen
<1>1. ASSUME Stutter PROVE UNCHANGED Source!svars
  BY <1>1 DEF Source!svars
<1>2. ASSUME Pending(queue'), seen' = seen PROVE Source!SourceNext
  BY <1>s, <1>2 DEF Source!SourceNext, Source!Change
<1>3. ASSUME NEW s \in Service, ServiceStep(s)
      PROVE  Source!SourceNext \/ UNCHANGED Source!svars
  <2>1. CASE ServiceAppears(s) \/ ServiceDies(s)
    <3>1. UNCHANGED <<driver_version, ready, queue, seen>>
      BY <2>1 DEF ServiceAppears, ServiceDies, client
    <3> QED
      BY <1>1, <3>1, VisibleUnchanged
  <2>2. CASE Matched(s)
    BY <1>0, <1>2, <2>2, OpenConnectionPending DEF Matched, service_matched, TypeOK
  <2>3. CASE Terminated(s)
    <3>1. service_terminated(s)
      BY <2>3 DEF Terminated
    <3>2. queue \o <<Closed>> \o ClearNotices(driver_version, ready) \in Seq(Task)
      <4>1. <<Closed>> \in Seq(Task)
        BY TaskFacts
      <4>2. ClearNotices(driver_version, ready) \in Seq(Task)
        BY ClearNoticesType
      <4> QED
        BY <1>0, <4>1, <4>2 DEF TypeOK
    <3>3. Pending(queue')
      BY <1>0, <3>1, <3>2, OpenConnectionPending DEF service_terminated, TypeOK
    <3> QED
      BY <1>2, <3>1, <3>3 DEF service_terminated
  <2> QED
    BY <1>3, <2>1, <2>2, <2>3 DEF ServiceStep
<1>4. ASSUME NEW d \in Polled, DeviceStep(d) PROVE UNCHANGED Source!svars
  <2>1. UNCHANGED <<driver_version, ready, seen>>
    BY <1>4 DEF DeviceStep, initialize, DeviceStarts, query_ready
  <2>2. CASE initialize(d) \/ DeviceStarts(d)
    BY <1>1, <2>1, <2>2, VisibleUnchanged DEF initialize, DeviceStarts
  <2>3. CASE query_ready(d)
    <3>1. PICK v \in ReadyAnswers(d) : queue' = Append(queue, SetReady(d, v))
      BY <2>3 DEF query_ready
    <3>2. d \in Device /\ v \in OptBool
      BY <3>1, ConstantsAssumption DEF Device, ReadyAnswers, OptBool
    <3>3. SetReady(d, v) \in Task /\ SetReady(d, v) # StateChanged
      BY <3>2, TaskFacts DEF SetReady, StateChanged
    <3>4. Pending(queue') <=> Pending(queue)
      BY <1>0, <3>1, <3>3, PendingAppend DEF TypeOK
    <3>5. Pending(queue') = Pending(queue)
      BY <3>4 DEF Pending
    <3> QED
      BY <1>1, <2>1, <3>5, VisibleUnchanged
  <2> QED
    BY <1>4, <2>2, <2>3 DEF DeviceStep
<1>5. ASSUME RunTask PROVE Source!SourceNext \/ UNCHANGED Source!svars
  <2>0. queue # <<>> /\ queue \in Seq(Task)
    BY <1>0, <1>5 DEF RunTask, set_ready, emit_state_changed,
       emit_opened_or_closed, TypeOK
  <2>1. Head(queue) \in Task /\ Tail(queue) \in Seq(Task)
    BY <1>0, <2>0, TailType
  <2>2. Pending(queue) <=> Head(queue) = StateChanged \/ Pending(Tail(queue))
    BY <2>0, PendingTail
  <2>3. Head(queue).task = "state_changed" <=> Head(queue) = StateChanged
    BY <2>1, StateChangedTask
  <2>4. CASE set_ready
    <3> DEFINE d == Head(queue).device
               v == Head(queue).value
    <3>1. /\ d \in Device /\ Head(queue) # StateChanged
          /\ ready' = [ready EXCEPT ![d] = v]
          /\ queue' = Tail(queue) \o Notice(ready[d] # v)
          /\ UNCHANGED <<driver_version, seen>>
      BY <2>1, <2>3, <2>4, SetReadyTask DEF set_ready
    <3> HIDE DEF d, v
    <3>2. CASE ready[d] = v
      <4>1. ready' = ready
        BY <1>0, <3>1, <3>2 DEF TypeOK
      <4>2. queue' = Tail(queue) \o <<>>
        BY <3>1, <3>2 DEF Notice
      <4>3. Pending(queue') <=> Pending(queue)
        <5>1. Tail(queue) \o <<>> = Tail(queue)
          BY <2>1, ConcatEmptySeq
        <5> QED
          BY <2>2, <3>1, <4>2, <5>1
      <4>4. Pending(queue') = Pending(queue)
        BY <4>3 DEF Pending
      <4> QED
        BY <1>1, <3>1, <4>1, <4>4, VisibleUnchanged
    <3>3. CASE ready[d] # v
      <4>1. queue' = Tail(queue) \o <<StateChanged>>
        BY <3>1, <3>3 DEF Notice
      <4>2. Pending(queue')
        BY <2>1, <4>1, PendingLast
      <4> QED
        BY <1>2, <3>1, <4>2
    <3> QED
      BY <3>2, <3>3
  <2>5. CASE emit_state_changed
    <3>1. /\ Pending(queue) /\ seen' = VisibleStatus
          /\ UNCHANGED <<driver_version, ready>>
      BY <2>2, <2>3, <2>5 DEF emit_state_changed
    <3>2. Pending(queue') \in BOOLEAN
      BY DEF Pending
    <3>3. VisibleStatus' = VisibleStatus
      BY <3>1, VisibleUnchanged
    <3> QED
      BY <3>1, <3>2, <3>3 DEF Source!SourceNext, Source!Emit
  <2>6. CASE emit_opened_or_closed
    <3>1. /\ Head(queue) # StateChanged /\ queue' = Tail(queue)
          /\ UNCHANGED <<driver_version, ready, seen>>
      BY <2>3, <2>6 DEF emit_opened_or_closed
    <3>2. Pending(queue') = Pending(queue)
      BY <2>2, <3>1 DEF Pending
    <3> QED
      BY <1>1, <3>1, <3>2, VisibleUnchanged
  <2> QED
    BY <1>5, <2>4, <2>5, <2>6 DEF RunTask
<1>6. ASSUME destruct PROVE Source!SourceNext
  <2>1. /\ driver_version' = NoVersion /\ ready' = Cleared /\ queue' = <<>>
        /\ seen' = InitialStatus
    BY <1>6 DEF destruct
  <2>2. VisibleStatus' = InitialStatus
    BY <2>1 DEF VisibleStatus, VisibleReady, driver_connected,
       driver_version_mismatched, InitialStatus, Cleared
  <2>3. Pending(queue') = FALSE
    BY <2>1, PendingEmpty DEF Pending
  <2> QED
    BY <2>1, <2>2, <2>3 DEF Source!SourceNext, Source!Renew
<1>7. ASSUME UNCHANGED vars PROVE UNCHANGED Source!svars
  BY <1>1, <1>7, VisibleUnchanged DEF vars
<1> QED
  BY <1>3, <1>4, <1>5, <1>6, <1>7 DEF Next

\* Whenever the getters would return something the subscriber has not read yet,
\* another state_changed emission is queued.
THEOREM NoStatusLost == Spec => []StatusNotLost
<1>1. Init => StatusNotLost
  BY DEF Init, StatusNotLost, VisibleStatus, VisibleReady, driver_connected,
     driver_version_mismatched, InitialStatus, Cleared
<1>2. IInv /\ IInv' /\ StatusNotLost /\ [Next]_vars => StatusNotLost'
  <2> SUFFICES ASSUME IInv, IInv', StatusNotLost, [Next]_vars
               PROVE  StatusNotLost'
    OBVIOUS
  <2>1. CASE Source!SourceNext
    BY <2>1 DEF Source!SourceNext, Source!Change, Source!Emit, Source!Renew,
       StatusNotLost
  <2>2. CASE UNCHANGED Source!svars
    BY <2>2 DEF Source!svars, StatusNotLost
  <2> QED
    BY <2>1, <2>2, StepRefines
<1> QED
  BY <1>1, <1>2, IInvHolds, PTL DEF Spec

\* The io_service_client keeps the promise that ClientEntry is built on: it
\* implements StatusSource, with the getters as status and a queued
\* state_changed as pending.
THEOREM RefinesStatusSource == Spec => ImplementsStatusSource
<1>1. Init => Source!SourceInit
  <2> SUFFICES ASSUME Init PROVE Source!SourceInit
    OBVIOUS
  <2>1. VisibleStatus = InitialStatus /\ seen = InitialStatus
    BY DEF Init, VisibleStatus, VisibleReady, driver_connected,
       driver_version_mismatched, InitialStatus, Cleared
  <2>2. Pending(queue) = FALSE
    BY PendingEmpty DEF Init, Pending
  <2> QED
    BY <2>1, <2>2 DEF Source!SourceInit
<1>2. IInv /\ IInv' /\ [Next]_vars => [Source!SourceNext]_(Source!svars)
  BY StepRefines
<1> QED
  BY <1>1, <1>2, IInvHolds, PTL DEF Spec, ImplementsStatusSource, Source!SourceSpec
-----------------------------------------------------------------------------
(***************************************************************************)
(* The monitor, as IoServiceClient assumes it.  What is on its way to the  *)
(* dispatcher thread, or left to a scan, is about services that are there  *)
(* or have been; only dead ones are to be reported as terminated.          *)
(***************************************************************************)
MonitorInv ==
  /\ life \in [Service -> {"absent", "present", "terminated"}]
  /\ \A s \in Service :
       s \in known \cup matched_notes \cup scan_matched => life[s] # "absent"
  /\ \A s \in Service :
       s \in terminated_notes \cup scan_terminated => life[s] = "terminated"

LEMMA LifeGoesOn ==
  ASSUME MonitorInv, NEW s \in Service, Monitor!Appears(s) \/ Monitor!Dies(s)
  PROVE  /\ life' \in [Service -> {"absent", "present", "terminated"}]
         /\ life'[s] # "absent"
         /\ life[s] # "terminated"
         /\ \A x \in Service : x # s => life'[x] = life[x]
         /\ Monitor!Dies(s) => life'[s] = "terminated"
  BY DEF MonitorInv, Monitor!Appears, Monitor!Dies

LEMMA MonitorKeeps ==
  ASSUME MonitorInv, [MonitoredNext]_allvars
  PROVE  MonitorInv'
<1>1. CASE MonitorStart
  BY <1>1 DEF MonitorStart, Monitor!Start, Monitor!Present, MonitorInv
<1>2. ASSUME NEW s \in Service, IOKit(s) PROVE MonitorInv'
  <2>1. Monitor!Appears(s) \/ Monitor!Dies(s)
    BY <1>2 DEF IOKit
  <2>2. /\ life' \in [Service -> {"absent", "present", "terminated"}]
        /\ life'[s] # "absent" /\ life[s] # "terminated"
        /\ \A x \in Service : x # s => life'[x] = life[x]
        /\ Monitor!Dies(s) => life'[s] = "terminated"
    BY <2>1, LifeGoesOn
  <2>3. /\ UNCHANGED <<known, scan_matched, scan_terminated>>
        /\ matched_notes' \subseteq matched_notes \cup {s}
        /\ terminated_notes' \subseteq terminated_notes \cup {s}
        /\ s \in terminated_notes' \ terminated_notes => Monitor!Dies(s)
    BY <2>1 DEF Monitor!Appears, Monitor!Dies
  <2>4. ASSUME NEW x \in Service, x \in known' \cup matched_notes' \cup scan_matched'
        PROVE  life'[x] # "absent"
    BY <2>2, <2>3, <2>4 DEF MonitorInv
  <2>5. ASSUME NEW x \in Service, x \in terminated_notes' \cup scan_terminated'
        PROVE  life'[x] = "terminated"
    BY <2>2, <2>3, <2>5 DEF MonitorInv
  <2> QED
    BY <2>2, <2>4, <2>5 DEF MonitorInv
<1>3. ASSUME NEW s \in Service, NotifyMatched(s) PROVE MonitorInv'
  BY <1>3 DEF NotifyMatched, Monitor!MatchedNotification, MonitorInv
<1>4. ASSUME NEW s \in Service, NotifyTerminated(s) PROVE MonitorInv'
  BY <1>4 DEF NotifyTerminated, Monitor!TerminatedNotification, MonitorInv
<1>5. ASSUME NEW s \in Service, ScanReport(s) PROVE MonitorInv'
  BY <1>5 DEF ScanReport, Monitor!ScanMatched, Monitor!ScanTerminated, MonitorInv
<1>6. CASE ScanTimer
  <2>1. /\ scan_matched' = Monitor!Present \ known
        /\ scan_terminated' = known \ Monitor!Present
        /\ UNCHANGED <<life, known, matched_notes, terminated_notes>>
    BY <1>6 DEF ScanTimer, Monitor!Scan
  <2>2. \A x \in Service : x \in Monitor!Present <=> life[x] = "present"
    BY DEF Monitor!Present
  <2> QED
    BY <2>1, <2>2 DEF MonitorInv
<1>7. CASE Dispatch
  BY <1>7 DEF Dispatch, RunTask, set_ready, emit_state_changed, emit_opened_or_closed, kernel,
     notes, MonitorInv
<1>8. ASSUME NEW d \in Polled, Poll(d) \/ Request(d) \/ Driver(d) PROVE MonitorInv'
  BY <1>8 DEF Poll, Request, Driver, query_ready, initialize, DeviceStarts, kernel, notes,
     MonitorInv
<1>9. CASE UNCHANGED allvars
  BY <1>9 DEF allvars, vars, notes, MonitorInv
<1> QED
  BY <1>1, <1>2, <1>3, <1>4, <1>5, <1>6, <1>7, <1>8, <1>9 DEF MonitoredNext

\* A report is a step of the client if it is news, and none otherwise.
LEMMA ReportIsStep ==
  ASSUME MonitorInv, Accepts, NEW s \in Service,
         known' = known \cup {s}, UNCHANGED life, life[s] # "absent",
         Report(s, s \notin known)
  PROVE  [Next]_vars
<1>1. CASE s \notin known
  <2>1. Matched(s)
    BY <1>1 DEF Matched, Report
  <2> QED
    BY <2>1 DEF Next, ServiceStep
<1>2. CASE s \in known
  <2>1. known' = known /\ UNCHANGED client
    BY <1>2 DEF Report
  <2> QED
    BY <2>1 DEF client, vars
<1> QED
  BY <1>1, <1>2

LEMMA ReportEndIsStep ==
  ASSUME MonitorInv, Accepts, NEW s \in Service,
         known' = known \ {s}, UNCHANGED life, life[s] = "terminated",
         ReportEnd(s)
  PROVE  [Next]_vars
<1>1. CASE s \in known
  <2>1. Terminated(s)
    BY <1>1 DEF Terminated, ReportEnd
  <2> QED
    BY <2>1 DEF Next, ServiceStep
<1>2. CASE s \notin known
  <2>1. known' = known /\ UNCHANGED client
    BY <1>2 DEF ReportEnd
  <2> QED
    BY <2>1 DEF client, vars
<1> QED
  BY <1>1, <1>2

LEMMA MonitoredStep ==
  ASSUME MonitorInv, Accepts, [MonitoredNext]_allvars
  PROVE  [Next]_vars
<1>1. CASE MonitorStart
  BY <1>1 DEF MonitorStart, Monitor!Start, client, vars
<1>2. ASSUME NEW s \in Service, IOKit(s) PROVE [Next]_vars
  <2>1. ServiceAppears(s) \/ ServiceDies(s)
    BY <1>2 DEF IOKit, Monitor!Appears, Monitor!Dies, ServiceAppears, ServiceDies
  <2> QED
    BY <2>1 DEF Next, ServiceStep
<1>3. ASSUME NEW s \in Service, NotifyMatched(s) PROVE [Next]_vars
  <2>1. /\ known' = known \cup {s} /\ UNCHANGED life /\ life[s] # "absent"
        /\ Report(s, s \notin known)
    BY <1>3 DEF NotifyMatched, Monitor!MatchedNotification, MonitorInv
  <2> QED
    BY <2>1, ReportIsStep
<1>4. ASSUME NEW s \in Service, NotifyTerminated(s) PROVE [Next]_vars
  <2>1. /\ known' = known \ {s} /\ UNCHANGED life /\ life[s] = "terminated"
        /\ ReportEnd(s)
    BY <1>4 DEF NotifyTerminated, Monitor!TerminatedNotification, MonitorInv
  <2> QED
    BY <2>1, ReportEndIsStep
<1>5. ASSUME NEW s \in Service, ScanReport(s) PROVE [Next]_vars
  <2>1. CASE Monitor!ScanMatched(s) /\ Report(s, s \notin known)
    <3>1. /\ known' = known \cup {s} /\ UNCHANGED life /\ life[s] # "absent"
          /\ Report(s, s \notin known)
      BY <2>1 DEF Monitor!ScanMatched, MonitorInv
    <3> QED
      BY <3>1, ReportIsStep
  <2>2. CASE Monitor!ScanTerminated(s) /\ ReportEnd(s)
    <3>1. /\ known' = known \ {s} /\ UNCHANGED life /\ life[s] = "terminated"
          /\ ReportEnd(s)
      BY <2>2 DEF Monitor!ScanTerminated, MonitorInv
    <3> QED
      BY <3>1, ReportEndIsStep
  <2> QED
    BY <1>5, <2>1, <2>2 DEF ScanReport
<1>6. CASE ScanTimer
  BY <1>6 DEF ScanTimer, Monitor!Scan, client, vars
<1>7. CASE Dispatch
  BY <1>7 DEF Dispatch, Next
<1>8. ASSUME NEW d \in Polled, Poll(d) \/ Request(d) \/ Driver(d) PROVE [Next]_vars
  BY <1>8 DEF Poll, Request, Driver, Next, DeviceStep
<1>9. CASE UNCHANGED allvars
  BY <1>9 DEF allvars
<1> QED
  BY <1>1, <1>2, <1>3, <1>4, <1>5, <1>6, <1>7, <1>8, <1>9 DEF MonitoredNext

\* As long as the bound MaxQueue of the client's model is not what keeps a
\* report out, the monitor is what IoServiceClient takes it to be: whatever
\* notifications are lost or late, and however scans and notifications overlap,
\* iokit_service_monitor reports a service as matched once, and as terminated
\* once and only when it is.  So all that is proved of the client above holds of
\* the client with its real monitor.
THEOREM MonitorIsAsAssumed ==
  MonitoredSpec /\ []Accepts => ImplementsClient
<1>1. MonitoredInit => MonitorInv /\ Init
  BY DEF MonitoredInit, Init, Monitor!MonitorInit, MonitorInv
<1>2. MonitorInv /\ [MonitoredNext]_allvars => MonitorInv'
  BY MonitorKeeps
<1>3. MonitorInv /\ Accepts /\ [MonitoredNext]_allvars => [Next]_vars
  BY MonitoredStep
<1> QED
  BY <1>1, <1>2, <1>3, PTL DEF MonitoredSpec, ImplementsClient, Spec
=============================================================================
