------------------------- MODULE ClientEntry_proofs --------------------------
(***************************************************************************)
(* Proofs about ClientEntry, for every set of parameters, every choice of  *)
(* wanted devices, and every bound on the queue, on the generations and on *)
(* the failures.                                                           *)
(***************************************************************************)
EXTENDS ClientEntry, Subsequence_proofs

\* The checks of a device are armed with growing generations, the last of which
\* is at most the current one.
InOrder(chk, g) ==
  /\ \A i \in 1 .. Len(chk) : chk[i] <= g
  /\ \A i, j \in 1 .. Len(chk) : i < j => chk[i] < chk[j]

ChecksInOrder == \A d \in Device : InOrder(checks[d], generation[d])

\* A client that is ready was noticed to be; the check may then go by.
ReadyIsKnown == \A d \in Device : client[d] = "ready" => was_ready[d]

\* The driver's keyboard goes with the connection of the client.
NoKeyboardAlone == client["keyboard"] = "none" => keyboard_param = NoParam

EntryInv ==
  /\ EntryTypeOK
  /\ ClientIffEnabled
  /\ ChecksInOrder
  /\ CheckArmed
  /\ ReadyIsKnown
  /\ KeyboardHasParams
  /\ NoKeyboardAlone
  /\ PushNotLost

Armed(chk, g) == \E i \in 1 .. Len(chk) : chk[i] = g
-----------------------------------------------------------------------------
(***************************************************************************)
(* Tasks and queues.                                                       *)
(***************************************************************************)
LEMMA TaskFacts ==
  ASSUME NEW t \in Task
  PROVE  /\ t.task \in {"check", "state_changed", "initialize", "terminate"}
         /\ t.task = "initialize" => t.device \in Device /\ t.param \in Param
         /\ t.task = "terminate" => t.device \in Device
         /\ t.task = "state_changed" => t.source \in Device \cup {"observer"}
  BY DEF Task, Check, StateChanged, Initialize, Terminate

LEMMA MakersOfTasks ==
  /\ Check \in Task
  /\ \A src \in Device \cup {"observer"} : StateChanged(src) \in Task
  /\ \A d \in Device : Terminate(d) \in Task
  /\ \A d \in Device, p \in Param : Initialize(d, p) \in Task
  BY DEF Task

LEMMA DroppingType ==
  ASSUME NEW q \in Seq(Task), NEW gone
  PROVE  Dropping(q, gone) \in Seq(Task)
<1> DEFINE K == {i \in 1 .. Len(q) :
                   q[i].task = "state_changed" => q[i].source \notin gone}
<1>1. \A k \in K : k \in 1 .. Len(q)
  OBVIOUS
<1> HIDE DEF K
<1>2. SubseqAt(q, K) \in Seq(Task)
  BY <1>1, SubseqAtFacts
<1> QED
  BY <1>2 DEF Dropping, K

\* A task put at the end leaves a pending check pending.
LEMMA StillPending ==
  ASSUME NEW q \in Seq(Task), NEW t \in Task
  PROVE  /\ Append(q, t) \in Seq(Task)
         /\ (\E i \in 1 .. Len(q) : q[i].task \in {"check", "state_changed"})
              => \E i \in 1 .. Len(Append(q, t)) :
                   Append(q, t)[i].task \in {"check", "state_changed"}
         /\ t.task = "state_changed"
              => \E i \in 1 .. Len(Append(q, t)) :
                   Append(q, t)[i].task \in {"check", "state_changed"}
<1> DEFINE r == Append(q, t)
<1>1. /\ r \in Seq(Task) /\ Len(q) \in Nat /\ Len(r) = Len(q) + 1 /\ r[Len(q) + 1] = t
      /\ \A i \in 1 .. Len(q) : r[i] = q[i]
  OBVIOUS
<1>2. Len(q) + 1 \in 1 .. Len(r) /\ \A i \in 1 .. Len(q) : i \in 1 .. Len(r)
  BY <1>1
<1> HIDE DEF r
<1> QED
  BY <1>1, <1>2 DEF r

(***************************************************************************)
(* The checks of one device.                                               *)
(***************************************************************************)
LEMMA ArmingKeepsOrder ==
  ASSUME NEW chk \in Seq(Nat), NEW g \in Nat, InOrder(chk, g)
  PROVE  /\ InOrder(Append(chk, g + 1), g + 1)
         /\ Armed(Append(chk, g + 1), g + 1)
         /\ InOrder(chk, g + 1)
<1> DEFINE r == Append(chk, g + 1)
<1>1. /\ r \in Seq(Nat) /\ Len(chk) \in Nat /\ Len(r) = Len(chk) + 1
      /\ r[Len(chk) + 1] = g + 1
      /\ \A i \in 1 .. Len(chk) : r[i] = chk[i] /\ chk[i] \in Nat
  OBVIOUS
<1> HIDE DEF r
<1>2. \A i \in 1 .. Len(r) : r[i] <= g + 1
  BY <1>1 DEF InOrder
<1>3. ASSUME NEW i \in 1 .. Len(r), NEW j \in 1 .. Len(r), i < j PROVE r[i] < r[j]
  <2>1. i \in 1 .. Len(chk) /\ r[i] = chk[i] /\ chk[i] <= g /\ chk[i] \in Nat
    BY <1>1, <1>3 DEF InOrder
  <2>2. CASE j = Len(chk) + 1
    BY <1>1, <2>1, <2>2
  <2>3. CASE j # Len(chk) + 1
    <3>1. j \in 1 .. Len(chk)
      BY <1>1, <2>3
    <3> QED
      BY <1>1, <1>3, <2>1, <3>1 DEF InOrder
  <2> QED
    BY <2>2, <2>3
<1>4. Armed(r, g + 1)
  <2>1. Len(chk) + 1 \in 1 .. Len(r)
    BY <1>1
  <2> QED
    BY <1>1, <2>1 DEF Armed
<1>5. InOrder(chk, g + 1)
  BY <1>1 DEF InOrder
<1>6. InOrder(r, g + 1)
  BY <1>2, <1>3 DEF InOrder
<1> QED
  BY <1>4, <1>5, <1>6 DEF r

\* A check that runs leaves the order; the others are still armed.
LEMMA RunningKeepsOrder ==
  ASSUME NEW chk \in Seq(Nat), NEW g \in Nat, InOrder(chk, g), chk # <<>>
  PROVE  /\ Tail(chk) \in Seq(Nat)
         /\ InOrder(Tail(chk), g)
         /\ Armed(chk, g) /\ Head(chk) # g => Armed(Tail(chk), g)
<1> DEFINE r == Tail(chk)
<1>1. /\ r \in Seq(Nat) /\ Len(chk) \in Nat /\ Len(chk) > 0 /\ Len(r) = Len(chk) - 1
      /\ \A i \in 1 .. Len(r) : r[i] = chk[i + 1]
      /\ Head(chk) = chk[1]
  OBVIOUS
<1> HIDE DEF r
<1>2. \A i \in 1 .. Len(r) : i + 1 \in 1 .. Len(chk) /\ i \in Nat
  BY <1>1
<1>3. InOrder(r, g)
  <2>1. \A i \in 1 .. Len(r) : r[i] <= g
    BY <1>1, <1>2 DEF InOrder
  <2>2. ASSUME NEW i \in 1 .. Len(r), NEW j \in 1 .. Len(r), i < j PROVE r[i] < r[j]
    <3>1. i + 1 < j + 1
      BY <1>2, <2>2
    <3> QED
      BY <1>1, <1>2, <3>1 DEF InOrder
  <2> QED
    BY <2>1, <2>2 DEF InOrder
<1>4. ASSUME Armed(chk, g), Head(chk) # g PROVE Armed(r, g)
  <2>1. PICK i \in 1 .. Len(chk) : chk[i] = g
    BY <1>4 DEF Armed
  <2>2. i - 1 \in 1 .. Len(r) /\ (i - 1) + 1 = i
    BY <1>1, <1>4, <2>1
  <2>3. r[i - 1] = g
    BY <1>1, <2>1, <2>2
  <2> QED
    BY <2>2, <2>3 DEF Armed
<1> QED
  BY <1>1, <1>3, <1>4 DEF r

(***************************************************************************)
(* setup_virtual_hid_devices: what it does to a device whose client is     *)
(* missing, and to any other.                                              *)
(***************************************************************************)
SetupTypes ==
  /\ client \in [Device -> ClientState]
  /\ generation \in [Device -> Nat]
  /\ checks \in [Device -> Seq(Nat)]
  /\ was_ready \in [Device -> BOOLEAN]
  /\ failures \in [Device -> Nat]

SetupDone(en, cl, chk) ==
  \A d \in Device :
    /\ en[d] /\ cl[d] = "none" =>
         /\ client'[d] \in {"starting", "dud"}
         /\ generation'[d] = generation[d] + 1
         /\ checks'[d] = Append(chk[d], generation[d] + 1)
    /\ ~(en[d] /\ cl[d] = "none") =>
         /\ client'[d] = IF en[d] THEN cl[d] ELSE "none"
         /\ generation'[d] = generation[d]
         /\ checks'[d] = chk[d]
    /\ was_ready'[d] = (was_ready[d] /\ cl[d] # "none")

LEMMA TypesForSetup == EntryTypeOK => SetupTypes
  BY DEF EntryTypeOK, SetupTypes

LEMMA SetupFacts ==
  ASSUME SetupTypes,
         NEW en \in [Device -> BOOLEAN],
         NEW cl \in [Device -> ClientState],
         NEW chk \in [Device -> Seq(Nat)],
         setup_virtual_hid_devices(en, cl, chk)
  PROVE  SetupTypes' /\ SetupDone(en, cl, chk)
<1> DEFINE M == Missing(en, cl)
<1>1. M \subseteq Device /\ \A d \in Device : d \in M <=> en[d] /\ cl[d] = "none"
  BY DEF Missing
<1> HIDE DEF M
<1>2. PICK made \in [M -> {"starting", "dud"}] :
        /\ client' = [d \in Device |-> IF d \in M THEN made[d]
                                       ELSE IF en[d] THEN cl[d] ELSE "none"]
        /\ failures' = [d \in Device |-> IF d \in M /\ made[d] = "dud"
                                         THEN failures[d] + 1 ELSE failures[d]]
  BY DEF setup_virtual_hid_devices, M
<1>3. /\ generation' = [d \in Device |-> IF d \in M THEN generation[d] + 1
                                                    ELSE generation[d]]
      /\ checks' = [d \in Device |-> IF d \in M THEN Append(chk[d], generation[d] + 1)
                                                ELSE chk[d]]
      /\ was_ready' = [d \in Device |-> was_ready[d] /\ cl[d] # "none"]
  BY DEF setup_virtual_hid_devices, NewGeneration, M
<1>4. \A d \in M : made[d] \in {"starting", "dud"}
  BY <1>2
<1>5. client' \in [Device -> ClientState]
  BY <1>2, <1>4 DEF ClientState
<1>6. generation' \in [Device -> Nat] /\ failures' \in [Device -> Nat]
  BY <1>2, <1>3 DEF SetupTypes
<1>7. checks' \in [Device -> Seq(Nat)]
  <2>1. \A d \in Device : generation[d] + 1 \in Nat /\ chk[d] \in Seq(Nat)
    BY DEF SetupTypes
  <2>2. \A d \in Device : Append(chk[d], generation[d] + 1) \in Seq(Nat)
    BY <2>1
  <2> QED
    BY <1>3, <2>1, <2>2
<1>8. was_ready' \in [Device -> BOOLEAN]
  BY <1>3
<1>9. \A d \in Device : en[d] /\ cl[d] = "none" =>
              /\ client'[d] \in {"starting", "dud"}
              /\ generation'[d] = generation[d] + 1
              /\ checks'[d] = Append(chk[d], generation[d] + 1)
  BY <1>1, <1>2, <1>3, <1>4
<1>10. \A d \in Device : ~(en[d] /\ cl[d] = "none") =>
              /\ client'[d] = IF en[d] THEN cl[d] ELSE "none"
              /\ generation'[d] = generation[d]
              /\ checks'[d] = chk[d]
  BY <1>1, <1>2, <1>3
<1>11. \A d \in Device : was_ready'[d] = (was_ready[d] /\ cl[d] # "none")
  BY <1>3
<1>12. SetupTypes'
  BY <1>5, <1>6, <1>7, <1>8 DEF SetupTypes
<1>13. SetupDone(en, cl, chk)
  BY <1>9, <1>10, <1>11 DEF SetupDone
<1> QED
  BY <1>12, <1>13

\* What setup_virtual_hid_devices leaves behind, entered with clients of which
\* those that are there are wanted and as they were, and with checks that lack
\* at most the first one of devices without a client.
LEMMA SetupKeeps ==
  ASSUME EntryInv,
         NEW en \in [Device -> BOOLEAN],
         NEW cl \in [Device -> ClientState],
         NEW chk \in [Device -> Seq(Nat)],
         setup_virtual_hid_devices(en, cl, chk),
         \A d \in Device : cl[d] # "none" => en[d] /\ cl[d] = client[d] /\ chk[d] = checks[d],
         \A d \in Device : InOrder(chk[d], generation[d])
  PROVE  /\ \A d \in Device : en[d] <=> client'[d] # "none"
         /\ ChecksInOrder' /\ CheckArmed' /\ ReadyIsKnown'
<1>1. EntryTypeOK
  BY DEF EntryInv
<1>2. SetupDone(en, cl, chk)
  BY <1>1, TypesForSetup, SetupFacts
<1>3. \A d \in Device : generation[d] \in Nat /\ chk[d] \in Seq(Nat)
  BY <1>1 DEF EntryTypeOK
<1>4. ASSUME NEW d \in Device, en[d], cl[d] = "none"
      PROVE  /\ client'[d] # "none" /\ client'[d] # "ready"
             /\ InOrder(checks'[d], generation'[d])
             /\ Armed(checks'[d], generation'[d])
  <2>1. /\ client'[d] \in {"starting", "dud"}
        /\ generation'[d] = generation[d] + 1
        /\ checks'[d] = Append(chk[d], generation[d] + 1)
    BY <1>2, <1>4 DEF SetupDone
  <2>2. /\ InOrder(Append(chk[d], generation[d] + 1), generation[d] + 1)
        /\ Armed(Append(chk[d], generation[d] + 1), generation[d] + 1)
    BY <1>3, ArmingKeepsOrder
  <2> QED
    BY <2>1, <2>2
<1>5. ASSUME NEW d \in Device, ~(en[d] /\ cl[d] = "none")
      PROVE  /\ client'[d] # "none" <=> en[d]
             /\ InOrder(checks'[d], generation'[d])
             /\ client'[d] # "none" /\ ~was_ready'[d] => Armed(checks'[d], generation'[d])
             /\ client'[d] = "ready" => was_ready'[d]
  <2>1. /\ client'[d] = IF en[d] THEN cl[d] ELSE "none"
        /\ generation'[d] = generation[d] /\ checks'[d] = chk[d]
        /\ was_ready'[d] = (was_ready[d] /\ cl[d] # "none")
    BY <1>2, <1>5 DEF SetupDone
  <2>2. client'[d] # "none" => en[d] /\ cl[d] # "none"
    BY <2>1
  <2>3. client'[d] # "none" => client'[d] = client[d] /\ checks'[d] = checks[d]
                               /\ was_ready'[d] = was_ready[d]
    <3>1. was_ready[d] \in BOOLEAN
      BY <1>1 DEF EntryTypeOK
    <3> QED
      BY <2>1, <2>2, <3>1
  <2>4. client[d] # "none" /\ ~was_ready[d] => Armed(checks[d], generation[d])
    BY DEF EntryInv, CheckArmed, Armed
  <2>5. client[d] = "ready" => was_ready[d]
    BY DEF EntryInv, ReadyIsKnown
  <2> QED
    BY <1>5, <2>1, <2>2, <2>3, <2>4, <2>5
<1>6. \A d \in Device : en[d] <=> client'[d] # "none"
  BY <1>4, <1>5
<1>7. ChecksInOrder'
  BY <1>4, <1>5 DEF ChecksInOrder
<1>8. CheckArmed'
  BY <1>4, <1>5 DEF CheckArmed, Armed
<1>9. ReadyIsKnown'
  BY <1>4, <1>5 DEF ReadyIsKnown
<1> QED
  BY <1>6, <1>7, <1>8, <1>9

LEMMA ResponseType ==
  ASSUME EntryTypeOK, NEW cl
  PROVE  make_response(cl) \in Response
  BY DEF EntryTypeOK, make_response, Response

\* A status that is pushed is the current one.
LEMMA Pushed ==
  ASSUME EntryTypeOK, UNCHANGED observed, check_status_changed(client')
  PROVE  PushNotLost' /\ last_response' \in Response
<1>1. last_response' = make_response(client')
  BY DEF check_status_changed
<1>2. make_response(client)' = make_response(client')
  BY DEF make_response, observed
<1>3. make_response(client') \in Response
  BY ResponseType
<1> QED
  BY <1>1, <1>2, <1>3 DEF PushNotLost

(***************************************************************************)
(* Tasks.                                                                  *)
(***************************************************************************)
LEMMA HeadOfQueue ==
  ASSUME EntryTypeOK, NEW name, HasTask(name)
  PROVE  /\ queue \in Seq(Task) /\ queue # <<>>
         /\ Head(queue) \in Task /\ Tail(queue) \in Seq(Task)
         /\ Head(queue).task = name
  BY DEF EntryTypeOK, HasTask

LEMMA RunInitialize ==
  ASSUME EntryInv, run_initialize
  PROVE  EntryInv'
<1> DEFINE d  == Head(queue).device
           p  == Head(queue).param
           en == [enabled EXCEPT ![d] = TRUE]
           cl == [c \in Device |-> IF c \in ReplacedBy(d, p) THEN "none"
                                                             ELSE client[c]]
<1>0. EntryTypeOK /\ ClientIffEnabled /\ ChecksInOrder /\ KeyboardHasParams /\ NoKeyboardAlone
  BY DEF EntryInv
<1>1. /\ HasTask("initialize")
      /\ enabled' = en
      /\ params' = IF d = "keyboard" THEN p ELSE params
      /\ keyboard_param' = IF cl["keyboard"] = "none" THEN NoParam ELSE keyboard_param
      /\ queue' = Dropping(Tail(queue), ReplacedBy(d, p))
      /\ setup_virtual_hid_devices(en, cl, checks)
      /\ check_status_changed(client')
      /\ UNCHANGED observed
  BY DEF run_initialize
<1>2. d \in Device /\ p \in Param /\ Tail(queue) \in Seq(Task)
  BY <1>0, <1>1, HeadOfQueue, TaskFacts
<1> HIDE DEF d, p
<1>3. en \in [Device -> BOOLEAN] /\ cl \in [Device -> ClientState]
  BY <1>0, <1>2 DEF EntryTypeOK, ClientState
<1>4. checks \in [Device -> Seq(Nat)] /\ generation \in [Device -> Nat]
  BY <1>0 DEF EntryTypeOK
<1>5. \A c \in Device : cl[c] # "none" => en[c] /\ cl[c] = client[c]
  BY <1>0, <1>2 DEF ClientIffEnabled, EntryTypeOK
<1>6. \A c \in Device : InOrder(checks[c], generation[c])
  BY <1>0 DEF ChecksInOrder
<1>7. cl["keyboard"] = "none" \/ params' = params
  BY <1>1, <1>2 DEF ReplacedBy, Device
<1> DEFINE dropped == Dropping(Tail(queue), ReplacedBy(d, p))
<1>8. dropped \in Seq(Task)
  BY <1>2, DroppingType
<1>9. params' \in Param /\ keyboard_param' \in Param \cup {NoParam}
  BY <1>0, <1>1, <1>2 DEF EntryTypeOK
<1> HIDE DEF en, cl, dropped
<1>10. SetupTypes' /\ SetupDone(en, cl, checks)
  BY <1>0, <1>1, <1>3, <1>4, TypesForSetup, SetupFacts
<1>11. /\ \A c \in Device : en[c] <=> client'[c] # "none"
       /\ ChecksInOrder' /\ CheckArmed' /\ ReadyIsKnown'
  BY <1>1, <1>3, <1>4, <1>5, <1>6, SetupKeeps
<1>12. ClientIffEnabled'
  BY <1>1, <1>11 DEF ClientIffEnabled
<1>13. PushNotLost' /\ last_response' \in Response
  BY <1>0, <1>1, Pushed
<1>14. EntryTypeOK'
  <2>1. activated' \in BOOLEAN /\ unreported' \in BOOLEAN /\ driver' \in Driver
    BY <1>0, <1>1 DEF EntryTypeOK, observed
  <2>2. enabled' \in [Device -> BOOLEAN] /\ queue' \in Seq(Task)
    BY <1>1, <1>3, <1>8 DEF dropped
  <2> QED
    BY <2>1, <2>2, <1>9, <1>10, <1>13 DEF EntryTypeOK, SetupTypes
<1>15. KeyboardHasParams'
  BY <1>0, <1>1, <1>7 DEF KeyboardHasParams
<1>16. NoKeyboardAlone'
  <2>1. "keyboard" \in Device
    BY DEF Device
  <2>2. client'["keyboard"] = "none" => cl["keyboard"] = "none"
    BY <1>10, <2>1, <1>5, <1>11 DEF SetupDone
  <2> QED
    BY <1>1, <2>2 DEF NoKeyboardAlone
<1> QED
  BY <1>11, <1>12, <1>13, <1>14, <1>15, <1>16 DEF EntryInv

LEMMA RunTerminate ==
  ASSUME EntryInv, run_terminate
  PROVE  EntryInv'
<1> DEFINE d == Head(queue).device
<1>0. /\ EntryTypeOK /\ ClientIffEnabled /\ ChecksInOrder /\ CheckArmed /\ ReadyIsKnown
      /\ KeyboardHasParams /\ NoKeyboardAlone
  BY DEF EntryInv
<1>1. /\ HasTask("terminate")
      /\ enabled' = [enabled EXCEPT ![d] = FALSE]
      /\ generation' = [generation EXCEPT ![d] = @ + 1]
      /\ client' = [client EXCEPT ![d] = "none"]
      /\ was_ready' = [was_ready EXCEPT ![d] = FALSE]
      /\ keyboard_param' = IF d = "keyboard" THEN NoParam ELSE keyboard_param
      /\ queue' = Dropping(Tail(queue), {d})
      /\ check_status_changed(client')
      /\ UNCHANGED <<observed, params, checks, failures>>
  BY DEF run_terminate
<1>2. d \in Device /\ Tail(queue) \in Seq(Task)
  BY <1>0, <1>1, HeadOfQueue, TaskFacts
<1> HIDE DEF d
<1>3. PushNotLost' /\ last_response' \in Response
  BY <1>0, <1>1, Pushed
<1>4. queue' \in Seq(Task)
  BY <1>1, <1>2, DroppingType
<1>5. EntryTypeOK'
  BY <1>0, <1>1, <1>2, <1>3, <1>4 DEF EntryTypeOK, ClientState, observed
<1>6. ClientIffEnabled' /\ ReadyIsKnown' /\ NoKeyboardAlone' /\ KeyboardHasParams'
  BY <1>0, <1>1, <1>2
     DEF EntryTypeOK, ClientIffEnabled, ReadyIsKnown, NoKeyboardAlone, KeyboardHasParams, Device
<1>7. ASSUME NEW c \in Device PROVE InOrder(checks'[c], generation'[c])
  <2>1. checks[c] \in Seq(Nat) /\ generation[c] \in Nat /\ InOrder(checks[c], generation[c])
    BY <1>0 DEF EntryTypeOK, ChecksInOrder
  <2>2. InOrder(checks[c], generation[c] + 1)
    BY <2>1, ArmingKeepsOrder
  <2>3. generation'[c] \in {generation[c], generation[c] + 1} /\ checks'[c] = checks[c]
    BY <1>0, <1>1, <1>2 DEF EntryTypeOK
  <2> QED
    BY <2>1, <2>2, <2>3
<1>8. CheckArmed'
  BY <1>0, <1>1, <1>2 DEF EntryTypeOK, CheckArmed
<1> QED
  BY <1>3, <1>5, <1>6, <1>7, <1>8 DEF EntryInv, ChecksInOrder

LEMMA RunCheck ==
  ASSUME EntryInv, run_check
  PROVE  EntryInv'
<1>0. EntryTypeOK
  BY DEF EntryInv
<1>1. /\ HasTask("check") \/ HasTask("state_changed")
      /\ queue' = Tail(queue)
      /\ check_status_changed(client)
      /\ UNCHANGED <<observed, enabled, params, client, keyboard_param, generation, checks,
                     was_ready, failures>>
  BY DEF run_check, history
<1>2. queue' \in Seq(Task)
  BY <1>0, <1>1, HeadOfQueue
<1>3. PushNotLost' /\ last_response' \in Response
  BY <1>0, <1>1, Pushed
<1>4. EntryTypeOK'
  BY <1>0, <1>1, <1>2, <1>3 DEF EntryTypeOK, observed
<1> QED
  BY <1>1, <1>3, <1>4
     DEF EntryInv, ClientIffEnabled, ChecksInOrder, CheckArmed, ReadyIsKnown, KeyboardHasParams,
         NoKeyboardAlone

(***************************************************************************)
(* The readiness check.  It swaps a client that is not ready for one that  *)
(* is not ready yet, so the status pushed last is as right as it was.      *)
(***************************************************************************)
LEMMA ReadinessCheck ==
  ASSUME EntryInv, NEW d \in Device, readiness_check(d)
  PROVE  EntryInv'
<1> DEFINE left == [checks EXCEPT ![d] = Tail(@)]
           cl == [client EXCEPT ![d] = "none"]
<1>0. /\ EntryTypeOK /\ ClientIffEnabled /\ ChecksInOrder /\ CheckArmed /\ ReadyIsKnown
      /\ KeyboardHasParams /\ NoKeyboardAlone /\ PushNotLost
  BY DEF EntryInv
<1>1. /\ queue = <<>> /\ checks[d] # <<>>
      /\ UNCHANGED <<observed, enabled, params, last_response, queue>>
  BY DEF readiness_check, CheckIsDue
<1>2. checks \in [Device -> Seq(Nat)] /\ generation \in [Device -> Nat]
  BY <1>0 DEF EntryTypeOK
<1>3. /\ Tail(checks[d]) \in Seq(Nat) /\ InOrder(Tail(checks[d]), generation[d])
      /\ Armed(checks[d], generation[d]) /\ Head(checks[d]) # generation[d]
           => Armed(Tail(checks[d]), generation[d])
  <2>1. checks[d] \in Seq(Nat) /\ generation[d] \in Nat /\ InOrder(checks[d], generation[d])
    BY <1>0, <1>2 DEF ChecksInOrder
  <2> QED
    BY <1>1, <2>1, RunningKeepsOrder
<1>4. /\ left \in [Device -> Seq(Nat)]
      /\ left[d] = Tail(checks[d])
      /\ \A c \in Device : c # d => left[c] = checks[c]
      /\ \A c \in Device : InOrder(left[c], generation[c])
  BY <1>0, <1>2, <1>3 DEF ChecksInOrder
<1>5. ~CheckPending => ~CheckPending'
  BY <1>1 DEF CheckPending, observed
<1>6. CASE ~Recreates(d)
  <2>1. checks' = left /\ UNCHANGED <<client, keyboard_param, generation, was_ready, failures>>
    BY <1>6 DEF readiness_check, history
  <2> HIDE DEF left
  <2>2. EntryTypeOK'
    BY <1>0, <1>1, <1>4, <2>1 DEF EntryTypeOK, observed
  <2>3. ChecksInOrder'
    BY <1>4, <2>1 DEF ChecksInOrder
  <2>4. CheckArmed'
    <3> SUFFICES ASSUME NEW c \in Device, client[c] # "none", ~was_ready[c]
                 PROVE  Armed(left[c], generation[c])
      BY <2>1 DEF CheckArmed, Armed
    <3>1. Armed(checks[c], generation[c])
      BY <1>0 DEF CheckArmed, Armed
    <3>2. CASE c = d
      <4>1. enabled[d] /\ client[d] # "ready"
        BY <1>0, <3>2 DEF ClientIffEnabled, ReadyIsKnown
      <4>2. Head(checks[d]) # generation[d]
        BY <1>6, <4>1 DEF Recreates
      <4> QED
        BY <1>3, <1>4, <3>1, <3>2, <4>2
    <3>3. CASE c # d
      BY <1>4, <3>1, <3>3
    <3> QED
      BY <3>2, <3>3
  <2>5. PushNotLost'
    BY <1>0, <1>1, <1>5, <2>1 DEF PushNotLost, make_response, observed, CheckPending
  <2> QED
    BY <1>0, <1>1, <2>1, <2>2, <2>3, <2>4, <2>5
       DEF EntryInv, ClientIffEnabled, ReadyIsKnown, KeyboardHasParams, NoKeyboardAlone
<1>7. CASE Recreates(d)
  <2>1. /\ keyboard_param' = IF d = "keyboard" THEN NoParam ELSE keyboard_param
        /\ setup_virtual_hid_devices(enabled, cl, left)
    BY <1>7 DEF readiness_check
  <2>2. enabled[d] /\ client[d] # "ready"
    BY <1>7 DEF Recreates
  <2>3. /\ enabled \in [Device -> BOOLEAN] /\ cl \in [Device -> ClientState]
        /\ cl[d] = "none" /\ \A c \in Device : c # d => cl[c] = client[c]
    BY <1>0 DEF EntryTypeOK, ClientState
  <2>4. \A c \in Device :
          cl[c] # "none" => enabled[c] /\ cl[c] = client[c] /\ left[c] = checks[c]
    BY <1>0, <1>4, <2>3 DEF ClientIffEnabled
  <2> HIDE DEF left, cl
  <2>5. SetupTypes' /\ SetupDone(enabled, cl, left)
    BY <1>0, <1>4, <2>1, <2>3, TypesForSetup, SetupFacts
  <2>6. /\ \A c \in Device : enabled[c] <=> client'[c] # "none"
        /\ ChecksInOrder' /\ CheckArmed' /\ ReadyIsKnown'
    BY <1>4, <2>1, <2>3, <2>4, SetupKeeps
  <2>7. EntryTypeOK'
    BY <1>0, <1>1, <2>1, <2>5 DEF EntryTypeOK, SetupTypes, observed
  <2>8. ClientIffEnabled'
    BY <1>1, <2>6 DEF ClientIffEnabled
  <2>9. KeyboardHasParams'
    BY <1>0, <1>1, <2>1 DEF KeyboardHasParams
  <2>10. \A c \in Device : c # d => client'[c] = client[c]
    <3> SUFFICES ASSUME NEW c \in Device, c # d PROVE client'[c] = client[c]
      OBVIOUS
    <3>1. enabled[c] <=> client[c] # "none"
      BY <1>0 DEF ClientIffEnabled
    <3>2. client'[c] = IF enabled[c] THEN cl[c] ELSE "none"
      BY <2>3, <2>5, <3>1 DEF SetupDone
    <3> QED
      BY <2>3, <3>1, <3>2
  <2>11. client'[d] \in {"starting", "dud"}
    BY <2>2, <2>3, <2>5 DEF SetupDone
  <2>12. NoKeyboardAlone'
    <3>1. "keyboard" \in Device
      BY DEF Device
    <3> QED
      BY <1>0, <2>1, <2>10, <3>1 DEF NoKeyboardAlone
  <2>13. PushNotLost'
    <3>1. \A c \in Device : (client'[c] = "ready") <=> (client[c] = "ready")
      BY <2>2, <2>10, <2>11
    <3>2. [c \in Device |-> client'[c] = "ready"] = [c \in Device |-> client[c] = "ready"]
      BY <3>1
    <3>3. make_response(client)' = make_response(client)
      BY <1>1, <3>2 DEF make_response, observed
    <3> QED
      BY <1>0, <1>1, <1>5, <3>3 DEF PushNotLost, observed, CheckPending
  <2> QED
    BY <2>6, <2>7, <2>8, <2>9, <2>12, <2>13 DEF EntryInv
<1> QED
  BY <1>6, <1>7

(***************************************************************************)
(* Requests, and what happens in the clients and the driver.               *)
(***************************************************************************)
\* A task is enqueued and the status does not change, or a check of it is.
LEMMA Enqueued ==
  ASSUME EntryInv, NEW t \in Task, queue' = Append(queue, t),
         \/ t.task = "state_changed"
         \/ UNCHANGED <<activated, unreported, driver, client, last_response>>
  PROVE  queue' \in Seq(Task) /\ PushNotLost'
<1>1. queue \in Seq(Task) /\ PushNotLost
  BY DEF EntryInv, EntryTypeOK
<1>2. queue' \in Seq(Task)
  BY <1>1, StillPending
<1>3. CASE t.task = "state_changed"
  <2>1. \E i \in 1 .. Len(Append(queue, t)) :
          Append(queue, t)[i].task \in {"check", "state_changed"}
    BY <1>1, <1>3, StillPending
  <2> QED
    BY <1>2, <2>1 DEF PushNotLost, CheckPending
<1>4. CASE UNCHANGED <<activated, unreported, driver, client, last_response>>
  <2>1. CASE CheckPending
    <3>1. (\E i \in 1 .. Len(queue) : queue[i].task \in {"check", "state_changed"})
            => \E i \in 1 .. Len(queue') : queue'[i].task \in {"check", "state_changed"}
      BY <1>1, StillPending
    <3> QED
      BY <1>2, <1>4, <2>1, <3>1 DEF PushNotLost, CheckPending
  <2>2. CASE last_response = make_response(client)
    BY <1>2, <1>4, <2>2 DEF PushNotLost, make_response
  <2> QED
    BY <1>1, <2>1, <2>2 DEF PushNotLost
<1> QED
  BY <1>3, <1>4

\* What the requests and the observing client leave alone.
Untouched == <<enabled, params, client, keyboard_param, generation, checks,
               last_response, was_ready, failures>>

LEMMA UntouchedKeeps ==
  ASSUME EntryInv, UNCHANGED Untouched,
         activated' \in BOOLEAN, unreported' \in BOOLEAN, driver' \in Driver,
         queue' \in Seq(Task), PushNotLost'
  PROVE  EntryInv'
<1>1. EntryTypeOK'
  BY DEF EntryInv, EntryTypeOK, Untouched
<1> QED
  BY <1>1
     DEF EntryInv, Untouched, ClientIffEnabled, ChecksInOrder, CheckArmed, ReadyIsKnown,
         KeyboardHasParams, NoKeyboardAlone

LEMMA RequestStep ==
  ASSUME EntryInv, Requests
  PROVE  EntryInv'
<1>1. PICK d \in Wanted : request_terminate(d) \/ \E p \in Param : request_initialize(d, p)
  BY DEF Requests
<1>2. d \in Device
  BY EntryAssumption DEF Device
<1>3. PICK t \in Task : queue' = Append(queue, t)
  BY <1>1, <1>2, MakersOfTasks DEF request_terminate, request_initialize
<1>4. UNCHANGED <<activated, unreported, driver>> /\ UNCHANGED Untouched
  BY <1>1 DEF request_terminate, request_initialize, observed, history, Untouched
<1>5. queue' \in Seq(Task) /\ PushNotLost'
  BY <1>3, <1>4, Enqueued DEF Untouched
<1>6. activated' \in BOOLEAN /\ unreported' \in BOOLEAN /\ driver' \in Driver
  BY <1>4 DEF EntryInv, EntryTypeOK
<1> QED
  BY <1>4, <1>5, <1>6, UntouchedKeeps

LEMMA ClientBecomesReady ==
  ASSUME EntryInv, NEW d \in Device, client_becomes_ready(d)
  PROVE  EntryInv'
<1>0. /\ EntryTypeOK /\ ClientIffEnabled /\ ChecksInOrder /\ CheckArmed /\ ReadyIsKnown
      /\ KeyboardHasParams /\ NoKeyboardAlone
  BY DEF EntryInv
<1>1. /\ client[d] = "starting"
      /\ client' = [client EXCEPT ![d] = "ready"]
      /\ was_ready' = [was_ready EXCEPT ![d] = TRUE]
      /\ queue' = Append(queue, StateChanged(d))
      /\ UNCHANGED <<observed, enabled, params, keyboard_param, generation, checks,
                     last_response, failures>>
  BY DEF client_becomes_ready
<1>2. StateChanged(d) \in Task /\ StateChanged(d).task = "state_changed"
  BY MakersOfTasks DEF StateChanged
<1>3. queue' \in Seq(Task) /\ PushNotLost'
  BY <1>1, <1>2, Enqueued
<1>4. /\ client'[d] = "ready" /\ was_ready'[d]
      /\ \A c \in Device : c # d => client'[c] = client[c] /\ was_ready'[c] = was_ready[c]
  BY <1>0, <1>1 DEF EntryTypeOK
<1>5. EntryTypeOK'
  BY <1>0, <1>1, <1>3 DEF EntryTypeOK, ClientState, observed
<1>6. ClientIffEnabled' /\ CheckArmed' /\ ReadyIsKnown'
  BY <1>0, <1>1, <1>4 DEF ClientIffEnabled, CheckArmed, ReadyIsKnown
<1>7. ChecksInOrder' /\ KeyboardHasParams' /\ NoKeyboardAlone'
  BY <1>0, <1>1, <1>4 DEF ChecksInOrder, KeyboardHasParams, NoKeyboardAlone, Device
<1> QED
  BY <1>3, <1>5, <1>6, <1>7 DEF EntryInv

LEMMA ClientLosesReady ==
  ASSUME EntryInv, NEW d \in Device, client_loses_ready(d)
  PROVE  EntryInv'
<1>0. /\ EntryTypeOK /\ ClientIffEnabled /\ ChecksInOrder /\ CheckArmed /\ ReadyIsKnown
      /\ KeyboardHasParams /\ NoKeyboardAlone
  BY DEF EntryInv
<1>1. /\ client[d] = "ready"
      /\ \/ client' = [client EXCEPT ![d] = "starting"] /\ UNCHANGED failures
         \/ /\ client' = [client EXCEPT ![d] = "dud"]
            /\ failures' = [failures EXCEPT ![d] = @ + 1]
      /\ keyboard_param' \in {keyboard_param, NoParam}
      /\ queue' = Append(queue, StateChanged(d))
      /\ UNCHANGED <<observed, enabled, params, generation, checks, last_response, was_ready>>
  BY DEF client_loses_ready
<1>2. StateChanged(d) \in Task /\ StateChanged(d).task = "state_changed"
  BY MakersOfTasks DEF StateChanged
<1>3. queue' \in Seq(Task) /\ PushNotLost'
  BY <1>1, <1>2, Enqueued
<1>4. /\ client'[d] \in {"starting", "dud"} /\ was_ready[d]
      /\ \A c \in Device : c # d => client'[c] = client[c]
  BY <1>0, <1>1 DEF EntryTypeOK, ReadyIsKnown
<1>5. EntryTypeOK'
  <2>1. client' \in [Device -> ClientState]
    BY <1>0, <1>1 DEF EntryTypeOK, ClientState
  <2>2. failures' \in [Device -> Nat]
    <3>1. failures \in [Device -> Nat]
      BY <1>0 DEF EntryTypeOK
    <3>2. failures' = failures \/ failures' = [failures EXCEPT ![d] = @ + 1]
      BY <1>1
    <3> QED
      BY <3>1, <3>2
  <2>3. keyboard_param' \in Param \cup {NoParam}
    BY <1>0, <1>1 DEF EntryTypeOK
  <2> QED
    BY <1>0, <1>1, <1>3, <2>1, <2>2, <2>3 DEF EntryTypeOK, observed
<1>6. ClientIffEnabled' /\ CheckArmed' /\ ReadyIsKnown'
  BY <1>0, <1>1, <1>4 DEF ClientIffEnabled, CheckArmed, ReadyIsKnown
<1>7. ChecksInOrder' /\ KeyboardHasParams' /\ NoKeyboardAlone'
  BY <1>0, <1>1, <1>4 DEF ChecksInOrder, KeyboardHasParams, NoKeyboardAlone, Device
<1> QED
  BY <1>3, <1>5, <1>6, <1>7 DEF EntryInv

LEMMA ClientOpened ==
  ASSUME EntryInv, client_opened
  PROVE  EntryInv'
<1>0. /\ EntryTypeOK /\ KeyboardHasParams /\ PushNotLost
  BY DEF EntryInv
<1>1. /\ client["keyboard"] # "none"
      /\ keyboard_param' = IF keyboard_param = NoParam THEN params ELSE keyboard_param
      /\ UNCHANGED <<activated, unreported, driver, enabled, params, client, generation,
                     checks, last_response, queue, was_ready, failures>>
  BY DEF client_opened, observed, history
<1>2. EntryTypeOK' /\ KeyboardHasParams' /\ NoKeyboardAlone'
  BY <1>0, <1>1 DEF EntryTypeOK, KeyboardHasParams, NoKeyboardAlone
<1>3. PushNotLost'
  BY <1>0, <1>1 DEF PushNotLost, CheckPending, make_response
<1> QED
  BY <1>1, <1>2, <1>3 DEF EntryInv, ClientIffEnabled, ChecksInOrder, CheckArmed, ReadyIsKnown

LEMMA DriverStep ==
  ASSUME EntryInv, registry_changes \/ observer_changes
  PROVE  EntryInv'
<1>0. EntryTypeOK
  BY DEF EntryInv
<1>1. CASE registry_changes
  <2>1. /\ activated' = ~activated /\ unreported' = TRUE
        /\ UNCHANGED <<driver, queue>> /\ UNCHANGED Untouched
    BY <1>1 DEF registry_changes, Untouched, history
  <2>2. PushNotLost'
    BY <2>1 DEF PushNotLost, CheckPending
  <2>3. activated' \in BOOLEAN /\ unreported' \in BOOLEAN /\ driver' \in Driver
    BY <1>0, <2>1 DEF EntryTypeOK
  <2>4. queue' \in Seq(Task)
    BY <1>0, <2>1 DEF EntryTypeOK
  <2> QED
    BY <2>1, <2>2, <2>3, <2>4, UntouchedKeeps
<1>2. CASE observer_changes
  <2>1. /\ driver' \in Driver /\ unreported' = FALSE
        /\ queue' = Append(queue, StateChanged("observer"))
        /\ UNCHANGED activated /\ UNCHANGED Untouched
    BY <1>2 DEF observer_changes, Untouched, history
  <2>2. StateChanged("observer") \in Task /\ StateChanged("observer").task = "state_changed"
    BY MakersOfTasks DEF StateChanged
  <2>3. queue' \in Seq(Task) /\ PushNotLost'
    BY <2>1, <2>2, Enqueued
  <2>4. activated' \in BOOLEAN /\ unreported' \in BOOLEAN
    BY <1>0, <2>1 DEF EntryTypeOK
  <2> QED
    BY <2>1, <2>3, <2>4, UntouchedKeeps
<1> QED
  BY <1>1, <1>2

-----------------------------------------------------------------------------
LEMMA EntryInvInit ==
  ASSUME EntryInit
  PROVE  EntryInv
<1>1. queue = <<Check>> /\ <<Check>> \in Seq(Task)
  BY MakersOfTasks DEF EntryInit, peer_connected
<1>2. EntryTypeOK
  BY <1>1, EntryAssumption DEF EntryInit, EntryTypeOK, Driver, ClientState
<1>3. ClientIffEnabled /\ CheckArmed /\ ReadyIsKnown /\ KeyboardHasParams /\ NoKeyboardAlone
  BY DEF EntryInit, ClientIffEnabled, CheckArmed, ReadyIsKnown, KeyboardHasParams, NoKeyboardAlone
<1>4. ChecksInOrder
  BY DEF EntryInit, ChecksInOrder, InOrder
<1>5. PushNotLost
  <2>1. Len(queue) = 1 /\ queue[1].task = "check"
    BY <1>1 DEF Check
  <2> QED
    BY <2>1 DEF PushNotLost, CheckPending
<1> QED
  BY <1>2, <1>3, <1>4, <1>5 DEF EntryInv

LEMMA EntryInvStep ==
  ASSUME EntryInv, [EntryNext]_evars
  PROVE  EntryInv'
<1>1. CASE Requests
  BY <1>1, RequestStep
<1>2. CASE Clients
  BY <1>2, ClientBecomesReady, ClientLosesReady, ClientOpened, DriverStep DEF Clients
<1>3. CASE RunTask
  BY <1>3, RunInitialize, RunTerminate, RunCheck DEF RunTask
<1>4. CASE \E d \in Device : readiness_check(d)
  BY <1>4, ReadinessCheck
<1>5. CASE UNCHANGED evars
  <2>1. UNCHANGED Untouched /\ UNCHANGED <<activated, unreported, driver, queue>>
    BY <1>5 DEF evars, Untouched
  <2>2. PushNotLost'
    BY <2>1 DEF EntryInv, PushNotLost, CheckPending, make_response, Untouched
  <2>3. /\ activated' \in BOOLEAN /\ unreported' \in BOOLEAN /\ driver' \in Driver
        /\ queue' \in Seq(Task)
    BY <2>1 DEF EntryInv, EntryTypeOK
  <2> QED
    BY <2>1, <2>2, <2>3, UntouchedKeeps
<1> QED
  BY <1>1, <1>2, <1>3, <1>4, <1>5 DEF EntryNext

\* Of checks in order, only the last can be of the current generation.
LEMMA LastIsOwn ==
  ASSUME EntryTypeOK, ChecksInOrder
  PROVE  OnlyOwnCheckActs
<1> SUFFICES ASSUME NEW d \in Device, NEW i \in 1 .. Len(checks[d]) - 1
             PROVE  checks[d][i] # generation[d]
  BY DEF OnlyOwnCheckActs
<1>1. checks[d] \in Seq(Nat) /\ generation[d] \in Nat
  BY DEF EntryTypeOK
<1> DEFINE n == Len(checks[d])
<1>2. i \in 1 .. n /\ n \in 1 .. n /\ i < n
  BY <1>1
<1>3. checks[d][i] < checks[d][n] /\ checks[d][n] <= generation[d]
  BY <1>2 DEF ChecksInOrder, InOrder
<1>4. checks[d][i] \in Nat /\ checks[d][n] \in Nat
  BY <1>1, <1>2
<1> QED
  BY <1>1, <1>3, <1>4

LEMMA EntryInvHolds == EntrySpec => []EntryInv
<1>1. EntryInit => EntryInv
  BY EntryInvInit
<1>2. EntryInv /\ [EntryNext]_evars => EntryInv'
  BY EntryInvStep
<1> QED
  BY <1>1, <1>2, PTL DEF EntrySpec

\* The entry's members keep their types: every task in the queue names a device
\* and parameters that exist, also after tasks were dropped with their object.
THEOREM EntryTypeCorrect == EntrySpec => []EntryTypeOK
<1>1. EntryInv => EntryTypeOK
  BY DEF EntryInv
<1> QED
  BY <1>1, EntryInvHolds, PTL

\* The status pushed last is the current one unless a check of it is on its way
\* (check_status_changed), for any number of requests, failures and checks.
THEOREM PushNeverLost == EntrySpec => []PushNotLost
<1>1. EntryInv => PushNotLost
  BY DEF EntryInv
<1> QED
  BY <1>1, EntryInvHolds, PTL

\* A device has a client exactly while it is enabled, whatever creates and
\* destroys clients (setup_virtual_hid_devices, the checks, the requests).
THEOREM ClientFollowsFlag == EntrySpec => []ClientIffEnabled
<1>1. EntryInv => ClientIffEnabled
  BY DEF EntryInv
<1> QED
  BY <1>1, EntryInvHolds, PTL

\* A client that was never ready has its own check ahead of it
\* (create_virtual_hid_client), so it cannot stay in place for ever.
THEOREM CheckStaysArmed == EntrySpec => []CheckArmed
<1>1. EntryInv => CheckArmed
  BY DEF EntryInv
<1> QED
  BY <1>1, EntryInvHolds, PTL

\* Generations tell the checks of earlier clients from the current one's: only
\* the newest pending check of a device acts on its client.
THEOREM EarlierChecksIdle == EntrySpec => []OnlyOwnCheckActs
<1>1. EntryInv => OnlyOwnCheckActs
  BY LastIsOwn DEF EntryInv
<1> QED
  BY <1>1, EntryInvHolds, PTL

\* The driver's keyboard has the parameters of the last initialize request that
\* was carried out: initialize_keyboard replaces the client if they change.
THEOREM KeyboardParamsRight == EntrySpec => []KeyboardHasParams
<1>1. EntryInv => KeyboardHasParams
  BY DEF EntryInv
<1> QED
  BY <1>1, EntryInvHolds, PTL
=============================================================================
