---------------------------- MODULE MessagingProofs ----------------------------
(***************************************************************************)
(* The theorems about dispatchMessage and its two callers, campaigns and   *)
(* automations, for any keys, channels, batches, runs, triggers, workers   *)
(* and faults.  First what every step of dispatchMessage keeps, whoever    *)
(* calls it; then each caller: its steps call dispatchMessage with a key,  *)
(* are a step of it, kill it, or leave it alone.  The two specifications   *)
(* share their constants and are never composed.                           *)
(***************************************************************************)
EXTENDS CampaignSend, AutomationRun, JobLeaseProofs, FiniteSetTheorems

Phases == {"idle", "gates", "insert", "send", "record", "refuse"}
Sends == [at : Phases, key : Keys \cup {"none"}, left : Nat]
Customers == {CustomerOf[k] : k \in Keys}

\* The worker has inserted the row of message k and not recorded an answer.
HasRow(w, k) == sender[w].key = k /\ sender[w].at \in {"send", "record", "refuse"}

DispatchShape ==
  /\ DispatchTypeOK
  /\ sender \in [Workers -> Sends]
  /\ \A w \in Workers : sender[w].at # "idle" => sender[w].key \in Keys

\* A message has at most one holder, and was not delivered before its holder sends it.
OneSender ==
  /\ \A k \in Keys : delivered[k] <= 1
  /\ \A k \in Keys : message[k] = "none" =>
       delivered[k] = 0 /\ \A w \in Workers : ~HasRow(w, k)
  /\ \A k \in Keys, u, w \in Workers : HasRow(u, k) /\ HasRow(w, k) => u = w
  /\ \A w \in Workers : sender[w].at = "send" => delivered[sender[w].key] = 0

\* What a customer has got, and what a dispatch past the gates may still give him.
OnItsWay(w, k) == sender[w].key = k /\ sender[w].at \in {"insert", "send"}
Exposed(c) == {k \in Keys : CustomerOf[k] = c /\ (delivered[k] > 0 \/ \E w \in Workers : OnItsWay(w, k))}
RoomLeft(c) == Cardinality(Exposed(c)) <= WeeklyCap

\* Rows change, if at all, without going.
RowsStay ==
  /\ message' \in [Keys -> {"none", "queued", "sent", "failed"}]
  /\ \A k \in Keys : message'[k] = "none" => message[k] = "none"

DispatchInv ==
  /\ DispatchShape /\ OneSender
  /\ \A c \in Customers \ (crowded \cup uncounted) : RoomLeft(c)

LEMMA ExposedFinite ==
  ASSUME NEW c
  PROVE  IsFiniteSet(Exposed(c)) /\ Cardinality(Exposed(c)) \in Nat
<1>1. Exposed(c) \subseteq Keys
  BY DEF Exposed
<1> QED
  BY <1>1, DispatchAssumption, FS_Subset, FS_CardinalityType

LEMMA LessExposed ==
  ASSUME NEW c, Exposed(c)' \subseteq Exposed(c), RoomLeft(c)
  PROVE  RoomLeft(c)'
<1> DEFINE m == Cardinality(Exposed(c))
<1>1. m \in Nat /\ m' \in Nat /\ m' <= m
  BY ExposedFinite, FS_Subset, FS_CardinalityType
<1>2. m <= WeeklyCap /\ WeeklyCap \in Nat
  BY DispatchAssumption DEF RoomLeft
<1> HIDE DEF m
<1>3. m' <= WeeklyCap
  BY <1>1, <1>2
<1> QED
  BY <1>3 DEF m, RoomLeft

LEMMA SameRows ==
  ASSUME DispatchInv, UNCHANGED message
  PROVE  RowsStay
BY DEF DispatchInv, DispatchShape, DispatchTypeOK, RowsStay

LEMMA InvImpliesProperties == DispatchInv => DeliveredOnce /\ WithinCap
<1> SUFFICES ASSUME DispatchInv PROVE DeliveredOnce /\ WithinCap
  OBVIOUS
<1>1. DeliveredOnce
  BY DEF DispatchInv, DispatchShape, OneSender, DeliveredOnce
<1>2. ASSUME NEW c \in Customers \ (crowded \cup uncounted)
      PROVE  Cardinality(DeliveredTo(c)) <= WeeklyCap
  <2> DEFINE m == Cardinality(Exposed(c))
             n == Cardinality(DeliveredTo(c))
  <2>1. DeliveredTo(c) \subseteq Exposed(c)
    BY DEF DeliveredTo, Exposed
  <2>2. m \in Nat /\ n \in Nat /\ n <= m
    BY <2>1, ExposedFinite, FS_Subset, FS_CardinalityType
  <2>3. m <= WeeklyCap /\ WeeklyCap \in Nat
    BY <1>2, DispatchAssumption DEF DispatchInv, RoomLeft
  <2> HIDE DEF m, n
  <2>4. n <= WeeklyCap
    BY <2>2, <2>3
  <2> QED
    BY <2>4 DEF n
<1> QED
  BY <1>1, <1>2 DEF WithinCap, Customers

LEMMA DispatchInitially == DispatchInit => DispatchInv
<1> SUFFICES ASSUME DispatchInit PROVE DispatchInv
  OBVIOUS
<1>1. NoSend \in Sends /\ NoSend.at = "idle"
  BY DEF NoSend, Sends, Phases
<1>2. DispatchShape
  BY <1>1 DEF DispatchInit, DispatchShape, DispatchTypeOK
<1>3. OneSender
  BY <1>1 DEF DispatchInit, OneSender, HasRow
<1>4. ASSUME NEW c \in Customers PROVE RoomLeft(c)
  <2>1. Exposed(c) = {}
    BY <1>1 DEF Exposed, OnItsWay, DispatchInit
  <2> QED
    BY <2>1, FS_EmptySet, DispatchAssumption DEF RoomLeft
<1> QED
  BY <1>2, <1>3, <1>4 DEF DispatchInv

----------------------------------------------------------------------------
(* A worker's sender changes to q, nothing else or only what is said.      *)

\* Who stops, or starts over, holds nothing and is not past the cap.
LEMMA LetsGo ==
  ASSUME DispatchInv, NEW w \in Workers, NEW q \in Sends,
         q.at \in {"idle", "gates"}, q.at # "idle" => q.key \in Keys,
         sender' = [sender EXCEPT ![w] = q], RowsStay, UNCHANGED <<delivered, crowded, uncounted>>
  PROVE  DispatchInv'
<1>1. sender' \in [Workers -> Sends] /\ \A u \in Workers : sender'[u] = IF u = w THEN q ELSE sender[u]
  BY DEF DispatchInv, DispatchShape
<1>2. DispatchShape'
  BY <1>1 DEF DispatchInv, DispatchShape, DispatchTypeOK, RowsStay, Sends, Phases
<1>3. \A u \in Workers, k \in Keys : HasRow(u, k)' => HasRow(u, k) /\ u # w
  BY <1>1 DEF HasRow
<1>4. OneSender'
  BY <1>1, <1>3 DEF DispatchInv, OneSender, RowsStay
<1>5. ASSUME NEW c \in Customers \ (crowded \cup uncounted)' PROVE RoomLeft(c)'
  <2>1. \A u \in Workers, k \in Keys : OnItsWay(u, k)' => OnItsWay(u, k)
    BY <1>1 DEF OnItsWay
  <2>2. Exposed(c)' \subseteq Exposed(c)
    BY <2>1 DEF Exposed
  <2> QED
    BY <1>5, <2>2, LessExposed DEF DispatchInv
<1> QED
  BY <1>2, <1>4, <1>5 DEF DispatchInv, Customers

LEMMA LeaveKeeps ==
  ASSUME DispatchInv, NEW w \in Workers, Leave(w), RowsStay, UNCHANGED <<delivered, crowded, uncounted>>
  PROVE  DispatchInv'
<1>1. NoSend \in Sends /\ NoSend.at = "idle"
  BY DEF NoSend, Sends, Phases
<1> QED
  BY <1>1, LetsGo DEF Leave

LEMMA NextChannelKeeps ==
  ASSUME DispatchInv, NEW w \in Workers, NextChannel(w), sender[w].at # "idle",
         RowsStay, UNCHANGED <<delivered, crowded, uncounted>>
  PROVE  DispatchInv'
<1>1. NoSend \in Sends /\ NoSend.at = "idle"
  BY DEF NoSend, Sends, Phases
<1>2. sender[w] \in Sends /\ sender[w].key \in Keys
  BY DEF DispatchInv, DispatchShape
<1> DEFINE next == [at |-> "gates", key |-> sender[w].key, left |-> sender[w].left - 1]
<1> DEFINE q == IF sender[w].left > 1 THEN next ELSE NoSend
<1>3. sender[w].left > 1 => next \in Sends
  BY <1>2 DEF Sends, Phases
<1>4. sender' = [sender EXCEPT ![w] = q]
  BY DEF NextChannel
<1>5. q \in Sends /\ q.at \in {"idle", "gates"} /\ (q.at # "idle" => q.key \in Keys)
  BY <1>1, <1>2, <1>3
<1> HIDE DEF q
<1> QED
  BY <1>4, <1>5, LetsGo

LEMMA DispatchKeeps ==
  ASSUME DispatchInv, NEW w \in Workers, NEW k \in Keys, Dispatch(w, k)
  PROVE  DispatchInv'
<1> DEFINE q == [at |-> "gates", key |-> k, left |-> Channels[k]]
<1>1. q \in Sends
  BY DispatchAssumption DEF Sends, Phases
<1>2. RowsStay
  BY SameRows DEF Dispatch
<1> QED
  BY <1>1, <1>2, LetsGo DEF Dispatch

LEMMA GoesTo ==
  ASSUME DispatchInv, NEW w \in Workers, NEW p \in Phases, GoTo(w, p)
  PROVE  /\ sender' \in [Workers -> Sends]
         /\ \A u \in Workers : sender'[u].key = sender[u].key
         /\ \A u \in Workers : sender'[u].at = IF u = w THEN p ELSE sender[u].at
<1>1. \A u \in Workers : sender[u] \in Sends
  BY DEF DispatchInv, DispatchShape
<1> QED
  BY <1>1 DEF DispatchInv, DispatchShape, GoTo, Sends

\* A count below the cap leaves room for one more.
LEMMA RoomForOne ==
  ASSUME NEW c, NEW k, ~CapReached(c), Exposed(c)' \subseteq SentTo(c) \cup {k}
  PROVE  RoomLeft(c)'
<1> DEFINE n == Cardinality(SentTo(c))
           m == Cardinality(SentTo(c) \cup {k})
           e == Cardinality(Exposed(c))
<1>1. SentTo(c) \subseteq Keys
  BY DEF SentTo
<1>2. IsFiniteSet(SentTo(c)) /\ n \in Nat
  BY <1>1, DispatchAssumption, FS_Subset, FS_CardinalityType
<1>3. IsFiniteSet(SentTo(c) \cup {k}) /\ m \in Nat /\ (m = n \/ m = n + 1)
  BY <1>2, FS_AddElement, FS_CardinalityType
<1>4. e' \in Nat /\ e' <= m
  BY <1>3, FS_Subset, FS_CardinalityType
<1>5. n < WeeklyCap /\ WeeklyCap \in Nat
  BY <1>2, DispatchAssumption DEF CapReached
<1> HIDE DEF n, m, e
<1>6. e' <= WeeklyCap
  BY <1>2, <1>3, <1>4, <1>5
<1> QED
  BY <1>6 DEF e, RoomLeft

LEMMA GatesKeeps ==
  ASSUME DispatchInv, NEW w \in Workers, Gates(w)
  PROVE  DispatchInv'
<1> DEFINE c == CustomerOf[sender[w].key]
<1>0. /\ sender[w].at = "gates" /\ sender[w].key \in Keys /\ c \in Customers
      /\ UNCHANGED <<message, delivered>> /\ RowsStay
  BY SameRows DEF Gates, At, DispatchInv, DispatchShape, Customers
<1>1. CASE /\ GoTo(w, "insert")
           /\ crowded' = crowded \cup {d \in {c} : \E u \in Workers \ {w} : PastGates(u, d)}
           /\ \/ /\ ~CapReached(c)
                 /\ uncounted' = uncounted \cup {d \in {c} : ~(DeliveredTo(d) \subseteq SentTo(d))}
              \/ uncounted' = uncounted \cup {c}
  <2>1. /\ sender' \in [Workers -> Sends]
        /\ \A u \in Workers : sender'[u].key = sender[u].key
        /\ \A u \in Workers : sender'[u].at = IF u = w THEN "insert" ELSE sender[u].at
    BY <1>1, GoesTo DEF Phases
  <2>2. DispatchShape'
    BY <1>0, <1>1, <2>1 DEF DispatchInv, DispatchShape, DispatchTypeOK, Customers
  <2>3. \A u \in Workers, k \in Keys : HasRow(u, k)' <=> HasRow(u, k)
    BY <1>0, <2>1 DEF HasRow
  <2>4. OneSender'
    BY <1>0, <2>1, <2>3 DEF DispatchInv, OneSender
  <2>5. ASSUME NEW d \in Customers \ (crowded \cup uncounted)' PROVE RoomLeft(d)'
    <3>1. \A u \in Workers, k \in Keys : OnItsWay(u, k)' => OnItsWay(u, k) \/ (u = w /\ k = sender[w].key)
      BY <2>1 DEF OnItsWay
    <3>2. CASE d # c
      <4>1. Exposed(d)' \subseteq Exposed(d)
        BY <1>0, <3>1, <3>2 DEF Exposed
      <4> QED
        BY <1>1, <2>5, <4>1, LessExposed DEF DispatchInv
    <3>3. CASE d = c
      <4>1. ~CapReached(d) /\ DeliveredTo(d) \subseteq SentTo(d)
        BY <1>1, <2>5, <3>3
      <4>2. \A u \in Workers, k \in Keys : OnItsWay(u, k) /\ CustomerOf[k] = d => u = w
        BY <1>1, <2>5, <3>3 DEF PastGates, OnItsWay
      <4>3. \A u \in Workers, k \in Keys : OnItsWay(u, k)' /\ CustomerOf[k] = d => k = sender[w].key
        BY <2>1, <3>1, <4>2 DEF OnItsWay
      <4>4. Exposed(d)' \subseteq SentTo(d) \cup {sender[w].key}
        BY <1>0, <4>1, <4>3 DEF Exposed, DeliveredTo
      <4> QED
        BY <4>1, <4>4, RoomForOne
    <3> QED
      BY <3>2, <3>3
  <2> QED
    BY <2>2, <2>4, <2>5 DEF DispatchInv, Customers
<1>2. CASE (NextChannel(w) \/ Leave(w)) /\ UNCHANGED <<crowded, uncounted>>
  BY <1>0, <1>2, NextChannelKeeps, LeaveKeeps
<1> QED
  BY <1>1, <1>2 DEF Gates

LEMMA InsertKeeps ==
  ASSUME DispatchInv, NEW w \in Workers, Insert(w)
  PROVE  DispatchInv'
<1> DEFINE k == sender[w].key
<1>0. sender[w].at = "insert" /\ k \in Keys /\ UNCHANGED <<delivered, crowded, uncounted>>
  BY DEF Insert, At, DispatchInv, DispatchShape
<1>1. CASE /\ KeyFree(k) /\ message' = [message EXCEPT ![k] = "queued"] /\ GoTo(w, "send")
  <2>1. /\ sender' \in [Workers -> Sends]
        /\ \A u \in Workers : sender'[u].key = sender[u].key
        /\ \A u \in Workers : sender'[u].at = IF u = w THEN "send" ELSE sender[u].at
    BY <1>1, GoesTo DEF Phases
  <2>2. DispatchShape'
    BY <1>0, <1>1, <2>1 DEF DispatchInv, DispatchShape, DispatchTypeOK
  <2>3. \A i \in Keys : message'[i] = IF i = k THEN "queued" ELSE message[i]
    BY <1>0, <1>1 DEF DispatchInv, DispatchShape, DispatchTypeOK
  <2>4. delivered[k] = 0 /\ \A u \in Workers : ~HasRow(u, k)
    BY <1>0, <1>1 DEF DispatchInv, OneSender, KeyFree
  <2>5. ASSUME NEW u \in Workers, NEW i \in Keys, HasRow(u, i)'
        PROVE  IF u = w THEN i = k ELSE HasRow(u, i)
    BY <2>1, <2>5 DEF HasRow
  <2>6. OneSender'
    <3>1. \A i \in Keys : delivered'[i] <= 1
      BY <1>0 DEF DispatchInv, OneSender
    <3>2. ASSUME NEW i \in Keys, message'[i] = "none"
          PROVE  delivered'[i] = 0 /\ \A u \in Workers : ~HasRow(u, i)'
      BY <1>0, <2>3, <2>5, <3>2 DEF DispatchInv, OneSender
    <3>3. ASSUME NEW i \in Keys, NEW u \in Workers, NEW v \in Workers, HasRow(u, i)', HasRow(v, i)'
          PROVE  u = v
      BY <2>4, <2>5, <3>3 DEF DispatchInv, OneSender
    <3>4. ASSUME NEW u \in Workers, sender'[u].at = "send"
          PROVE  delivered'[sender'[u].key] = 0
      BY <1>0, <2>1, <2>4, <3>4 DEF DispatchInv, OneSender
    <3> QED
      BY <3>1, <3>2, <3>3, <3>4 DEF OneSender
  <2>7. \A u \in Workers, i \in Keys : OnItsWay(u, i)' => OnItsWay(u, i)
    BY <1>0, <2>1 DEF OnItsWay
  <2>8. \A c : Exposed(c)' \subseteq Exposed(c)
    BY <1>0, <2>7 DEF Exposed
  <2>9. ASSUME NEW c \in Customers \ (crowded \cup uncounted)' PROVE RoomLeft(c)'
    BY <1>0, <2>8, <2>9, LessExposed DEF DispatchInv
  <2> QED
    BY <2>2, <2>6, <2>9 DEF DispatchInv, Customers
<1>2. CASE Leave(w) /\ UNCHANGED message
  BY <1>0, <1>2, LeaveKeeps, SameRows
<1> QED
  BY <1>1, <1>2 DEF Insert

LEMMA SendKeeps ==
  ASSUME DispatchInv, NEW w \in Workers, Send(w)
  PROVE  DispatchInv'
<1> DEFINE k == sender[w].key
<1>0. sender[w].at = "send" /\ k \in Keys /\ UNCHANGED <<message, crowded, uncounted>>
  BY DEF Send, At, DispatchInv, DispatchShape
<1>1. PICK p \in {"record", "refuse"}, got \in {0, 1} :
        GoTo(w, p) /\ delivered' = [delivered EXCEPT ![k] = delivered[k] + got]
  BY DEF Send, GoTo
<1>2. /\ sender' \in [Workers -> Sends]
      /\ \A u \in Workers : sender'[u].key = sender[u].key
      /\ \A u \in Workers : sender'[u].at = IF u = w THEN p ELSE sender[u].at
  BY <1>1, GoesTo DEF Phases
<1>3. HasRow(w, k) /\ delivered[k] = 0 /\ message[k] # "none"
  BY <1>0 DEF HasRow, DispatchInv, OneSender
<1>4. \A i \in Keys : delivered'[i] = IF i = k THEN got ELSE delivered[i]
  BY <1>0, <1>1, <1>3 DEF DispatchInv, DispatchShape, DispatchTypeOK
<1>5. delivered' \in [Keys -> Nat]
  BY <1>0, <1>1, <1>3 DEF DispatchInv, DispatchShape, DispatchTypeOK
<1>6. DispatchShape'
  BY <1>0, <1>2, <1>5 DEF DispatchInv, DispatchShape, DispatchTypeOK, Phases
<1>7. ASSUME NEW u \in Workers, NEW i \in Keys PROVE HasRow(u, i)' <=> HasRow(u, i)
  BY <1>0, <1>2 DEF HasRow
<1>8. OneSender'
  <2>1. \A i \in Keys : delivered'[i] <= 1
    BY <1>4 DEF DispatchInv, OneSender
  <2>2. ASSUME NEW i \in Keys, message'[i] = "none"
        PROVE  delivered'[i] = 0 /\ \A u \in Workers : ~HasRow(u, i)'
    BY <1>0, <1>3, <1>4, <1>7, <2>2 DEF DispatchInv, OneSender
  <2>3. \A i \in Keys, u, v \in Workers : HasRow(u, i)' /\ HasRow(v, i)' => u = v
    BY <1>7 DEF DispatchInv, OneSender
  <2>4. ASSUME NEW u \in Workers, sender'[u].at = "send"
        PROVE  delivered'[sender'[u].key] = 0
    <3>1. u # w /\ sender[u].at = "send" /\ sender[u].key \in Keys
      BY <1>2, <2>4 DEF DispatchInv, DispatchShape
    <3>2. HasRow(u, sender[u].key)
      BY <3>1 DEF HasRow
    <3>3. sender[u].key # k
      BY <1>0, <1>3, <3>1, <3>2 DEF DispatchInv, OneSender
    <3> QED
      BY <1>2, <1>4, <3>1, <3>3 DEF DispatchInv, OneSender
  <2> QED
    BY <2>1, <2>2, <2>3, <2>4 DEF OneSender
<1>9. \A u \in Workers, i \in Keys : OnItsWay(u, i)' => OnItsWay(u, i)
  BY <1>0, <1>2 DEF OnItsWay
<1>10. OnItsWay(w, k)
  BY <1>0 DEF OnItsWay
<1>11. \A c : Exposed(c)' \subseteq Exposed(c)
  BY <1>4, <1>9, <1>10 DEF Exposed
<1>12. ASSUME NEW c \in Customers \ (crowded \cup uncounted)' PROVE RoomLeft(c)'
  BY <1>0, <1>11, <1>12, LessExposed DEF DispatchInv
<1> QED
  BY <1>6, <1>8, <1>12 DEF DispatchInv, Customers

LEMMA RecordKeeps ==
  ASSUME DispatchInv, NEW w \in Workers, Record(w)
  PROVE  DispatchInv'
<1> DEFINE k == sender[w].key
<1>0. /\ sender[w].at \in {"record", "refuse"} /\ k \in Keys
      /\ UNCHANGED <<delivered, crowded, uncounted>>
  BY DEF Record, At, DispatchInv, DispatchShape
<1>1. message \in [Keys -> {"none", "queued", "sent", "failed"}]
  BY DEF DispatchInv, DispatchShape, DispatchTypeOK
<1>2. \/ message' = [message EXCEPT ![k] = "sent"]
      \/ message' = [message EXCEPT ![k] = "failed"]
      \/ UNCHANGED message
  BY DEF Record
<1>3. RowsStay
  BY <1>0, <1>1, <1>2 DEF RowsStay
<1>4. Leave(w) \/ NextChannel(w)
  BY DEF Record
<1> HIDE DEF k
<1> QED
  BY <1>0, <1>3, <1>4, LeaveKeeps, NextChannelKeeps

\* Each step of dispatchMessage, and the death of the worker that is in it.
LEMMA DispatchStepKeeps ==
  ASSUME DispatchInv, NEW w \in Workers, DispatchStep(w) \/ Die(w)
  PROVE  DispatchInv'
<1>1. CASE Die(w)
  BY <1>1, LeaveKeeps, SameRows DEF Die
<1> QED
  BY <1>1, GatesKeeps, InsertKeeps, SendKeeps, RecordKeeps DEF DispatchStep

LEMMA StutterKeeps ==
  ASSUME DispatchInv, UNCHANGED msgVars
  PROVE  DispatchInv'
<1> USE DEF msgVars
<1>1. DispatchShape' /\ OneSender'
  BY DEF DispatchInv, DispatchShape, DispatchTypeOK, OneSender, HasRow
<1>2. \A c \in Customers \ (crowded \cup uncounted)' : RoomLeft(c)'
  BY DEF DispatchInv, RoomLeft, Exposed, OnItsWay
<1> QED
  BY <1>1, <1>2 DEF DispatchInv, Customers

----------------------------------------------------------------------------
(* CampaignSend: who gets a message.                                       *)

CampaignPlaces == {"off", "start", "mark", "fan", "loop", "complete", "done"}
CampaignTasks == [at : CampaignPlaces, job : Jobs \cup {"none"}, todo : Seq(Keys)]

CampaignInv ==
  /\ DispatchInv
  /\ payload \in [Batches -> Seq(Keys)]
  /\ task \in [Workers -> CampaignTasks]
  /\ \A w \in Workers : task[w].at = "start" => task[w].job \in CampaignJobs

LEMMA OffIsATask == Off \in CampaignTasks /\ Off.at = "off"
<1>1. <<>> \in Seq(Keys)
  OBVIOUS
<1> QED
  BY <1>1 DEF Off, CampaignTasks, CampaignPlaces

LEMMA CampaignInitially == Init => CampaignInv
<1> SUFFICES ASSUME Init PROVE CampaignInv
  OBVIOUS
<1>1. payload \in [Batches -> Seq(Keys)]
  BY DEF Init
<1>2. task \in [Workers -> CampaignTasks] /\ \A w \in Workers : task[w].at # "start"
  BY OffIsATask DEF Init
<1> QED
  BY <1>1, <1>2, DispatchInitially DEF Init, CampaignInv

\* The worker's own task, as a step leaves it.
LEMMA TaskMoves ==
  ASSUME CampaignInv, NEW w \in Workers, NEW q \in CampaignTasks,
         task' = [task EXCEPT ![w] = q], q.at = "start" => q.job \in CampaignJobs
  PROVE  /\ task' \in [Workers -> CampaignTasks]
         /\ \A u \in Workers : task'[u].at = "start" => task'[u].job \in CampaignJobs
BY DEF CampaignInv

LEMMA TaskGoes ==
  ASSUME CampaignInv, NEW w \in Workers, NEW p \in CampaignPlaces, Go(w, p), p # "start"
  PROVE  /\ task' \in [Workers -> CampaignTasks]
         /\ \A u \in Workers : task'[u].at = "start" => task'[u].job \in CampaignJobs
<1>1. task[w] \in CampaignTasks
  BY DEF CampaignInv
<1>2. [task[w] EXCEPT !.at = p] \in CampaignTasks /\ [task[w] EXCEPT !.at = p].at = p
  BY <1>1 DEF CampaignTasks
<1>3. task' = [task EXCEPT ![w] = [task[w] EXCEPT !.at = p]]
  BY DEF Go
<1> HIDE DEF CampaignTasks
<1> QED
  BY <1>2, <1>3, TaskMoves

\* The merchant's requests, the cron and the sweep leave the messages and the workers alone.
LEMMA CampaignOutsideKeeps ==
  ASSUME CampaignInv, Merchant \/ Cron \/ \E j \in CampaignJobs : Overdue(j)
  PROVE  CampaignInv'
<1>1. UNCHANGED <<msgVars, payload, task>>
  BY DEF Merchant, DeskRead, DeskWrite, DeskEnqueue, Cron, Overdue, jobVars, runVars
<1> QED
  BY <1>1, StutterKeeps DEF CampaignInv

LEMMA StartKeeps ==
  ASSUME CampaignInv, NEW w \in Workers, NEW j \in CampaignJobs, Start(w, j)
  PROVE  CampaignInv'
<1> DEFINE q == [at |-> "start", job |-> j, todo |-> <<>>]
<1>1. <<>> \in Seq(Keys)
  OBVIOUS
<1>2. q \in CampaignTasks /\ q.job \in CampaignJobs
  BY <1>1, CampaignAssumption DEF CampaignTasks, CampaignPlaces, CampaignJobs
<1>3. task' = [task EXCEPT ![w] = q] /\ UNCHANGED <<msgVars, payload>>
  BY DEF Start
<1> HIDE DEF q
<1> QED
  BY <1>2, <1>3, TaskMoves, StutterKeeps DEF CampaignInv

\* The fan-out changes which jobs there are and what they carry.
LEMMA FanKeeps ==
  ASSUME CampaignInv, NEW w \in Workers, FanRead(w) \/ FanMark(w) \/ Fan(w)
  PROVE  CampaignInv'
<1>1. UNCHANGED msgVars
  BY DEF FanRead, FanMark, Fan
<1>2. \E p \in CampaignPlaces \ {"start"} : Go(w, p)
  BY DEF FanRead, FanMark, Fan, CampaignPlaces
<1>3. payload' \in [Batches -> Seq(Keys)]
  <2>1. CASE UNCHANGED payload
    BY <2>1 DEF CampaignInv
  <2>2. ASSUME NEW a \in Audiences, NEW fresh,
               payload' = [b \in Batches |-> IF b \in fresh THEN a[b] ELSE payload[b]]
        PROVE  payload' \in [Batches -> Seq(Keys)]
    <3>1. a \in [Batches -> Seq(Keys)] /\ payload \in [Batches -> Seq(Keys)]
      BY CampaignAssumption DEF CampaignInv
    <3> QED
      BY <2>2, <3>1
  <2> QED
    BY <2>1, <2>2 DEF FanRead, FanMark, Fan, jobVars
<1> QED
  BY <1>1, <1>2, <1>3, TaskGoes, StutterKeeps DEF CampaignInv

LEMMA BatchReadKeeps ==
  ASSUME CampaignInv, NEW w \in Workers, BatchRead(w)
  PROVE  CampaignInv'
<1>1. UNCHANGED <<msgVars, payload>>
  BY DEF BatchRead, jobVars
<1>2. CASE Go(w, "done")
  BY <1>1, <1>2, TaskGoes, StutterKeeps DEF CampaignInv, CampaignPlaces
<1>3. CASE task' = [task EXCEPT ![w] = [at |-> "loop", job |-> task[w].job, todo |-> payload[task[w].job]]]
  <2>1. task[w] \in CampaignTasks /\ task[w].job \in Batches /\ payload[task[w].job] \in Seq(Keys)
    BY CampaignAssumption DEF CampaignInv, CampaignJobs, CampaignTasks, BatchRead, Dispatching, In
  <2> DEFINE q == [at |-> "loop", job |-> task[w].job, todo |-> payload[task[w].job]]
  <2>2. q \in CampaignTasks /\ q.at # "start"
    BY <2>1 DEF CampaignTasks, CampaignPlaces
  <2>3. task' = [task EXCEPT ![w] = q]
    BY <1>3
  <2> HIDE DEF q
  <2> QED
    BY <1>1, <2>2, <2>3, TaskMoves, StutterKeeps DEF CampaignInv
<1> QED
  BY <1>2, <1>3 DEF BatchRead

\* The only calls of dispatchMessage: for a message of the batch's payload.
LEMMA BatchSendKeeps ==
  ASSUME CampaignInv, NEW w \in Workers, BatchSend(w)
  PROVE  CampaignInv'
<1> DEFINE s == task[w].todo
           q == [task[w] EXCEPT !.todo = Tail(s)]
<1>1. task[w] \in CampaignTasks /\ s \in Seq(Keys) /\ s # <<>> /\ task[w].at = "loop"
  BY DEF CampaignInv, BatchSend, In, CampaignTasks
<1>2. Head(s) \in Keys /\ Tail(s) \in Seq(Keys)
  BY <1>1
<1>3. q \in CampaignTasks /\ q.at # "start"
  BY <1>1, <1>2 DEF CampaignTasks
<1>4. task' = [task EXCEPT ![w] = q]
  BY DEF BatchSend
<1>5. DispatchInv'
  BY <1>2, DispatchKeeps DEF BatchSend, CampaignInv
<1> HIDE DEF q
<1> QED
  BY <1>3, <1>4, <1>5, TaskMoves DEF CampaignInv, BatchSend, jobVars

LEMMA FinishingKeeps ==
  ASSUME CampaignInv, NEW w \in Workers,
         FinalCount(w) \/ FinalWrite(w) \/ End(w) \/ Abort(w) \/ BatchDispatching(w)
  PROVE  CampaignInv'
<1>1. CASE FinalCount(w) \/ FinalWrite(w)
  <2>1. UNCHANGED <<msgVars, payload>> /\ \E p \in CampaignPlaces \ {"start"} : Go(w, p)
    BY <1>1 DEF FinalCount, FinalWrite, jobVars, CampaignPlaces
  <2> QED
    BY <2>1, TaskGoes, StutterKeeps DEF CampaignInv
<1>2. CASE End(w) \/ Abort(w)
  <2>1. UNCHANGED payload /\ task' = [task EXCEPT ![w] = Off]
    BY <1>2 DEF End, Abort
  <2>2. UNCHANGED msgVars \/ Die(w)
    BY <1>2 DEF End, Abort
  <2> QED
    BY <2>1, <2>2, TaskMoves, OffIsATask, StutterKeeps, DispatchStepKeeps DEF CampaignInv
<1>3. CASE BatchDispatching(w)
  BY <1>3, DispatchStepKeeps DEF BatchDispatching, CampaignInv, jobVars, runVars
<1> QED
  BY <1>1, <1>2, <1>3

LEMMA CampaignStepKeeps ==
  ASSUME CampaignInv, [Next]_vars
  PROVE  CampaignInv'
<1>1. CASE UNCHANGED vars
  BY <1>1, StutterKeeps DEF vars, CampaignInv, jobVars, runVars
<1>2. CASE \E w \in Workers : Work(w) \/ Abort(w) \/ \E j \in CampaignJobs : Start(w, j)
  BY <1>2, StartKeeps, FanKeeps, BatchReadKeeps, BatchSendKeeps, FinishingKeeps DEF Work
<1> QED
  BY <1>1, <1>2, CampaignOutsideKeeps DEF Next

\* The inductive invariant holds throughout.
THEOREM CampaignInvariance == Spec => []CampaignInv
<1> USE CampaignInitially, CampaignStepKeeps
<1>1. Init => CampaignInv
  OBVIOUS
<1>2. CampaignInv /\ [Next]_vars => CampaignInv'
  OBVIOUS
<1> QED
  BY <1>1, <1>2, PTL DEF Spec

\* No message of the campaign is delivered twice, however its jobs are interrupted,
\* overtaken and run again: the row inserted under its key before the provider is
\* called admits one sender only.
THEOREM NobodyTwice == Spec => []DeliveredOnce
<1>1. CampaignInv => DeliveredOnce
  BY InvImpliesProperties DEF CampaignInv
<1> QED
  BY <1>1, CampaignInvariance, PTL

----------------------------------------------------------------------------
(* CampaignSend: when it is complete, and what a fan-out leaves.           *)

\* A batch is over: every message of it has had its turn, or it was stopped, or not read.
Over(b) == b \in stopped \cup unread \/ \A n \in DOMAIN payload[b] : payload[b][n] \in handled
Fanned == FannedOut \/ lost \/ "dispatch" \in stopped \cup unread
Todo(w) == {task[w].todo[n] : n \in DOMAIN task[w].todo}

\* A worker in a batch has still to send what has not had its turn; one past the loop,
\* and one that has counted, leaves a batch that is over.
TaskOK(w) ==
  /\ task[w].at = "off" => task[w] = Off
  /\ task[w].at # "off" => task[w].job \in CampaignJobs /\ lease[task[w].job].status # "absent"
  /\ task[w].at \in {"mark", "fan"} => task[w].job = "dispatch"
  /\ task[w].at \in {"loop", "complete"} => task[w].job \in Batches
  /\ task[w].at = "loop" => \A n \in DOMAIN payload[task[w].job] :
                              payload[task[w].job][n] \in handled \cup Todo(w)
  /\ task[w].at \in {"complete", "done"} /\ task[w].job \in Batches => Over(task[w].job)
  /\ task[w].at = "done" /\ task[w].job = "dispatch" => Fanned

BatchOK(b) ==
  /\ lease[b].status = "absent" => payload[b] = <<>>
  /\ lease[b].status = "succeeded" => Over(b)

\* Once a worker has counted none outstanding, batches that were not queued later are over,
\* but for those that a failing count did not see.
CountHolds ==
  Counted => \A b \in Batches \ (late \cup guessed) : lease[b].status = "dead" \/ Over(b)

ToBeQueued == \E n \in Requested : desk[n].at = "enqueue"
DispatchOK ==
  /\ lease["dispatch"].status = "succeeded" => Fanned
  /\ campaign = "sending" => ToBeQueued \/ lost \/ lease["dispatch"].status # "absent"

DeskShape ==
  /\ requests \in Nat
  /\ desk \in [Requested -> {NoRequest} \cup [op : Requests, at : {"write", "enqueue"}]]
  /\ \A n \in Requested : n > requests => desk[n] = NoRequest

CompletionInv ==
  /\ CampaignInv /\ LeaseShape
  /\ DeskShape
  /\ \A w \in Workers : TaskOK(w)
  /\ \A b \in Batches : BatchOK(b)
  /\ CountHolds /\ DispatchOK

LEMMA InvImpliesCompletion == CompletionInv => CompletedIsOver /\ FanOutResumes
<1>1. CompletionInv => CompletedIsOver
  BY DEF CompletionInv, CountHolds, Counted, CompletedIsOver, Over
<1>2. CompletionInv => FanOutResumes
  BY DEF CompletionInv, DispatchOK, FanOutResumes, AtRest, CampaignJobs, Fanned, NoRequest, ToBeQueued
<1> QED
  BY <1>1, <1>2

LEMMA JobsAreJobs ==
  /\ CampaignJobs \subseteq Jobs /\ "dispatch" \in CampaignJobs
  /\ Batches \subseteq CampaignJobs /\ "dispatch" \notin Batches
BY CampaignAssumption DEF CampaignJobs

LEMMA CompletionInitially == Init => CompletionInv
<1> SUFFICES ASSUME Init PROVE CompletionInv
  OBVIOUS
<1>1. CampaignInv /\ LeaseShape /\ \A j \in Jobs : lease[j].status = "absent"
  BY CampaignInitially, LeaseInitially DEF Init
<1>2. \A w \in Workers : task[w] = Off /\ task[w].at = "off"
  BY OffIsATask DEF Init
<1>3. \A w \in Workers : TaskOK(w)
  BY <1>2 DEF TaskOK
<1>4. \A b \in Batches : BatchOK(b)
  BY <1>1, JobsAreJobs DEF Init, BatchOK
<1>5. CountHolds /\ DispatchOK
  BY <1>1, <1>2, JobsAreJobs DEF Init, CountHolds, Counted, In, DispatchOK
<1>6. DeskShape
  BY DEF Init, DeskShape
<1> QED
  BY <1>1, <1>3, <1>4, <1>5, <1>6 DEF CompletionInv

\* What every step leaves: a job that exists goes on existing, a batch keeps the
\* payload it was queued with, and what was done stays done.
Progress ==
  /\ LeaseShape'
  /\ \A j \in Jobs : lease[j].status # "absent" => lease'[j].status # "absent"
  /\ \A b \in Batches : lease[b].status # "absent" => payload'[b] = payload[b]
  /\ handled \subseteq handled' /\ (lost => lost')
  /\ stopped \subseteq stopped' /\ unread \subseteq unread' /\ guessed \subseteq guessed'

LEMMA StaysOver ==
  ASSUME Progress, NEW b \in Batches, lease[b].status # "absent", Over(b)
  PROVE  Over(b)'
BY DEF Progress, Over

LEMMA StaysFanned ==
  ASSUME Progress, Fanned
  PROVE  Fanned'
BY JobsAreJobs DEF Progress, Fanned, FannedOut

\* Of the other workers nothing changes.
LEMMA OthersKeep ==
  ASSUME Progress, NEW u \in Workers, TaskOK(u), task'[u] = task[u]
  PROVE  TaskOK(u)'
<1>1. ASSUME task[u].job \in Batches, Over(task[u].job), task[u].at # "off"
      PROVE  Over(task[u].job)'
  BY <1>1, StaysOver DEF TaskOK, Over
<1>2. ASSUME task[u].at = "loop", NEW n \in DOMAIN payload'[task[u].job]
      PROVE  payload'[task[u].job][n] \in handled' \cup Todo(u)'
  BY <1>2, JobsAreJobs DEF TaskOK, Progress, Todo
<1> QED
  BY <1>1, <1>2, StaysFanned, JobsAreJobs DEF TaskOK, Progress, Over

LEMMA BatchesKeep ==
  ASSUME Progress, \A b \in Batches : BatchOK(b),
         \A b \in Batches : lease'[b].status = "absent" => payload'[b] = payload[b],
         \A b \in Batches : lease'[b].status = "succeeded" =>
                              lease[b].status # "absent" /\ (lease[b].status = "succeeded" \/ Over(b))
  PROVE  \A b \in Batches : BatchOK(b)'
<1> SUFFICES ASSUME NEW b \in Batches PROVE BatchOK(b)'
  OBVIOUS
<1>1. lease'[b].status = "absent" => payload'[b] = <<>>
  BY JobsAreJobs DEF Progress, BatchOK
<1>2. lease'[b].status = "succeeded" => Over(b)'
  BY StaysOver DEF BatchOK
<1> QED
  BY <1>1, <1>2 DEF BatchOK

\* A count holds until a batch is queued, and then that batch is late.
LEMMA CountKeeps ==
  ASSUME Progress, CountHolds, \A b \in Batches : BatchOK(b)',
         Counted' => Counted \/ \A b \in Batches \ guessed' : lease[b].status = "dead" \/ Over(b),
         late \subseteq late',
         Counted' => \A b \in Batches \ late' :
                       \/ lease'[b].status = lease[b].status
                       \/ lease[b].status \notin {"absent", "dead"}
                       \/ lease'[b].status \in {"dead", "succeeded"}
  PROVE  CountHolds'
<1> SUFFICES ASSUME Counted', NEW b \in Batches \ (late \cup guessed)'
             PROVE  lease'[b].status = "dead" \/ Over(b)'
  BY DEF CountHolds
<1>1. lease[b].status = "dead" \/ Over(b)
  BY DEF CountHolds, Progress
<1>2. CASE lease[b].status \notin {"absent", "dead"}
  BY <1>1, <1>2, StaysOver
<1>3. CASE lease[b].status = "absent" /\ lease'[b].status = "absent"
  BY <1>3 DEF BatchOK, Over
<1>4. CASE lease'[b].status \in {"dead", "succeeded"}
  BY <1>4 DEF BatchOK
<1> QED
  BY <1>2, <1>3, <1>4

LEMMA DispatchKeepsOn ==
  ASSUME Progress, DispatchOK, UNCHANGED deskVars,
         campaign' = "sending" => campaign = "sending" \/ lease["dispatch"].status # "absent",
         lease'["dispatch"].status = "succeeded" => lease["dispatch"].status = "succeeded" \/ Fanned
  PROVE  DispatchOK'
BY StaysFanned, JobsAreJobs DEF DispatchOK, Progress, ToBeQueued, deskVars

\* A step that changes the row of one job at most.
LEMMA RestCompletes ==
  ASSUME CompletionInv, CampaignInv', Progress, UNCHANGED <<payload, deskVars>>,
         \A u \in Workers : TaskOK(u)' \/ task'[u] = task[u],
         Counted' => Counted \/ \A b \in Batches \ guessed' : lease[b].status = "dead" \/ Over(b),
         late \subseteq late',
         campaign' = "sending" => campaign = "sending" \/ lease["dispatch"].status # "absent",
         NEW j \in Jobs, \A i \in Jobs \ {j} : lease'[i] = lease[i],
         lease'[j].status \in {lease[j].status, "succeeded", "running", "pending", "dead"},
         lease'[j].status = "absent" => lease[j].status = "absent",
         lease'[j].status = "succeeded" /\ lease[j].status # "succeeded" =>
           /\ lease[j].status # "absent"
           /\ j \in Batches => Over(j)
           /\ j = "dispatch" => Fanned,
         Counted' /\ j \in Batches /\ lease[j].status \in {"absent", "dead"} =>
           lease'[j].status \in {lease[j].status, "dead", "succeeded"} \/ j \in late'
  PROVE  CompletionInv'
<1>1. \A u \in Workers : TaskOK(u)'
  BY OthersKeep DEF CompletionInv
<1>2. \A b \in Batches : BatchOK(b)'
  <2>1. \A b \in Batches : lease'[b].status = "succeeded" =>
                             lease[b].status # "absent" /\ (lease[b].status = "succeeded" \/ Over(b))
    BY JobsAreJobs
  <2> QED
    BY <2>1, BatchesKeep DEF CompletionInv
<1>3. CountHolds'
  BY <1>2, CountKeeps, JobsAreJobs DEF CompletionInv
<1>4. DispatchOK'
  BY DispatchKeepsOn, JobsAreJobs DEF CompletionInv
<1>5. LeaseShape' /\ DeskShape'
  BY DEF Progress, CompletionInv, DeskShape, deskVars
<1> QED
  BY <1>1, <1>2, <1>3, <1>4, <1>5 DEF CompletionInv

\* The merchant's requests change the desk, and queue nothing but the dispatch.
LEMMA DeskMoves ==
  ASSUME CompletionInv, Merchant
  PROVE  /\ DeskShape'
         /\ \A n \in Requested : desk[n].at = "enqueue" => desk'[n].at = "enqueue" \/ DeskEnqueue(n)
<1>1. CASE \E op \in Requests : DeskRead(op)
  <2>1. PICK op \in Requests : DeskRead(op)
    BY <1>1
  <2> DEFINE q == [op |-> op, at |-> "write"]
  <2>2. /\ requests \in Nat /\ requests' = requests + 1
        /\ desk' = [desk EXCEPT ![requests + 1] = q]
    BY <2>1 DEF CompletionInv, DeskShape, DeskRead
  <2>3. q \in [op : Requests, at : {"write", "enqueue"}]
    OBVIOUS
  <2> HIDE DEF q
  <2>4. \A n \in Requested : n \in Int
    BY DEF Requested
  <2>5. desk \in [Requested -> {NoRequest} \cup [op : Requests, at : {"write", "enqueue"}]]
        /\ \A n \in Requested : n > requests => desk[n] = NoRequest
    BY DEF CompletionInv, DeskShape
  <2>6. \A n \in Requested : desk'[n] = IF n = requests + 1 THEN q ELSE desk[n]
    BY <2>2, <2>5
  <2>7. \A n \in Requested : desk[n].at = "enqueue" => n # requests + 1
    BY <2>2, <2>4, <2>5 DEF NoRequest
  <2>8. \A n \in Requested : n > requests' => desk'[n] = NoRequest
    BY <2>2, <2>4, <2>5, <2>6
  <2>9. desk' \in [Requested -> {NoRequest} \cup [op : Requests, at : {"write", "enqueue"}]]
    BY <2>2, <2>3, <2>5
  <2> QED
    BY <2>2, <2>6, <2>7, <2>8, <2>9 DEF DeskShape
<1>2. CASE \E n \in Requested : DeskWrite(n) \/ DeskEnqueue(n)
  <2>1. PICK n \in Requested : DeskWrite(n) \/ DeskEnqueue(n)
    BY <1>2
  <2>2. /\ requests \in Nat /\ requests' = requests
        /\ desk \in [Requested -> {NoRequest} \cup [op : Requests, at : {"write", "enqueue"}]]
        /\ \A m \in Requested : m > requests => desk[m] = NoRequest
    BY <2>1 DEF CompletionInv, DeskShape, DeskWrite, DeskEnqueue
  <2>3. desk[n].at \in {"write", "enqueue"} /\ desk[n] \in [op : Requests, at : {"write", "enqueue"}]
    BY <2>1, <2>2 DEF DeskWrite, DeskEnqueue, NoRequest
  <2>4. PICK q \in {NoRequest} \cup [op : Requests, at : {"write", "enqueue"}] :
          desk' = [desk EXCEPT ![n] = q]
    <3>1. [desk[n] EXCEPT !.at = "enqueue"] \in [op : Requests, at : {"write", "enqueue"}]
      BY <2>3
    <3> QED
      BY <2>1, <3>1 DEF DeskWrite, DeskEnqueue
  <2>5. \A m \in Requested : desk'[m] = IF m = n THEN q ELSE desk[m]
    BY <2>2, <2>4
  <2>6. desk[n] # NoRequest
    BY <2>3 DEF NoRequest
  <2>7. DeskShape'
    BY <2>2, <2>4, <2>5, <2>6 DEF DeskShape
  <2>8. desk[n].at = "enqueue" => DeskEnqueue(n)
    BY <2>1 DEF DeskWrite
  <2> QED
    BY <2>5, <2>7, <2>8
<1> QED
  BY <1>1, <1>2 DEF Merchant

\* What a request may write, and that the one that starts the sending goes on to queue it.
LEMMA DeskWrites ==
  ASSUME CompletionInv, NEW n \in Requested, DeskWrite(n)
  PROVE  /\ campaign' = "completed" => campaign = "completed"
         /\ campaign' = "sending" => campaign = "sending" \/ desk'[n].at = "enqueue"
<1>1. desk[n] \in [op : Requests, at : {"write", "enqueue"}]
  BY DEF CompletionInv, DeskShape, DeskWrite, NoRequest
<1>2. /\ StatusOf(desk[n].op) # "completed"
      /\ StatusOf(desk[n].op) = "sending" => desk[n].op = "send"
  BY <1>1 DEF StatusOf, Requests
<1>3. desk[n].op = "send" => desk'[n].at = "enqueue"
  BY <1>1 DEF CompletionInv, DeskShape, DeskWrite
<1> QED
  BY <1>2, <1>3 DEF DeskWrite

\* The merchant's requests and the cron.
LEMMA MerchantCompletes ==
  ASSUME CompletionInv, CampaignInv', Merchant \/ Cron
  PROVE  CompletionInv'
<1> USE DEF Merchant, DeskRead, DeskWrite, DeskEnqueue, Cron
<1>1. UNCHANGED <<payload, task, handled, stopped, unread, guessed, late>> /\ (lost => lost')
  <2>1. UNCHANGED <<payload, runVars>>
    BY DEF jobVars
  <2>2. UNCHANGED lost \/ lost' = TRUE
    OBVIOUS
  <2> QED
    BY <2>1, <2>2 DEF runVars, endVars
<1>2. LeaseShape' /\ \A j \in Jobs : /\ j # "dispatch" => lease'[j] = lease[j]
                                     /\ lease[j].status # "absent" => lease'[j].status = lease[j].status
                                     /\ lease'[j].status # "succeeded" \/ lease[j].status = "succeeded"
  <2>1. CASE UNCHANGED lease
    BY <2>1 DEF CompletionInv, LeaseShape
  <2>2. CASE Change("dispatch", Enqueued(lease["dispatch"]))
    BY <2>2, QueueSteps, JobsAreJobs DEF CompletionInv, OnlyJob
  <2> QED
    BY <2>1, <2>2 DEF jobVars, EnqueueDispatch
<1>3. Progress
  BY <1>1, <1>2 DEF Progress
<1>4. \A u \in Workers : TaskOK(u)'
  BY <1>1, <1>3, OthersKeep DEF CompletionInv
<1>5. \A b \in Batches : BatchOK(b)'
  BY <1>1, <1>2, <1>3, BatchesKeep, JobsAreJobs DEF CompletionInv
<1> USE DEF Merchant
<1>6. UNCHANGED deskVars \/ Merchant
  OBVIOUS
<1>7. (\E n \in Requested : DeskWrite(n)) \/ UNCHANGED campaign
  OBVIOUS
<1>8. (\E n \in Requested : DeskEnqueue(n)) => lost' \/ lease'["dispatch"].status # "absent"
  BY QueueSteps, JobsAreJobs DEF EnqueueDispatch, CompletionInv
<1>9. Cron => lease'["dispatch"].status # "absent"
  BY QueueSteps, JobsAreJobs DEF EnqueueDispatch, CompletionInv
<1> HIDE DEF Merchant, DeskRead, DeskWrite, DeskEnqueue, Cron
<1>10. DeskShape'
  BY <1>6, DeskMoves DEF CompletionInv, DeskShape, deskVars
<1>11. Counted' => Counted
  BY <1>1, <1>7, DeskWrites DEF Counted, In
<1>12. CountHolds'
  BY <1>1, <1>2, <1>3, <1>5, <1>11, CountKeeps, JobsAreJobs DEF CompletionInv
<1>13. lease'["dispatch"].status = "succeeded" => Fanned'
  BY <1>2, <1>3, StaysFanned, JobsAreJobs DEF CompletionInv, DispatchOK
<1>14. campaign' = "sending" => ToBeQueued' \/ lost' \/ lease'["dispatch"].status # "absent"
  <2>1. CASE campaign = "sending"
    <3>1. ToBeQueued => ToBeQueued' \/ lost' \/ lease'["dispatch"].status # "absent"
      BY <1>8, <1>9, DeskMoves DEF ToBeQueued
    <3> QED
      BY <1>1, <1>2, <2>1, <3>1, JobsAreJobs DEF CompletionInv, DispatchOK
  <2>2. CASE campaign # "sending"
    BY <1>7, <2>2, DeskWrites DEF ToBeQueued
  <2> QED
    BY <2>1, <2>2
<1> QED
  BY <1>2, <1>4, <1>5, <1>10, <1>12, <1>13, <1>14 DEF CompletionInv, DispatchOK

\* Where a worker is after a step, and that the others are where they were.
LEMMA TaskGoesOn ==
  ASSUME CampaignInv, NEW w \in Workers, NEW p \in CampaignPlaces, Go(w, p)
  PROVE  /\ task'[w].at = p /\ task'[w].job = task[w].job /\ task'[w].todo = task[w].todo
         /\ \A u \in Workers \ {w} : task'[u] = task[u]
<1>1. task[w] \in CampaignTasks
  BY DEF CampaignInv
<1> QED
  BY <1>1 DEF CampaignInv, Go, CampaignTasks

LEMMA StartCompletes ==
  ASSUME CompletionInv, CampaignInv', NEW w \in Workers, NEW j \in CampaignJobs, Start(w, j)
  PROVE  CompletionInv'
<1>1. j \in Jobs /\ UNCHANGED <<payload, handled, stopped, unread, guessed, late, deskVars, campaign, lost>>
  BY JobsAreJobs DEF Start, endVars
<1>2. OnlyJob(j) /\ lease[j].status = "pending" /\ lease'[j].status = "running"
  BY <1>1, WorkerSteps DEF Start, CompletionInv
<1>3. /\ task'[w].at = "start" /\ task'[w].job = j
      /\ \A u \in Workers \ {w} : task'[u] = task[u]
  BY DEF Start, CompletionInv, CampaignInv
<1>4. Progress
  BY <1>1, <1>2 DEF Progress, OnlyJob
<1>5. TaskOK(w)'
  BY <1>2, <1>3 DEF TaskOK
<1>6. Counted' => Counted
  BY <1>1, <1>3 DEF Counted, In
<1> QED
  BY <1>1, <1>2, <1>3, <1>4, <1>5, <1>6, RestCompletes DEF OnlyJob

\* What a worker does between its claim and its last write, but for the fan-out.
LEMMA HandlerCompletes ==
  ASSUME CompletionInv, CampaignInv', NEW w \in Workers,
         FanRead(w) \/ FanMark(w) \/ BatchRead(w) \/ FinalCount(w) \/ FinalWrite(w)
  PROVE  CompletionInv'
<1> DEFINE j == task[w].job
<1>1. /\ UNCHANGED <<payload, lease, handled, late, deskVars, lost>>
      /\ stopped \subseteq stopped' /\ unread \subseteq unread' /\ guessed \subseteq guessed'
  BY DEF FanRead, FanMark, BatchRead, FinalCount, FinalWrite, jobVars, endVars
<1>2. Progress
  BY <1>1 DEF Progress, CompletionInv, LeaseShape
<1>3. TaskOK(w) /\ task[w] \in CampaignTasks /\ CampaignInv
  BY DEF CompletionInv, CampaignInv
<1>4. \A u \in Workers \ {w} : task'[u] = task[u]
  BY <1>3, TaskGoesOn DEF FanRead, FanMark, BatchRead, FinalCount, FinalWrite, CampaignPlaces, CampaignInv
<1>5. TaskOK(w)'
  <2>1. CASE FanRead(w)
    <3>1. CASE MaySend /\ Go(w, "mark")
      BY <1>1, <1>3, <2>1, <3>1, TaskGoesOn DEF TaskOK, FanRead, Dispatching, In, CampaignPlaces
    <3>2. CASE ~MaySend /\ Go(w, "done") /\ stopped' = stopped \cup {i \in {"dispatch"} : campaign # "sending"}
      <4>1. "dispatch" \in stopped'
        BY <3>2 DEF MaySend
      <4> QED
        BY <1>1, <1>3, <2>1, <3>2, <4>1, TaskGoesOn, JobsAreJobs
           DEF TaskOK, FanRead, Dispatching, In, CampaignPlaces, Fanned
    <3>3. CASE Go(w, "done") /\ unread' = unread \cup {"dispatch"}
      BY <1>1, <1>3, <2>1, <3>3, TaskGoesOn, JobsAreJobs
         DEF TaskOK, FanRead, Dispatching, In, CampaignPlaces, Fanned
    <3> QED
      BY <2>1, <3>1, <3>2, <3>3 DEF FanRead
  <2>2. CASE FanMark(w)
    BY <1>1, <1>3, <2>2, TaskGoesOn DEF TaskOK, FanMark, In, CampaignPlaces
  <2>3. CASE BatchRead(w)
    <3>1. j \in Batches /\ lease[j].status # "absent"
      BY <1>3, <2>3 DEF TaskOK, BatchRead, In, Dispatching, CampaignJobs
    <3>2. CASE Go(w, "done") /\ j \in (stopped \cup unread)'
      BY <1>1, <1>3, <3>1, <3>2, TaskGoesOn, JobsAreJobs DEF TaskOK, CampaignPlaces, Over
    <3>3. CASE task' = [task EXCEPT ![w] = [at |-> "loop", job |-> j, todo |-> payload[j]]]
      <4>1. task'[w].at = "loop" /\ task'[w].job = j /\ task'[w].todo = payload[j]
        BY <1>3, <3>3 DEF CampaignInv
      <4> QED
        BY <1>1, <3>1, <4>1, JobsAreJobs DEF TaskOK, Todo
    <3> QED
      BY <2>3, <3>2, <3>3 DEF BatchRead
  <2>4. CASE FinalCount(w)
    <3>1. j \in Batches /\ Over(j) /\ lease[j].status # "absent"
      BY <1>3, <2>4 DEF TaskOK, FinalCount, In, Over, Todo
    <3>2. task'[w].at \in {"complete", "done"} /\ task'[w].job = j
      BY <1>3, <2>4, TaskGoesOn DEF FinalCount, CampaignPlaces
    <3>3. Over(j)'
      <4>1. \A b \in Batches : lease[b].status # "absent" /\ Over(b) => Over(b)'
        BY <1>2, StaysOver
      <4> QED
        BY <3>1, <3>2, <4>1 DEF Over
    <3> QED
      BY <1>1, <3>1, <3>2, <3>3, JobsAreJobs DEF TaskOK, Over
  <2>5. CASE FinalWrite(w)
    <3>1. j \in Batches /\ Over(j) /\ lease[j].status # "absent"
      BY <1>3, <2>5 DEF TaskOK, FinalWrite, In
    <3>2. task'[w].at = "done" /\ task'[w].job = j
      BY <1>3, <2>5, TaskGoesOn DEF FinalWrite, CampaignPlaces
    <3>3. Over(j)'
      <4>1. \A b \in Batches : lease[b].status # "absent" /\ Over(b) => Over(b)'
        BY <1>2, StaysOver
      <4> QED
        BY <3>1, <3>2, <4>1 DEF Over
    <3> QED
      BY <1>1, <3>1, <3>2, <3>3, JobsAreJobs DEF TaskOK, Over
  <2> QED
    BY <2>1, <2>2, <2>3, <2>4, <2>5
<1>6. Counted' => Counted \/ \A b \in Batches \ guessed' : lease[b].status = "dead" \/ Over(b)
  <2>1. CASE FinalCount(w) /\ Outstanding \subseteq guessed'
    <3>1. ASSUME NEW b \in Batches \ guessed'
          PROVE  lease[b].status = "dead" \/ Over(b)
      <4>1. lease[b].status \in {"absent", "succeeded", "dead"} /\ BatchOK(b)
        BY <2>1, CampaignAssumption DEF Outstanding, CompletionInv, LeaseShape, Leases, Statuses
      <4> QED
        BY <4>1 DEF BatchOK, Over
    <3> QED
      BY <3>1
  <2>2. CASE FinalWrite(w)
    BY <2>2 DEF Counted, FinalWrite
  <2>3. CASE task'[w].at # "complete" /\ (campaign' = "completed" => campaign = "completed")
    BY <1>4, <2>3 DEF Counted, In
  <2>4. CASE FinalCount(w) /\ ~(Outstanding \subseteq guessed')
    BY <1>3, <2>3, <2>4, TaskGoesOn DEF FinalCount, CampaignPlaces
  <2>5. CASE FanRead(w) \/ FanMark(w) \/ BatchRead(w)
    BY <1>3, <2>3, <2>5, TaskGoesOn DEF FanRead, FanMark, BatchRead, CampaignPlaces, CampaignInv
  <2> QED
    BY <2>1, <2>2, <2>4, <2>5
<1>7. campaign' = "sending" => campaign = "sending" \/ lease["dispatch"].status # "absent"
  BY <1>3 DEF FanRead, FanMark, BatchRead, FinalCount, FinalWrite, In, TaskOK
<1> QED
  BY <1>1, <1>2, <1>4, <1>5, <1>6, <1>7, RestCompletes, JobsAreJobs

\* The fan-out queues the batches that do not exist yet, and those only.
LEMMA FanCompletes ==
  ASSUME CompletionInv, CampaignInv', NEW w \in Workers, Fan(w)
  PROVE  CompletionInv'
<1>1. /\ UNCHANGED <<handled, unread, guessed, deskVars, campaign>>
      /\ stopped \subseteq stopped' /\ (lost => lost') /\ late' = late \cup TooLate
  BY DEF Fan
<1>2. TaskOK(w) /\ task[w].at = "fan" /\ task[w].job = "dispatch"
  BY DEF CompletionInv, Fan, In, TaskOK
<1>3. /\ task'[w].at = "done" /\ task'[w].job = "dispatch"
      /\ \A u \in Workers \ {w} : task'[u] = task[u]
  BY <1>2, TaskGoesOn DEF CompletionInv, Fan, CampaignPlaces
<1>4. Counted' => Counted
  BY <1>1, <1>3 DEF Counted, In
<1>5. CASE lost' /\ UNCHANGED <<jobVars, stopped>>
  <2>1. Progress
    BY <1>1, <1>5 DEF Progress, jobVars, CompletionInv, LeaseShape
  <2>2. TaskOK(w)'
    BY <1>2, <1>3, <1>5, JobsAreJobs DEF TaskOK, Fanned, jobVars
  <2> QED
    BY <1>1, <1>3, <1>4, <1>5, <2>1, <2>2, RestCompletes, JobsAreJobs DEF jobVars
<1>6. ASSUME NEW a \in Audiences, NEW wanted, wanted = {b \in Batches : a[b] # <<>>},
             NEW fresh, fresh = {b \in wanted : lease[b].status = "absent"},
             lease' = [j \in Jobs |-> IF j \in wanted THEN Enqueued(lease[j]) ELSE lease[j]],
             payload' = [b \in Batches |-> IF b \in fresh THEN a[b] ELSE payload[b]],
             stopped' = stopped \cup {j \in {"dispatch"} : wanted = {}}
      PROVE  CompletionInv'
  <2>1. ASSUME NEW j \in Jobs
        PROVE  /\ lease'[j] \in Leases
               /\ j \in fresh => lease'[j].status = "pending"
               /\ j \notin fresh => lease'[j] = lease[j]
    <3>1. lease[j] \in Leases
      BY DEF CompletionInv, LeaseShape
    <3> QED
      BY <1>6, <3>1, RowsOfTheQueue
  <2>2. LeaseShape' /\ fresh \subseteq Batches /\ \A b \in fresh : lease[b].status = "absent"
    BY <1>6, <2>1 DEF LeaseShape
  <2>3. \A b \in Batches : b \notin fresh => payload'[b] = payload[b]
    BY <1>6
  <2>4. Progress
    <3>1. \A j \in Jobs : lease[j].status # "absent" => lease'[j].status # "absent"
      BY <2>1, <2>2
    <3>2. \A b \in Batches : lease[b].status # "absent" => payload'[b] = payload[b]
      BY <2>2, <2>3
    <3> QED
      BY <1>1, <2>2, <3>1, <3>2 DEF Progress
  <2>5. Fanned'
    <3>1. CASE wanted = {}
      BY <1>6, <3>1 DEF Fanned
    <3>2. CASE wanted # {}
      <4>1. PICK b \in wanted : TRUE
        BY <3>2
      <4>2. b \in Batches /\ b \in Jobs /\ lease'[b].status # "absent"
        BY <1>6, <2>1, JobsAreJobs
      <4> QED
        BY <4>2 DEF Fanned, FannedOut
    <3> QED
      BY <3>1, <3>2
  <2>6. \A u \in Workers : TaskOK(u)'
    <3>1. TaskOK(w)'
      BY <1>2, <1>3, <2>4, <2>5, JobsAreJobs DEF TaskOK, Progress
    <3> QED
      BY <1>3, <2>4, <3>1, OthersKeep DEF CompletionInv
  <2>7. \A b \in Batches : BatchOK(b)'
    <3>1. \A b \in Batches : lease'[b].status = "absent" => payload'[b] = payload[b]
      BY <2>1, <2>3, JobsAreJobs
    <3>2. \A b \in Batches : lease'[b].status = "succeeded" => lease[b].status = "succeeded"
      BY <2>1, JobsAreJobs
    <3> QED
      BY <2>4, <3>1, <3>2, BatchesKeep DEF CompletionInv
  <2>8. CountHolds'
    <3>1. Counted' => \A b \in Batches \ late' : lease'[b].status = lease[b].status
      <4>1. ASSUME Counted', NEW b \in Batches \ late', b \in fresh
            PROVE  FALSE
        BY <1>1, <1>4, <2>1, <2>2, <4>1, JobsAreJobs DEF TooLate
      <4> QED
        BY <2>1, <4>1, JobsAreJobs
    <3> QED
      BY <1>1, <1>4, <2>4, <2>7, <3>1, CountKeeps DEF CompletionInv
  <2>9. DispatchOK'
    BY <1>1, <2>1, <2>2, <2>4, DispatchKeepsOn, JobsAreJobs DEF CompletionInv
  <2> QED
    BY <1>1, <2>2, <2>6, <2>7, <2>8, <2>9 DEF CompletionInv, DeskShape, deskVars
<1>7. CASE ~(lost' /\ UNCHANGED <<jobVars, stopped>>)
  <2>1. PICK a \in Audiences :
          LET wanted == {b \in Batches : a[b] # <<>>}
              fresh == {b \in wanted : lease[b].status = "absent"}
          IN  /\ lease' = [j \in Jobs |-> IF j \in wanted THEN Enqueued(lease[j]) ELSE lease[j]]
              /\ payload' = [b \in Batches |-> IF b \in fresh THEN a[b] ELSE payload[b]]
              /\ stopped' = stopped \cup {j \in {"dispatch"} : wanted = {}}
    BY <1>7 DEF Fan
  <2> QED
    BY <1>6, <2>1
<1> QED
  BY <1>5, <1>7

LEMMA SendCompletes ==
  ASSUME CompletionInv, CampaignInv', NEW w \in Workers, BatchSend(w)
  PROVE  CompletionInv'
<1> DEFINE j == task[w].job
           s == task[w].todo
<1>1. UNCHANGED <<lease, payload, stopped, unread, guessed, late, deskVars, campaign, lost>>
  BY DEF BatchSend, jobVars, endVars
<1>2. handled' = handled \cup {Head(s)}
  BY DEF BatchSend
<1>3. Progress
  BY <1>1, <1>2 DEF Progress, CompletionInv, LeaseShape
<1>4. TaskOK(w) /\ task[w] \in CampaignTasks /\ s \in Seq(Keys) /\ s # <<>> /\ task[w].at = "loop"
  BY DEF CompletionInv, CampaignInv, BatchSend, In, CampaignTasks
<1>5. /\ task'[w].at = "loop" /\ task'[w].job = j /\ task'[w].todo = Tail(s)
      /\ \A u \in Workers \ {w} : task'[u] = task[u]
  BY <1>4 DEF BatchSend, CompletionInv, CampaignInv, CampaignTasks
<1>6. \A n \in DOMAIN s : s[n] = Head(s) \/ \E m \in DOMAIN Tail(s) : s[n] = Tail(s)[m]
  <2> SUFFICES ASSUME NEW n \in DOMAIN s, n # 1
               PROVE  \E m \in DOMAIN Tail(s) : s[n] = Tail(s)[m]
    BY <1>4
  <2>1. n - 1 \in DOMAIN Tail(s) /\ Tail(s)[n - 1] = s[n]
    BY <1>4
  <2> QED
    BY <2>1
<1>7. TaskOK(w)'
  <2>1. ASSUME NEW n \in DOMAIN payload[j]
        PROVE  payload[j][n] \in handled' \cup {Tail(s)[m] : m \in DOMAIN Tail(s)}
    <3>1. payload[j][n] \in handled \/ \E m \in DOMAIN s : payload[j][n] = s[m]
      BY <1>4, <2>1 DEF TaskOK, Todo
    <3> QED
      BY <1>2, <1>6, <3>1
  <2> QED
    BY <1>1, <1>4, <1>5, <2>1, JobsAreJobs DEF TaskOK, Todo
<1>8. Counted' => Counted
  BY <1>1, <1>5 DEF Counted, In
<1> QED
  BY <1>1, <1>3, <1>5, <1>7, <1>8, RestCompletes, JobsAreJobs

\* A worker that writes its job's row, or dies: what it leaves is over, or is tried again.
LEMMA LettingGoCompletes ==
  ASSUME CompletionInv, CampaignInv', NEW w \in Workers, End(w) \/ Abort(w)
  PROVE  CompletionInv'
<1>1. PICK j \in Jobs : j = task[w].job
  <2>1. task[w].at # "off" /\ TaskOK(w)
    BY DEF CompletionInv, TaskOK, End, Abort, In
  <2> QED
    BY <2>1, JobsAreJobs DEF TaskOK
<1>2. /\ UNCHANGED <<payload, handled, stopped, unread, guessed, deskVars, campaign, lost>>
      /\ late \subseteq late'
  BY DEF End, Abort, endVars
<1>3. TaskOK(w) /\ task[w].at # "off"
  BY DEF CompletionInv, TaskOK, End, Abort, In
<1>4. j \in CampaignJobs /\ lease[j].status # "absent"
  BY <1>1, <1>3 DEF TaskOK
<1>5. /\ task'[w].at = "off" /\ TaskOK(w)'
      /\ \A u \in Workers \ {w} : task'[u] = task[u]
  BY OffIsATask DEF End, Abort, CompletionInv, CampaignInv, TaskOK
<1>6. Counted' => Counted
  BY <1>2, <1>5 DEF Counted, In
<1>7. CASE End(w)
  <2>1. OnlyJob(j) /\ lease'[j].status = "succeeded"
    BY <1>1, <1>7, WorkerSteps DEF End, CompletionInv
  <2>2. Progress
    BY <1>2, <2>1 DEF Progress, OnlyJob
  <2>3. (j \in Batches => Over(j)) /\ (j = "dispatch" => Fanned)
    BY <1>1, <1>3, <1>7 DEF TaskOK, End, In
  <2> QED
    BY <1>2, <1>4, <1>5, <1>6, <2>1, <2>2, <2>3, RestCompletes DEF OnlyJob
<1>8. CASE Abort(w)
  <2>1. OnlyJob(j) /\ lease'[j].status \in {"dead", "pending", lease[j].status}
    BY <1>1, <1>8, WorkerSteps DEF Abort, CompletionInv
  <2>2. Progress
    BY <1>2, <1>4, <2>1 DEF Progress, OnlyJob
  <2>3. Counted' /\ j \in Batches /\ lease[j].status = "dead" /\ lease'[j].status = "pending" =>
          j \in late'
    BY <1>6, <1>8 DEF Abort, TooLate
  <2> QED
    BY <1>2, <1>4, <1>5, <1>6, <2>1, <2>2, <2>3, RestCompletes DEF OnlyJob
<1> QED
  BY <1>7, <1>8

LEMMA OverdueCompletes ==
  ASSUME CompletionInv, CampaignInv', NEW j \in CampaignJobs, Overdue(j)
  PROVE  CompletionInv'
<1>1. /\ j \in Jobs
      /\ UNCHANGED <<payload, task, handled, stopped, unread, guessed, late, deskVars, campaign, lost>>
  BY JobsAreJobs DEF Overdue, runVars, endVars
<1>2. OnlyJob(j) /\ lease[j].status = "running" /\ lease'[j].status \in {"dead", "pending"}
  BY <1>1, QueueSteps DEF Overdue, CompletionInv
<1>3. Progress
  BY <1>1, <1>2 DEF Progress, OnlyJob
<1>4. Counted' => Counted
  BY <1>1 DEF Counted, In
<1> QED
  BY <1>1, <1>2, <1>3, <1>4, RestCompletes DEF OnlyJob

LEMMA CompletionStep ==
  ASSUME CompletionInv, [Next]_vars
  PROVE  CompletionInv'
<1>1. CampaignInv'
  BY CampaignStepKeeps DEF CompletionInv
<1>2. CASE UNCHANGED vars \/ \E w \in Workers : BatchDispatching(w)
  <2>1. UNCHANGED <<lease, payload, task, handled, stopped, unread, guessed, late, desk, requests, campaign, lost>>
    BY <1>2 DEF vars, BatchDispatching, jobVars, runVars, endVars, deskVars
  <2> QED
    BY <1>1, <2>1
       DEF CompletionInv, LeaseShape, DeskShape, TaskOK, BatchOK, CountHolds, Counted, In, DispatchOK,
           Over, Fanned, FannedOut, Todo, ToBeQueued
<1>3. CASE \E w \in Workers : Work(w) \/ Abort(w) \/ \E j \in CampaignJobs : Start(w, j)
  BY <1>1, <1>2, <1>3, StartCompletes, HandlerCompletes, FanCompletes, SendCompletes, LettingGoCompletes
     DEF Work
<1> QED
  BY <1>1, <1>2, <1>3, MerchantCompletes, OverdueCompletes DEF Next

LEMMA CompletionInvariance == Spec => []CompletionInv
<1>1. CompletionInv /\ [Next]_vars => CompletionInv'
  BY CompletionStep
<1> QED
  BY <1>1, CompletionInitially, PTL DEF Spec

\* A completed campaign is over: its batches have been sent, given up, stopped or could
\* not be read, were outstanding when the count failed, or were queued after the count by
\* a worker that had been taken for dead.
THEOREM CompletedStaysOver == Spec => []CompletedIsOver
BY CompletionInvariance, InvImpliesCompletion, PTL

\* At rest, a campaign that is being sent has been fanned out, unless what would have
\* done it was lost, given up, could not read the campaign, or found it cancelled or
\* without an audience: however the merchant's requests overlap.
THEOREM FanOutsResume == Spec => []FanOutResumes
BY CompletionInvariance, InvImpliesCompletion, PTL

----------------------------------------------------------------------------
(* AutomationRun.  The message is dispatchMessage's affair and the credit  *)
(* the ledger's; the reward has no key, and what keeps it from being       *)
(* granted twice is only the run's status: see RewardedOnce.               *)

RunPlaces == {"off", "read", "mark", "check", "reward", "balance", "complete", "done"}
Runners == [at : RunPlaces, run : Runs \cup {"none"}]

\* A worker that found the run scheduled, one that has yet to grant the reward, and
\* one that has marked the run.
Busy(w, r) == runner[w].run = r /\ runner[w].at \in {"mark", "check", "reward", "balance", "complete"}
Owes(w, r) == Busy(w, r) /\ runner[w].at \in {"mark", "check", "reward"}
Marked(w, r) == Busy(w, r) /\ runner[w].at # "mark"

\* A run that only one worker was in, and that was marked: while it is scheduled, or its worker has not
\* granted the reward, there is none; and a marked run is never scheduled again.
RewardedOnce(r) ==
  /\ rewards[r] <= 1
  /\ run[r] \in {"none", "scheduled"} =>
       rewards[r] = 0 /\ \A w \in Workers : ~Marked(w, r)
  /\ \A w \in Workers : Owes(w, r) => rewards[r] = 0
  /\ \A u, w \in Workers : Busy(u, r) /\ Busy(w, r) => u = w

RunnerShape ==
  /\ runner \in [Workers -> Runners]
  /\ \A w \in Workers : runner[w].at # "off" => runner[w].run \in Runs

AutoInv ==
  /\ DispatchInv /\ TypeOK /\ RunnerShape
  /\ \A r \in Runs : credits[r] <= 1
  /\ \A r \in Runs \ (contested \cup unmarked) : RewardedOnce(r)

LEMMA InvImpliesActsOnce == AutoInv => ActsOnce /\ WithinCap
BY InvImpliesProperties, RunAssumption
   DEF AutoInv, ActsOnce, DeliveredOnce, RewardedOnce

LEMMA AutoInitially == AutoInit => AutoInv
<1> SUFFICES ASSUME AutoInit PROVE AutoInv
  OBVIOUS
<1>1. DispatchInv /\ DispatchTypeOK
  BY DispatchInitially DEF AutoInit, DispatchInv, DispatchShape
<1>2. TypeOK
  BY <1>1 DEF AutoInit, TypeOK
<1>3. NoRun \in Runners /\ NoRun.at = "off"
  BY DEF NoRun, Runners, RunPlaces
<1>4. RunnerShape
  BY <1>3 DEF AutoInit, RunnerShape
<1>5. \A r \in Runs : credits[r] <= 1 /\ RewardedOnce(r)
  BY <1>3 DEF AutoInit, RewardedOnce, Owes, Marked, Busy
<1> QED
  BY <1>1, <1>2, <1>4, <1>5 DEF AutoInv

----------------------------------------------------------------------------
(* Steps that grant no reward and mark no run.                             *)

LEMMA RunnerMoves ==
  ASSUME RunnerShape, NEW w \in Workers, NEW p \in RunPlaces, RunnerGoes(w, p), runner[w].at # "off"
  PROVE  /\ RunnerShape'
         /\ \A u \in Workers : runner'[u].run = runner[u].run
         /\ \A u \in Workers : runner'[u].at = IF u = w THEN p ELSE runner[u].at
<1>1. \A u \in Workers : runner[u] \in Runners
  BY DEF RunnerShape
<1> QED
  BY <1>1 DEF RunnerShape, RunnerGoes, Runners

\* Nobody is busier than before, and a run is scheduled only if it was or was none.
LEMMA NoBusier ==
  ASSUME AutoInv, UNCHANGED rewards, contested \subseteq contested', unmarked \subseteq unmarked',
         \A r \in Runs : run'[r] \in {"none", "scheduled"} => run[r] \in {"none", "scheduled"},
         \A w \in Workers, r \in Runs \ unmarked' :
                                        /\ Busy(w, r)' => Busy(w, r)
                                        /\ Owes(w, r)' => Owes(w, r)
                                        /\ Marked(w, r)' => Marked(w, r)
  PROVE  \A r \in Runs \ (contested \cup unmarked)' : RewardedOnce(r)'
BY DEF AutoInv, RewardedOnce

\* The enrolment, the clock and the sweep leave the workers alone.
LEMMA RunOutsideKeeps ==
  ASSUME AutoInv,
         \/ \E t \in Triggers : Enrol(t)
         \/ \E r \in Runs : CoolDown(r) \/ OverdueRun(r)
  PROVE  AutoInv'
<1>1. UNCHANGED <<msgVars, runner, rewards, credits, contested, unmarked>>
  BY DEF Enrol, EnrolCheck, EnrolInsert, EnrolEnqueue, CoolDown, OverdueRun, actVars, enrolVars, pastVars
<1>2. DispatchInv' /\ DispatchTypeOK' /\ RunnerShape' /\ \A r \in Runs : credits'[r] <= 1
  BY <1>1, StutterKeeps DEF AutoInv, RunnerShape, DispatchInv, DispatchShape
<1>3. /\ run' \in [Runs -> {"none", "scheduled", "running", "skipped", "completed"}]
      /\ recent' \subseteq Runs /\ overlapped' \subseteq Runs
      /\ \A r \in Runs : run'[r] \in {"none", "scheduled"} => run[r] \in {"none", "scheduled"}
  <2>1. CASE \E t \in Triggers : EnrolInsert(t)
    BY <2>1 DEF EnrolInsert, Holding, AutoInv, TypeOK
  <2>2. CASE UNCHANGED <<run, overlapped>> /\ recent' \subseteq recent
    BY <2>2 DEF AutoInv, TypeOK
  <2> QED
    BY <2>1, <2>2 DEF Enrol, EnrolCheck, EnrolEnqueue, CoolDown, OverdueRun, enrolVars
<1>4. \A w \in Workers, r \in Runs : /\ Busy(w, r)' <=> Busy(w, r)
                                     /\ Owes(w, r)' <=> Owes(w, r)
                                     /\ Marked(w, r)' <=> Marked(w, r)
  BY <1>1 DEF Busy, Owes, Marked
<1>5. \A r \in Runs \ (contested \cup unmarked)' : RewardedOnce(r)'
  BY <1>1, <1>3, <1>4, NoBusier
<1>6. TypeOK'
  BY <1>1, <1>2, <1>3 DEF AutoInv, TypeOK
<1> QED
  BY <1>2, <1>5, <1>6 DEF AutoInv

\* Taking a job, and letting it go.
LEMMA ComeAndGoKeeps ==
  ASSUME AutoInv, NEW w \in Workers, (\E r \in Runs : StartRun(w, r)) \/ EndRun(w) \/ AbortRun(w)
  PROVE  AutoInv'
<1>1. /\ UNCHANGED <<run, recent, overlapped, rewards, credits, contested, unmarked>>
      /\ UNCHANGED msgVars \/ Die(w)
  BY DEF StartRun, EndRun, AbortRun, enrolVars, actVars, pastVars
<1>2. PICK q \in Runners : /\ runner' = [runner EXCEPT ![w] = q]
                         /\ q.at \in {"off", "read"} /\ (q.at # "off" => q.run \in Runs)
  <2>1. NoRun \in Runners /\ NoRun.at = "off"
    BY DEF NoRun, Runners, RunPlaces
  <2>2. \A r \in Runs : LET q == [at |-> "read", run |-> r]
                        IN  q \in Runners /\ q.at = "read" /\ q.run = r
    BY DEF Runners, RunPlaces
  <2>3. CASE \E r \in Runs : StartRun(w, r)
    BY <2>2, <2>3 DEF StartRun
  <2> QED
    BY <2>1, <2>3 DEF EndRun, AbortRun
<1>3. DispatchInv' /\ DispatchTypeOK'
  BY <1>1, StutterKeeps, DispatchStepKeeps DEF AutoInv, DispatchInv, DispatchShape
<1>4. RunnerShape' /\ \A u \in Workers : runner'[u] = IF u = w THEN q ELSE runner[u]
  BY <1>2 DEF AutoInv, RunnerShape
<1>5. \A u \in Workers, r \in Runs : /\ Busy(u, r)' => Busy(u, r)
                                     /\ Owes(u, r)' => Owes(u, r)
                                     /\ Marked(u, r)' => Marked(u, r)
  BY <1>2, <1>4 DEF Busy, Owes, Marked
<1>6. \A r \in Runs \ (contested \cup unmarked)' : RewardedOnce(r)'
  BY <1>1, <1>5, NoBusier
<1>7. TypeOK' /\ \A r \in Runs : credits'[r] <= 1
  BY <1>1, <1>3 DEF AutoInv, TypeOK
<1> QED
  BY <1>3, <1>4, <1>6, <1>7 DEF AutoInv

----------------------------------------------------------------------------
(* The steps of a run.                                                     *)

\* What the steps of runAutomation have in common: the worker moves on in the same run.
LEMMA RunnerGoesOn ==
  ASSUME AutoInv, NEW w \in Workers, NEW p \in RunPlaces, RunnerGoes(w, p), runner[w].at # "off"
  PROVE  /\ RunnerShape' /\ runner[w].run \in Runs
         /\ \A u \in Workers : runner'[u].run = runner[u].run
         /\ \A u \in Workers : runner'[u].at = IF u = w THEN p ELSE runner[u].at
<1>1. RunnerShape
  BY DEF AutoInv
<1>2. runner[w].run \in Runs
  BY <1>1 DEF RunnerShape
<1> QED
  BY <1>1, <1>2, RunnerMoves

\* A worker leaves the run as it is, or goes on with one it could not mark.
LEMMA UnwrittenKeeps ==
  ASSUME AutoInv, NEW w \in Workers, NEW p \in RunPlaces, RunnerGoes(w, p), runner[w].at # "off",
         UNCHANGED <<msgVars, run, recent, overlapped, rewards, credits, contested>>,
         \/ p = "done" /\ UNCHANGED unmarked
         \/ runner[w].at = "mark" /\ p = "check" /\ unmarked' = unmarked \cup {runner[w].run}
  PROVE  AutoInv'
<1>1. /\ RunnerShape' /\ runner[w].run \in Runs /\ \A u \in Workers : runner'[u].run = runner[u].run
      /\ \A u \in Workers : runner'[u].at = IF u = w THEN p ELSE runner[u].at
  BY RunnerGoesOn
<1>2. DispatchInv' /\ DispatchTypeOK'
  BY StutterKeeps DEF DispatchInv, DispatchShape, AutoInv
<1>3. \A u \in Workers, q \in Runs \ unmarked' : /\ Busy(u, q)' => Busy(u, q)
                                                 /\ Owes(u, q)' => Owes(u, q)
                                                 /\ Marked(u, q)' => Marked(u, q)
  BY <1>1 DEF Busy, Owes, Marked
<1>4. \A q \in Runs \ (contested \cup unmarked)' : RewardedOnce(q)'
  BY <1>3, NoBusier
<1>5. TypeOK'
  BY <1>1, <1>2 DEF AutoInv, TypeOK
<1> QED
  BY <1>1, <1>2, <1>4, <1>5 DEF AutoInv

LEMMA ReadKeeps ==
  ASSUME AutoInv, NEW w \in Workers, Read(w)
  PROVE  AutoInv'
<1> DEFINE r == runner[w].run
<1>1. /\ runner[w].at = "read" /\ r \in Runs
      /\ UNCHANGED <<msgVars, run, recent, overlapped, rewards, credits, unmarked>>
  BY DEF Read, RunnerAt, enrolVars, actVars, AutoInv, RunnerShape
<1>2. DispatchInv' /\ DispatchTypeOK'
  BY <1>1, StutterKeeps DEF DispatchInv, DispatchShape, AutoInv
<1>3. CASE RunnerGoes(w, "done") /\ UNCHANGED contested
  BY <1>1, <1>3, UnwrittenKeeps DEF RunPlaces
<1>4. CASE /\ Runnable(r) /\ RunnerGoes(w, "mark")
           /\ contested' = contested \cup {q \in {r} :
                \E u \in Workers : u # w /\ runner[u].run = r /\ runner[u].at # "read"}
  <2>1. /\ RunnerShape' /\ \A u \in Workers : runner'[u].run = runner[u].run
        /\ \A u \in Workers : runner'[u].at = IF u = w THEN "mark" ELSE runner[u].at
    BY <1>1, <1>4, RunnerGoesOn DEF RunPlaces
  <2>2. ASSUME NEW q \in Runs \ (contested \cup unmarked)' PROVE RewardedOnce(q)'
    <3>1. RewardedOnce(q)
      BY <1>1, <1>4, <2>2 DEF AutoInv
    <3>2. ASSUME NEW u \in Workers PROVE Marked(u, q)' => Marked(u, q)
      BY <1>1, <2>1 DEF Marked, Busy
    <3>3. ASSUME NEW u \in Workers, Busy(u, q)' PROVE Busy(u, q) \/ (u = w /\ q = r)
      BY <1>1, <2>1, <3>3 DEF Busy
    <3>4. q = r => rewards[q] = 0 /\ \A u \in Workers : Busy(u, q)' => u = w
      <4>1. q = r => \A u \in Workers : Busy(u, q) => u = w
        BY <1>4, <2>2 DEF Busy
      <4>2. q = r => rewards[q] = 0
        BY <1>4, <3>1 DEF Runnable, RewardedOnce
      <4> QED
        BY <3>3, <4>1, <4>2
    <3>5. ASSUME NEW u \in Workers, Owes(u, q)' PROVE rewards[q] = 0
      <4>1. CASE u = w /\ q = r
        BY <3>4, <4>1
      <4>2. CASE ~(u = w /\ q = r)
        BY <1>1, <2>1, <3>1, <3>3, <3>5, <4>2 DEF Owes, Busy, RewardedOnce
      <4> QED
        BY <4>1, <4>2
    <3>6. ASSUME NEW u \in Workers, NEW v \in Workers, Busy(u, q)', Busy(v, q)' PROVE u = v
      BY <3>1, <3>3, <3>4, <3>6 DEF RewardedOnce
    <3> QED
      BY <1>1, <3>1, <3>2, <3>5, <3>6 DEF RewardedOnce
  <2> QED
    BY <1>1, <1>2, <1>4, <2>1, <2>2 DEF AutoInv, TypeOK
<1> QED
  BY <1>3, <1>4 DEF Read

\* A status that is not "scheduled" takes the place of one, whatever it was.
LEMMA StatusKeeps ==
  ASSUME AutoInv, NEW w \in Workers, NEW p \in RunPlaces, RunnerGoes(w, p),
         NEW s \in {"running", "skipped", "completed"},
         run' = [run EXCEPT ![runner[w].run] = s],
         \/ RunnerAt(w, "mark") /\ p = "check"
         \/ RunnerAt(w, "check") /\ p = "done"
         \/ RunnerAt(w, "complete") /\ p = "done",
         UNCHANGED <<msgVars, recent, overlapped, rewards, credits, contested, unmarked>>
  PROVE  AutoInv'
<1> DEFINE r == runner[w].run
<1>1. runner[w].at \in {"mark", "check", "complete"} /\ p \in {"check", "done"}
  BY DEF RunnerAt
<1>2. /\ RunnerShape' /\ r \in Runs /\ \A u \in Workers : runner'[u].run = runner[u].run
      /\ \A u \in Workers : runner'[u].at = IF u = w THEN p ELSE runner[u].at
  BY <1>1, RunnerGoesOn
<1>3. DispatchInv' /\ DispatchTypeOK'
  BY StutterKeeps DEF DispatchInv, DispatchShape, AutoInv
<1>4. /\ run' \in [Runs -> {"none", "scheduled", "running", "skipped", "completed"}]
      /\ \A q \in Runs : run'[q] = IF q = r THEN s ELSE run[q]
  BY <1>2 DEF AutoInv, TypeOK
<1>5. ASSUME NEW q \in Runs \ (contested \cup unmarked)' PROVE RewardedOnce(q)'
  <2>1. RewardedOnce(q)
    BY DEF AutoInv
  <2>2. ASSUME NEW u \in Workers
        PROVE  /\ Busy(u, q)' => Busy(u, q)
               /\ Owes(u, q)' => Owes(u, q)
               /\ Marked(u, q)' => Marked(u, q) \/ (u = w /\ q = r)
    BY <1>1, <1>2, RunnerAt(w, "mark") \/ p = "done" DEF Busy, Owes, Marked, RunnerAt
  <2>3. q = r => run'[q] \notin {"none", "scheduled"}
    BY <1>4
  <2> QED
    BY <1>4, <2>1, <2>2, <2>3 DEF RewardedOnce
<1> QED
  BY <1>2, <1>3, <1>4, <1>5 DEF AutoInv, TypeOK

\* The reward: granted by the one worker that owes it, and owed by nobody then.
LEMMA RewardKeeps ==
  ASSUME AutoInv, NEW w \in Workers, Reward(w)
  PROVE  AutoInv'
<1> DEFINE r == runner[w].run
<1>1. /\ runner[w].at = "reward" /\ RunnerGoes(w, "balance")
      /\ rewards' = [rewards EXCEPT ![r] = rewards[r] + 1]
      /\ UNCHANGED <<msgVars, run, recent, overlapped, credits, contested, unmarked>>
  BY DEF Reward, RunnerAt, enrolVars, pastVars
<1>2. /\ RunnerShape' /\ r \in Runs /\ \A u \in Workers : runner'[u].run = runner[u].run
      /\ \A u \in Workers : runner'[u].at = IF u = w THEN "balance" ELSE runner[u].at
  BY <1>1, RunnerGoesOn DEF RunPlaces
<1>3. DispatchInv' /\ DispatchTypeOK'
  BY <1>1, StutterKeeps DEF DispatchInv, DispatchShape, AutoInv
<1>4. /\ rewards' \in [Runs -> Nat]
      /\ \A q \in Runs : rewards'[q] = IF q = r THEN rewards[r] + 1 ELSE rewards[q]
  BY <1>1, <1>2 DEF AutoInv, TypeOK
<1>5. ASSUME NEW q \in Runs \ (contested \cup unmarked)' PROVE RewardedOnce(q)'
  <2>1. RewardedOnce(q)
    BY <1>1, <1>5 DEF AutoInv
  <2>2. ASSUME NEW u \in Workers
        PROVE  /\ Busy(u, q)' => Busy(u, q)
               /\ Owes(u, q)' => Owes(u, q) /\ u # w
               /\ Marked(u, q)' => Marked(u, q)
    BY <1>1, <1>2 DEF Busy, Owes, Marked
  <2>3. q = r => Owes(w, q) /\ Marked(w, q) /\ Busy(w, q)
    BY <1>1 DEF Owes, Marked, Busy
  <2>4. q = r => rewards[q] = 0 /\ run[q] \notin {"none", "scheduled"}
    BY <2>1, <2>3 DEF RewardedOnce
  <2>5. q = r => \A u \in Workers : ~Owes(u, q)'
    BY <2>1, <2>2, <2>3 DEF RewardedOnce, Owes
  <2> QED
    BY <1>1, <1>4, <2>1, <2>2, <2>4, <2>5 DEF RewardedOnce
<1> QED
  BY <1>1, <1>2, <1>3, <1>4, <1>5 DEF AutoInv, TypeOK

\* The message and the credit.
LEMMA ActKeeps ==
  ASSUME AutoInv, NEW w \in Workers, Message(w) \/ Balance(w)
  PROVE  AutoInv'
<1> DEFINE r == runner[w].run
<1>1. /\ UNCHANGED <<run, recent, overlapped, rewards, contested, unmarked>>
      /\ \/ runner[w].at = "check" /\ RunnerGoes(w, "reward")
         \/ runner[w].at = "balance" /\ RunnerGoes(w, "complete")
  BY DEF Message, Balance, RunnerAt, enrolVars, actVars, pastVars
<1>2. PICK p \in RunPlaces : /\ RunnerGoes(w, p)
                          /\ \/ runner[w].at = "check" /\ p = "reward"
                             \/ runner[w].at = "balance" /\ p = "complete"
  BY <1>1 DEF RunPlaces
<1>3. /\ RunnerShape' /\ r \in Runs /\ \A u \in Workers : runner'[u].run = runner[u].run
      /\ \A u \in Workers : runner'[u].at = IF u = w THEN p ELSE runner[u].at
  BY <1>2, RunnerGoesOn
<1>4. DispatchInv' /\ DispatchTypeOK'
  <2>1. UNCHANGED msgVars \/ Dispatch(w, r)
    BY DEF Message, Balance
  <2> QED
    BY <1>3, <2>1, RunAssumption, StutterKeeps, DispatchKeeps
       DEF DispatchInv, DispatchShape, AutoInv
<1>5. credits' \in [Runs -> Nat] /\ \A q \in Runs : credits'[q] <= 1
  <2>1. UNCHANGED credits \/ credits' = [credits EXCEPT ![r] = 1]
    BY DEF Message, Balance, actVars, Credit
  <2> QED
    BY <1>3, <2>1 DEF AutoInv, TypeOK
<1>6. \A u \in Workers, q \in Runs : /\ Busy(u, q)' => Busy(u, q)
                                     /\ Owes(u, q)' => Owes(u, q)
                                     /\ Marked(u, q)' => Marked(u, q)
  BY <1>2, <1>3 DEF Busy, Owes, Marked
<1>7. \A q \in Runs \ (contested \cup unmarked)' : RewardedOnce(q)'
  BY <1>1, <1>6, NoBusier
<1> QED
  BY <1>1, <1>3, <1>4, <1>5, <1>7 DEF AutoInv, TypeOK

LEMMA DispatchingKeeps ==
  ASSUME AutoInv, NEW w \in Workers, MessageStep(w)
  PROVE  AutoInv'
<1>1. UNCHANGED <<run, recent, overlapped, runner, rewards, credits, contested, unmarked>>
  BY DEF MessageStep, enrolVars, actVars, pastVars
<1>2. DispatchInv' /\ DispatchTypeOK'
  BY DispatchStepKeeps DEF MessageStep, AutoInv, DispatchInv, DispatchShape
<1>3. \A q \in Runs \ (contested \cup unmarked)' : RewardedOnce(q)'
  BY <1>1, NoBusier DEF Busy, Owes, Marked
<1> QED
  BY <1>1, <1>2, <1>3 DEF AutoInv, TypeOK, RunnerShape

LEMMA RunStepKeeps ==
  ASSUME AutoInv, [AutoNext]_autoVars
  PROVE  AutoInv'
<1>1. CASE UNCHANGED autoVars
  <2>1. UNCHANGED <<msgVars, run, recent, overlapped, runner, rewards, credits, contested, unmarked>>
    BY <1>1 DEF autoVars, enrolVars, actVars, pastVars
  <2>2. DispatchInv' /\ DispatchTypeOK'
    BY <2>1, StutterKeeps DEF AutoInv, DispatchInv, DispatchShape
  <2>3. \A q \in Runs \ (contested \cup unmarked)' : RewardedOnce(q)'
    BY <2>1, NoBusier DEF Busy, Owes, Marked
  <2> QED
    BY <2>1, <2>2, <2>3 DEF AutoInv, TypeOK, RunnerShape
<1>2. ASSUME NEW w \in Workers, Mark(w) \/ Skip(w) \/ Complete(w) PROVE AutoInv'
  <2>1. PICK p \in {"check", "done"}, s \in {"running", "skipped", "completed"} :
          /\ RunnerGoes(w, p)
          /\ \/ RunnerAt(w, "mark") /\ p = "check"
             \/ RunnerAt(w, "check") /\ p = "done"
             \/ RunnerAt(w, "complete") /\ p = "done"
          /\ \/ run' = [run EXCEPT ![runner[w].run] = s] /\ UNCHANGED unmarked
             \/ /\ UNCHANGED run
                /\ unmarked' = IF p = "done" THEN unmarked ELSE unmarked \cup {runner[w].run}
    <3>1. CASE Mark(w)
      BY <3>1 DEF Mark
    <3>2. CASE Skip(w)
      BY <3>2 DEF Skip, Ends
    <3>3. CASE Complete(w)
      BY <3>3 DEF Complete, Ends
    <3> QED
      BY <1>2, <3>1, <3>2, <3>3
  <2>2. p \in RunPlaces /\ runner[w].at # "off"
    BY <2>1 DEF RunPlaces, RunnerAt
  <2>3. UNCHANGED <<msgVars, recent, overlapped, rewards, credits, contested>>
    BY <1>2 DEF Mark, Skip, Complete, enrolVars, actVars
  <2>4. CASE run' = [run EXCEPT ![runner[w].run] = s] /\ UNCHANGED unmarked
    BY <2>1, <2>2, <2>3, <2>4, StatusKeeps
  <2>5. CASE UNCHANGED run /\ unmarked' = IF p = "done" THEN unmarked ELSE unmarked \cup {runner[w].run}
    BY <2>1, <2>2, <2>3, <2>5, UnwrittenKeeps DEF RunnerAt
  <2> QED
    BY <2>1, <2>4, <2>5
<1>3. CASE \E w \in Workers : RunStep(w)
  BY <1>2, <1>3, ReadKeeps, RewardKeeps, ActKeeps, DispatchingKeeps, ComeAndGoKeeps DEF RunStep
<1> QED
  BY <1>1, <1>3, RunOutsideKeeps, ComeAndGoKeeps DEF AutoNext

\* The inductive invariant holds throughout.
THEOREM RunInvariance == AutoSpec => []AutoInv
<1> USE AutoInitially, RunStepKeeps
<1>1. AutoInit => AutoInv
  OBVIOUS
<1>2. AutoInv /\ [AutoNext]_autoVars => AutoInv'
  OBVIOUS
<1> QED
  BY <1>1, <1>2, PTL DEF AutoSpec

\* A run acts once: one message, one credit and, unless two workers found it scheduled
\* or it could not be marked as running, one reward, although nothing but the run's
\* status keeps the reward from being granted again.
THEOREM RunsActOnce == AutoSpec => []ActsOnce
<1>1. AutoInv => ActsOnce
  BY InvImpliesActsOnce
<1> QED
  BY <1>1, RunInvariance, PTL

\* The frequency cap holds, of the messages delivered, for every customer for whom no
\* two dispatches were past their count at once and no count failed or missed a message.
THEOREM CapKept == AutoSpec => []WithinCap
<1>1. AutoInv => WithinCap
  BY InvImpliesActsOnce
<1> QED
  BY <1>1, RunInvariance, PTL

----------------------------------------------------------------------------
(* AutomationRun: that runs end, and the cooldown.                         *)

TriggerShape ==
  /\ trigger \in [Triggers -> [at : {"idle", "insert", "enqueue"}, run : Runs \cup {"none"}]]
  /\ \A t \in Triggers :
       trigger[t].at = "enqueue" => trigger[t].run \in Runs /\ run[trigger[t].run] # "none"

\* A run is nobody's until it exists; while it is scheduled, and nothing has gone wrong
\* with it, its job exists or is about to and has not succeeded; one that is running has
\* a worker, or lost it.
RunEnds(r) ==
  /\ run[r] = "none" => lease[r].status = "absent" /\ \A w \in Workers : runner[w].run # r
  /\ run[r] = "scheduled" /\ r \notin broken =>
       /\ \/ lease[r].status # "absent"
          \/ \E t \in Triggers : trigger[t].at = "enqueue" /\ trigger[t].run = r
       /\ lease[r].status # "succeeded"
       /\ \A w \in Workers : ~(runner[w].run = r /\ runner[w].at = "done")
  /\ run[r] = "running" => r \in broken \/ \E w \in Workers : Marked(w, r)

\* A worker is in dispatchMessage for its run, between its actions.
SenderOK(w) ==
  /\ runner[w].at = "off" => runner[w] = NoRun
  /\ sender[w].at # "idle" => runner[w].at = "reward" /\ runner[w].run = sender[w].key

\* A run that only one worker was in, and that was marked: it has sent nothing before its check, nor if it is
\* skipped, and a skipped run is nobody's any more.
SkippedUnsent(r) ==
  /\ run[r] \in {"none", "scheduled", "skipped"} => delivered[r] = 0
  /\ run[r] = "skipped" => \A w \in Workers : ~Busy(w, r)
  /\ \A w \in Workers : Busy(w, r) /\ runner[w].at \in {"mark", "check"} => delivered[r] = 0

\* Of two runs within the cooldown, one has been skipped.
OneHolds ==
  /\ \A r \in recent : run[r] # "none"
  /\ \A r, s \in recent \ (overlapped \cup contested \cup unmarked) :
       r # s => run[r] = "skipped" \/ run[s] = "skipped"

EndsInv ==
  /\ AutoInv /\ LeaseShape /\ TriggerShape
  /\ \A r \in Runs : RunEnds(r)
  /\ \A w \in Workers : SenderOK(w)
  /\ \A r \in Runs \ (contested \cup unmarked) : SkippedUnsent(r)
  /\ OneHolds

LEMMA InvImpliesRunsEnd == EndsInv => RunsEnd /\ CooldownKept
<1> SUFFICES ASSUME EndsInv PROVE RunsEnd /\ CooldownKept
  OBVIOUS
<1>1. ASSUME RunsAtRest, NEW r \in Runs
      PROVE  \/ run[r] \in {"none", "completed", "skipped"}
             \/ r \in broken \/ lease[r].status = "dead"
  <2>1. \A w \in Workers : runner[w].at = "off"
    BY <1>1 DEF RunsAtRest, NoRun
  <2>2. RunEnds(r) /\ run[r] \in {"none", "scheduled", "running", "skipped", "completed"}
    BY DEF EndsInv, AutoInv, TypeOK
  <2> QED
    BY <1>1, <2>1, <2>2 DEF RunsAtRest, RunEnds, Marked, Busy
<1>2. ASSUME NEW r \in recent \ (overlapped \cup contested \cup unmarked),
             NEW s \in recent \ (overlapped \cup contested \cup unmarked), delivered[r] > 0, delivered[s] > 0, r # s
      PROVE  FALSE
  <2>1. r \in Runs \ (contested \cup unmarked) /\ s \in Runs \ (contested \cup unmarked)
    BY DEF EndsInv, AutoInv, TypeOK
  <2> QED
    BY <1>2, <2>1 DEF EndsInv, OneHolds, SkippedUnsent
<1> QED
  BY <1>1, <1>2 DEF RunsEnd, CooldownKept

LEMMA NoRunIsARunner == NoRun \in Runners /\ NoRun.at = "off" /\ NoRun.run = "none"
BY DEF NoRun, Runners, RunPlaces

LEMMA EndsInitially == AutoInit => EndsInv
<1> SUFFICES ASSUME AutoInit PROVE EndsInv
  OBVIOUS
<1>1. AutoInv /\ LeaseShape /\ \A r \in Runs : lease[r].status = "absent"
  BY AutoInitially, LeaseInitially, RunAssumption DEF AutoInit
<1>2. TriggerShape
  BY DEF AutoInit, NoEnrolment, TriggerShape
<1>3. \A r \in Runs : RunEnds(r)
  BY <1>1, NoRunIsARunner, RunAssumption DEF AutoInit, RunEnds
<1>4. \A w \in Workers : SenderOK(w)
  BY DEF AutoInit, DispatchInit, NoSend, SenderOK
<1>5. \A r \in Runs : SkippedUnsent(r)
  BY NoRunIsARunner, RunAssumption DEF AutoInit, DispatchInit, SkippedUnsent, Busy
<1>6. OneHolds
  BY DEF AutoInit, OneHolds
<1> QED
  BY <1>1, <1>2, <1>3, <1>4, <1>5, <1>6 DEF EndsInv

\* Steps within runAutomation: the worker goes on, and may write its run's status.
LEMMA MovesEnd ==
  ASSUME EndsInv, NEW w \in Workers, NEW p \in RunPlaces, RunnerGoes(w, p), runner[w].at # "off",
         UNCHANGED <<lease, trigger>>, broken \subseteq broken',
         \/ run' = run
         \/ \E s \in {"running", "skipped", "completed"} :
              run' = [run EXCEPT ![runner[w].run] = s] /\ (s = "running" => p = "check"),
         p = "done" => run'[runner[w].run] # "scheduled" \/ runner[w].run \in broken',
         Marked(w, runner[w].run) /\ run'[runner[w].run] = "running" /\ runner[w].run \notin broken' =>
           p \in {"check", "reward", "balance", "complete"}
  PROVE  (\A r \in Runs : RunEnds(r)') /\ TriggerShape'
<1>1. /\ runner[w].run \in Runs /\ \A u \in Workers : runner'[u].run = runner[u].run
      /\ \A u \in Workers : runner'[u].at = IF u = w THEN p ELSE runner[u].at
  BY RunnerGoesOn DEF EndsInv
<1>2. run[runner[w].run] # "none"
  BY <1>1 DEF EndsInv, RunEnds
<1>3. \A r \in Runs : /\ r # runner[w].run => run'[r] = run[r]
                      /\ run'[r] = "none" <=> run[r] = "none"
                      /\ run'[r] = "scheduled" => run[r] = "scheduled"
                      /\ run'[r] = "running" => run[r] = "running" \/ (r = runner[w].run /\ p = "check")
  BY <1>1, <1>2 DEF EndsInv, AutoInv, TypeOK
<1>4. ASSUME NEW r \in Runs
      PROVE  RunEnds(r)'
  <2>1. RunEnds(r)
    BY DEF EndsInv
  <2>2. run'[r] = "none" => lease'[r].status = "absent" /\ \A u \in Workers : runner'[u].run # r
    BY <1>1, <1>3, <2>1 DEF RunEnds
  <2>3. run'[r] = "scheduled" /\ r \notin broken' =>
          /\ \/ lease'[r].status # "absent"
             \/ \E t \in Triggers : trigger'[t].at = "enqueue" /\ trigger'[t].run = r
          /\ lease'[r].status # "succeeded"
          /\ \A u \in Workers : ~(runner'[u].run = r /\ runner'[u].at = "done")
    BY <1>1, <1>3, <2>1 DEF RunEnds
  <2>4. ASSUME run'[r] = "running", r \notin broken'
        PROVE  \E u \in Workers : Marked(u, r)'
    <3>1. CASE r = runner[w].run /\ p = "check"
      BY <1>1, <3>1 DEF Marked, Busy
    <3>2. CASE run[r] = "running"
      <4>1. PICK u \in Workers : Marked(u, r)
        BY <2>1, <2>4, <3>2 DEF RunEnds
      <4>2. Marked(u, r)'
        BY <1>1, <2>4, <4>1 DEF Marked, Busy
      <4> QED
        BY <4>2
    <3> QED
      BY <1>3, <2>4, <3>1, <3>2
  <2> QED
    BY <2>2, <2>3, <2>4 DEF RunEnds
<1>5. TriggerShape'
  BY <1>3 DEF EndsInv, TriggerShape
<1> QED
  BY <1>4, <1>5

\* The same steps, and the message.
LEMMA MovesHold ==
  ASSUME EndsInv, NEW w \in Workers, NEW p \in RunPlaces, RunnerGoes(w, p), runner[w].at # "off", p # "off",
         UNCHANGED <<recent, overlapped, delivered>>,
         contested \subseteq contested', unmarked \subseteq unmarked',
         \/ sender' = sender /\ sender[w].at = "idle"
         \/ p = "reward" /\ Dispatch(w, runner[w].run),
         \/ run' = run
         \/ /\ Busy(w, runner[w].run)
            /\ \E s \in {"running", "skipped", "completed"} :
                 /\ run' = [run EXCEPT ![runner[w].run] = s]
                 /\ s = "skipped" => runner[w].at = "check" /\ p = "done",
         p = "mark" => runner[w].at = "read" /\ run[runner[w].run] = "scheduled",
         p = "check" => runner[w].at = "mark",
         p \in {"mark", "done"} \/ Busy(w, runner[w].run),
         \A r \in Runs \ (contested \cup unmarked)' : RewardedOnce(r)
  PROVE  (\A u \in Workers : SenderOK(u)') /\ (\A r \in Runs \ (contested \cup unmarked)' : SkippedUnsent(r)') /\ OneHolds'
<1>1. /\ runner[w].run \in Runs /\ \A u \in Workers : runner'[u].run = runner[u].run
      /\ \A u \in Workers : runner'[u].at = IF u = w THEN p ELSE runner[u].at
      /\ \A u \in Workers \ {w} : runner'[u] = runner[u]
  BY RunnerGoesOn DEF EndsInv, AutoInv, RunnerShape, RunnerGoes
<1>2. \A u \in Workers : SenderOK(u)'
  <2>1. ASSUME NEW u \in Workers \ {w}
        PROVE  SenderOK(u)'
    <3>1. SenderOK(u) /\ sender'[u] = sender[u]
      BY DEF EndsInv, Dispatch, AutoInv, DispatchInv, DispatchShape
    <3> QED
      BY <1>1, <3>1 DEF SenderOK
  <2>2. SenderOK(w)'
    <3>1. CASE sender' = sender /\ sender[w].at = "idle"
      BY <1>1, <3>1 DEF SenderOK
    <3>2. CASE p = "reward" /\ Dispatch(w, runner[w].run)
      <4>1. sender'[w].key = runner[w].run
        BY <3>2 DEF Dispatch, EndsInv, AutoInv, DispatchInv, DispatchShape
      <4> QED
        BY <1>1, <3>2, <4>1 DEF SenderOK
    <3> QED
      BY <3>1, <3>2
  <2> QED
    BY <2>1, <2>2
<1>3. /\ \A r \in Runs : run[r] # "none" => run'[r] # "none"
      /\ \A r \in Runs : run'[r] # run[r] =>
           /\ r = runner[w].run /\ Busy(w, r) /\ run'[r] \notin {"none", "scheduled"}
           /\ run'[r] = "skipped" => runner[w].at = "check" /\ p = "done"
  BY <1>1 DEF EndsInv, AutoInv, TypeOK
<1>4. ASSUME NEW r \in Runs \ (contested \cup unmarked)'
      PROVE  SkippedUnsent(r)'
  <2>1. SkippedUnsent(r) /\ RewardedOnce(r)
    BY DEF EndsInv
  <2>2. run'[r] \in {"none", "scheduled", "skipped"} => delivered'[r] = 0
    BY <1>3, <2>1 DEF SkippedUnsent
  <2>3. ASSUME run'[r] = "skipped", NEW u \in Workers, Busy(u, r)'
        PROVE  FALSE
    <3>1. CASE run[r] = "skipped"
      <4>1. ~Busy(u, r)
        BY <2>1, <3>1 DEF SkippedUnsent
      <4>2. u = w /\ runner[w].run = r /\ p # "done"
        BY <1>1, <2>3, <4>1 DEF Busy
      <4> QED
        BY <3>1, <4>1, <4>2
    <3>2. CASE run[r] # "skipped"
      <4>1. r = runner[w].run /\ Busy(w, r) /\ p = "done"
        BY <1>3, <2>3, <3>2
      <4>2. u # w /\ Busy(u, r)
        BY <1>1, <2>3, <4>1 DEF Busy
      <4> QED
        BY <2>1, <4>1, <4>2 DEF RewardedOnce
    <3> QED
      BY <3>1, <3>2
  <2>4. ASSUME NEW u \in Workers, Busy(u, r)', runner'[u].at \in {"mark", "check"}
        PROVE  delivered'[r] = 0
    <3>1. CASE u = w
      BY <1>1, <2>1, <2>4, <3>1 DEF SkippedUnsent, Busy
    <3>2. CASE u # w
      BY <1>1, <2>1, <2>4, <3>2 DEF SkippedUnsent, Busy
    <3> QED
      BY <3>1, <3>2
  <2> QED
    BY <2>2, <2>3, <2>4 DEF SkippedUnsent
<1>5. OneHolds'
  <2>1. \A r \in recent : r \in Runs
    BY DEF EndsInv, AutoInv, TypeOK
  <2>2. ASSUME NEW r \in Runs \ (contested \cup unmarked)', run[r] = "skipped"
        PROVE  run'[r] = "skipped"
    BY <1>3, <2>2 DEF EndsInv, SkippedUnsent
  <2> QED
    BY <1>3, <2>1, <2>2 DEF EndsInv, OneHolds
<1> QED
  BY <1>2, <1>4, <1>5

LEMMA MovesKeepEnds ==
  ASSUME EndsInv, AutoInv', NEW w \in Workers,
         Read(w) \/ Mark(w) \/ Skip(w) \/ Message(w) \/ Reward(w) \/ Balance(w) \/ Complete(w)
  PROVE  EndsInv'
<1> DEFINE r == runner[w].run
<1>1. /\ UNCHANGED <<lease, trigger, recent, overlapped, delivered>>
      /\ contested \subseteq contested' /\ unmarked \subseteq unmarked' /\ broken \subseteq broken'
      /\ runner[w].at # "off" /\ r \in Runs
  BY DEF Read, Mark, Skip, Message, Reward, Balance, Complete, RunnerAt, enrolVars, msgVars, pastVars,
         Dispatch, Ends, FailsUnseen, EndsInv, AutoInv, RunnerShape
<1>2. SenderOK(w) /\ (\A q \in Runs \ (contested \cup unmarked)' : RewardedOnce(q))
  BY <1>1 DEF EndsInv, AutoInv
<1>3. LeaseShape'
  BY <1>1 DEF EndsInv, LeaseShape
<1>4. PICK p \in RunPlaces \ {"off"} :
        /\ RunnerGoes(w, p)
        /\ \/ Read(w) /\ run' = run /\ runner[w].at = "read" /\ p = "mark" /\ run[r] = "scheduled"
           \/ /\ Read(w) /\ run' = run /\ runner[w].at = "read" /\ p = "done"
              /\ run[r] # "scheduled" \/ r \in broken'
           \/ /\ Mark(w) /\ runner[w].at = "mark" /\ p = "check"
              /\ run' = run \/ run' = [run EXCEPT ![r] = "running"]
           \/ /\ Skip(w) /\ runner[w].at = "check" /\ p = "done"
              /\ (run' = run /\ r \in broken') \/ run' = [run EXCEPT ![r] = "skipped"]
           \/ Message(w) /\ runner[w].at = "check" /\ p = "reward" /\ run' = run
           \/ Reward(w) /\ runner[w].at = "reward" /\ p = "balance" /\ run' = run
           \/ Balance(w) /\ runner[w].at = "balance" /\ p = "complete" /\ run' = run
           \/ /\ Complete(w) /\ runner[w].at = "complete" /\ p = "done"
              /\ (run' = run /\ r \in broken') \/ run' = [run EXCEPT ![r] = "completed"]
  <2> USE DEF RunnerAt, RunPlaces
  <2>1. CASE Read(w)
    BY <2>1 DEF Read, Runnable, FailsUnseen
  <2>2. CASE Mark(w)
    BY <2>2 DEF Mark
  <2>3. CASE Skip(w)
    BY <2>3 DEF Skip, Ends, FailsUnseen
  <2>4. CASE Complete(w)
    BY <2>4 DEF Complete, Ends, FailsUnseen
  <2>5. CASE Message(w) \/ Reward(w) \/ Balance(w)
    BY <2>5 DEF Message, Reward, Balance
  <2> QED
    BY <2>1, <2>2, <2>3, <2>4, <2>5
<1>5. \/ sender' = sender /\ sender[w].at = "idle"
      \/ p = "reward" /\ Dispatch(w, r)
  BY <1>2, <1>4 DEF SenderOK, Read, Mark, Skip, Message, Reward, Balance, Complete, At, msgVars
<1>6. Busy(w, r) <=> runner[w].at \in {"mark", "check", "reward", "balance", "complete"}
  BY DEF Busy
<1>7. run \in [Runs -> {"none", "scheduled", "running", "skipped", "completed"}]
  BY DEF EndsInv, AutoInv, TypeOK
<1>8. (\A q \in Runs : RunEnds(q)') /\ TriggerShape'
  <2>1. \/ run' = run
        \/ \E s \in {"running", "skipped", "completed"} :
             run' = [run EXCEPT ![r] = s] /\ (s = "running" => p = "check")
    BY <1>4
  <2>2. p = "done" => run'[r] # "scheduled" \/ r \in broken'
    BY <1>1, <1>4, <1>7
  <2>3. Marked(w, r) /\ run'[r] = "running" /\ r \notin broken' =>
          p \in {"check", "reward", "balance", "complete"}
    BY <1>1, <1>4, <1>7 DEF Marked, Busy
  <2> QED
    BY <1>1, <1>4, <2>1, <2>2, <2>3, MovesEnd
<1>9. (\A u \in Workers : SenderOK(u)') /\ (\A q \in Runs \ (contested \cup unmarked)' : SkippedUnsent(q)') /\ OneHolds'
  <2>1. \/ run' = run
        \/ /\ Busy(w, r)
           /\ \E s \in {"running", "skipped", "completed"} :
                /\ run' = [run EXCEPT ![r] = s]
                /\ s = "skipped" => runner[w].at = "check" /\ p = "done"
    BY <1>4, <1>6
  <2>2. /\ p = "mark" => runner[w].at = "read" /\ run[r] = "scheduled"
        /\ p = "check" => runner[w].at = "mark"
        /\ p \in {"mark", "done"} \/ Busy(w, r)
    BY <1>4, <1>6
  <2> QED
    BY <1>1, <1>2, <1>4, <1>5, <2>1, <2>2, MovesHold
<1> QED
  BY <1>3, <1>8, <1>9 DEF EndsInv

\* dispatchMessage stays with its message, and delivers no other.
LEMMA DispatchStepMoves ==
  ASSUME DispatchInv, NEW w \in Workers, DispatchStep(w)
  PROVE  /\ sender[w].at # "idle" /\ \A u \in Workers \ {w} : sender'[u] = sender[u]
         /\ sender'[w].at = "idle" \/ sender'[w].key = sender[w].key
         /\ \A k \in Keys : delivered'[k] = delivered[k] \/ k = sender[w].key
<1>1. sender \in [Workers -> Sends] /\ sender[w] \in Sends /\ delivered \in [Keys -> Nat]
  BY DEF DispatchInv, DispatchShape, DispatchTypeOK
<1>2. \/ Leave(w) \/ NextChannel(w)
      \/ \E p \in {"insert", "send", "record", "refuse"} : GoTo(w, p)
  BY DEF DispatchStep, Gates, Insert, Send, Record, GoTo
<1>3. /\ \A u \in Workers \ {w} : sender'[u] = sender[u]
      /\ sender'[w].at = "idle" \/ sender'[w].key = sender[w].key
  BY <1>1, <1>2 DEF Leave, NextChannel, GoTo, NoSend, Sends
<1>4. sender[w].at # "idle"
  BY DEF DispatchStep, Gates, Insert, Send, Record, At
<1>5. \A k \in Keys : delivered'[k] = delivered[k] \/ k = sender[w].key
  <2>1. delivered' = delivered \/ \E got \in {0, 1} : delivered' = [delivered EXCEPT ![sender[w].key] = @ + got]
    BY DEF DispatchStep, Gates, Insert, Send, Record
  <2> QED
    BY <1>1, <2>1
<1> QED
  BY <1>3, <1>4, <1>5

LEMMA MessageKeepsEnds ==
  ASSUME EndsInv, AutoInv', NEW w \in Workers, MessageStep(w)
  PROVE  EndsInv'
<1>1. UNCHANGED <<lease, run, trigger, recent, overlapped, runner, contested, unmarked, broken>>
  BY DEF MessageStep, enrolVars, pastVars
<1>2. /\ sender[w].at # "idle" /\ \A u \in Workers \ {w} : sender'[u] = sender[u]
      /\ sender'[w].at = "idle" \/ sender'[w].key = sender[w].key
      /\ \A k \in Keys : delivered'[k] = delivered[k] \/ k = sender[w].key
  BY DispatchStepMoves DEF MessageStep, EndsInv, AutoInv
<1>3. SenderOK(w) /\ runner[w].at = "reward" /\ runner[w].run = sender[w].key
  BY <1>2 DEF EndsInv, SenderOK
<1>4. \A u \in Workers : SenderOK(u)'
  BY <1>1, <1>2, <1>3 DEF EndsInv, SenderOK
<1>5. ASSUME NEW r \in Runs \ (contested \cup unmarked)'
      PROVE  SkippedUnsent(r)'
  <2>1. SkippedUnsent(r) /\ RewardedOnce(r) /\ r \in Keys
    BY <1>1, RunAssumption DEF EndsInv, AutoInv
  <2>2. CASE r = sender[w].key
    <3>1. Busy(w, r) /\ Marked(w, r)
      BY <1>3, <2>2 DEF Busy, Marked
    <3>2. run[r] \notin {"none", "scheduled", "skipped"}
      BY <2>1, <3>1 DEF SkippedUnsent, RewardedOnce
    <3>3. \A u \in Workers : ~(Busy(u, r) /\ runner[u].at \in {"mark", "check"})
      BY <1>3, <2>1, <3>1 DEF RewardedOnce
    <3> QED
      BY <1>1, <3>2, <3>3 DEF SkippedUnsent, Busy
  <2>3. CASE r # sender[w].key
    BY <1>1, <1>2, <2>1, <2>3 DEF SkippedUnsent, Busy
  <2> QED
    BY <2>2, <2>3
<1> QED
  BY <1>1, <1>4, <1>5
     DEF EndsInv, LeaseShape, TriggerShape, RunEnds, Marked, Busy, OneHolds

\* A worker that takes a run, ends it or lets go of it leaves its status as it is.
LEMMA ComeAndGoKeepsEnds ==
  ASSUME EndsInv, AutoInv', NEW w \in Workers,
         NEW q \in Runners, runner' = [runner EXCEPT ![w] = q], q.at \in {"read", "off"},
         q.at = "off" => q = NoRun,
         q.at = "read" => q.run \in Runs /\ run[q.run] # "none",
         UNCHANGED <<run, trigger, recent, overlapped, contested, unmarked, delivered>>,
         \/ sender' = sender /\ sender[w].at = "idle"
         \/ Die(w),
         broken \subseteq broken',
         runner[w].at \in {"off", "read", "done"} \/ runner[w].run \in broken',
         NEW j \in Runs, OnlyJob(j), run[j] # "none",
         lease[j].status # "absent" => lease'[j].status # "absent",
         lease'[j].status = "succeeded" =>
           lease[j].status = "succeeded" \/ run[j] # "scheduled" \/ j \in broken'
  PROVE  EndsInv'
<1>1. /\ \A u \in Workers \ {w} : runner'[u] = runner[u]
      /\ runner'[w] = q
  BY DEF EndsInv, AutoInv, RunnerShape
<1>2. j \in Jobs /\ \A r \in Runs \ {j} : lease'[r] = lease[r]
  BY RunAssumption DEF OnlyJob
<1>3. \A u \in Workers : SenderOK(u)'
  <2>1. \A u \in Workers \ {w} : sender'[u] = sender[u]
    BY DEF Die, Leave, EndsInv, AutoInv, DispatchInv, DispatchShape
  <2>2. sender'[w].at = "idle"
    BY DEF Die, Leave, NoSend, EndsInv, AutoInv, DispatchInv, DispatchShape
  <2> QED
    BY <1>1, <2>1, <2>2 DEF EndsInv, SenderOK
<1>4. ASSUME NEW r \in Runs \ (contested \cup unmarked)'
      PROVE  SkippedUnsent(r)'
  <2>1. SkippedUnsent(r)
    BY DEF EndsInv
  <2>2. \A u \in Workers : Busy(u, r)' => u # w /\ Busy(u, r)
    BY <1>1 DEF Busy
  <2> QED
    BY <1>1, <2>1, <2>2 DEF SkippedUnsent
<1>5. ASSUME NEW r \in Runs
      PROVE  RunEnds(r)'
  <2>1. RunEnds(r)
    BY DEF EndsInv
  <2>2. run'[r] = "none" => lease'[r].status = "absent" /\ \A u \in Workers : runner'[u].run # r
    BY <1>1, <1>2, <2>1, NoRunIsARunner, RunAssumption DEF RunEnds
  <2>3. run'[r] = "scheduled" /\ r \notin broken' =>
          /\ \/ lease'[r].status # "absent"
             \/ \E t \in Triggers : trigger'[t].at = "enqueue" /\ trigger'[t].run = r
          /\ lease'[r].status # "succeeded"
          /\ \A u \in Workers : ~(runner'[u].run = r /\ runner'[u].at = "done")
    BY <1>1, <1>2, <2>1 DEF RunEnds
  <2>4. ASSUME run'[r] = "running", r \notin broken'
        PROVE  \E u \in Workers : Marked(u, r)'
    <3>1. PICK u \in Workers : Marked(u, r)
      BY <2>1, <2>4 DEF RunEnds
    <3>2. u # w
      BY <2>4, <3>1 DEF Marked, Busy
    <3> QED
      BY <1>1, <3>1, <3>2 DEF Marked, Busy
  <2> QED
    BY <2>2, <2>3, <2>4 DEF RunEnds
<1>6. LeaseShape' /\ TriggerShape' /\ OneHolds'
  BY DEF OnlyJob, EndsInv, TriggerShape, OneHolds
<1> QED
  BY <1>3, <1>4, <1>5, <1>6 DEF EndsInv

LEMMA WorkersKeepEnds ==
  ASSUME EndsInv, AutoInv', NEW w \in Workers, (\E r \in Runs : StartRun(w, r)) \/ EndRun(w) \/ AbortRun(w)
  PROVE  EndsInv'
<1>1. /\ UNCHANGED <<run, trigger, recent, overlapped, contested, unmarked, delivered>>
      /\ broken \subseteq broken'
  BY DEF StartRun, EndRun, AbortRun, enrolVars, msgVars, pastVars, Die
<1>2. SenderOK(w) /\ LeaseShape /\ runner[w] \in Runners
  BY DEF EndsInv, AutoInv, RunnerShape
<1>3. ASSUME NEW r \in Runs, StartRun(w, r)
      PROVE  EndsInv'
  <2> DEFINE q == [at |-> "read", run |-> r]
  <2>1. q \in Runners /\ q.at = "read" /\ q.run = r /\ runner' = [runner EXCEPT ![w] = q]
    BY <1>3 DEF StartRun, Runners, RunPlaces
  <2>2. OnlyJob(r) /\ lease[r].status = "pending" /\ lease'[r].status = "running"
    BY <1>2, <1>3, WorkerSteps, RunAssumption DEF StartRun
  <2>3. run[r] # "none"
    BY <2>2 DEF EndsInv, RunEnds
  <2>4. runner[w].at = "off" /\ sender' = sender /\ sender[w].at = "idle"
    BY <1>2, <1>3, NoRunIsARunner DEF StartRun, msgVars, SenderOK
  <2> HIDE DEF q
  <2> QED
    BY <1>1, <2>1, <2>2, <2>3, <2>4, ComeAndGoKeepsEnds
<1>4. CASE EndRun(w) \/ AbortRun(w)
  <2>1. PICK j \in Runs : j = runner[w].run /\ run[j] # "none"
    <3>1. runner[w].at # "off"
      BY <1>2, <1>4 DEF EndRun, AbortRun, RunnerAt, SenderOK
    <3> QED
      BY <3>1 DEF EndsInv, AutoInv, RunnerShape, RunEnds
  <2>2. runner' = [runner EXCEPT ![w] = NoRun]
    BY <1>4 DEF EndRun, AbortRun
  <2>3. CASE EndRun(w)
    <3>1. OnlyJob(j) /\ lease'[j].status = "succeeded"
      BY <1>2, <2>1, <2>3, WorkerSteps, RunAssumption DEF EndRun
    <3>2. /\ runner[w].at = "done" /\ (run[j] # "scheduled" \/ j \in broken')
          /\ sender' = sender /\ sender[w].at = "idle"
      BY <1>1, <1>2, <2>1, <2>3 DEF EndRun, RunnerAt, EndsInv, RunEnds, SenderOK, msgVars
    <3> QED
      BY <1>1, <2>1, <2>2, <3>1, <3>2, NoRunIsARunner, ComeAndGoKeepsEnds
  <2>4. CASE AbortRun(w)
    <3>1. OnlyJob(j) /\ lease'[j].status \in {"dead", "pending", lease[j].status}
      BY <1>2, <2>1, <2>4, WorkerSteps, RunAssumption DEF AbortRun
    <3>2. Die(w) /\ (runner[w].at \in {"off", "read", "done"} \/ runner[w].run \in broken')
      BY <2>4 DEF AbortRun
    <3> QED
      BY <1>1, <2>1, <2>2, <3>1, <3>2, NoRunIsARunner, ComeAndGoKeepsEnds
  <2> QED
    BY <1>4, <2>3, <2>4
<1> QED
  BY <1>3, <1>4

\* Enrolments, the clock and the sweep.
LEMMA EnrolKeepsEnds ==
  ASSUME EndsInv, AutoInv', NEW t \in Triggers, Enrol(t)
  PROVE  EndsInv'
<1>1. UNCHANGED <<msgVars, runner, contested, unmarked>>
  BY DEF Enrol, EnrolCheck, EnrolInsert, EnrolEnqueue, pastVars
<1>2. \A w \in Workers : SenderOK(w)'
  BY <1>1 DEF EndsInv, SenderOK, msgVars
<1>3. CASE EnrolCheck(t)
  <2>1. /\ UNCHANGED <<lease, run, recent, overlapped, broken>>
        /\ trigger[t] = NoEnrolment /\ trigger' = [trigger EXCEPT ![t].at = "insert"]
    BY <1>3 DEF EnrolCheck, pastVars
  <2>2. /\ \A s \in Triggers \ {t} : trigger'[s] = trigger[s]
        /\ trigger'[t] = [at |-> "insert", run |-> "none"] /\ trigger[t].at = "idle"
    BY <2>1 DEF NoEnrolment, EndsInv, TriggerShape
  <2> QED
    BY <1>1, <1>2, <2>1, <2>2
       DEF EndsInv, LeaseShape, TriggerShape, RunEnds, Marked, Busy, OneHolds, SkippedUnsent, msgVars
<1>4. CASE EnrolInsert(t)
  <2>1. PICK r \in Runs :
          /\ run[r] = "none" /\ run' = [run EXCEPT ![r] = "scheduled"] /\ recent' = recent \cup {r}
          /\ overlapped' = IF Holding = {} THEN overlapped ELSE overlapped \cup Holding \cup {r}
          /\ trigger' = [trigger EXCEPT ![t] = [at |-> "enqueue", run |-> r]]
    BY <1>4 DEF EnrolInsert
  <2>2. UNCHANGED <<lease, broken>> /\ trigger[t].at = "insert"
    BY <1>4 DEF EnrolInsert, pastVars
  <2>3. \A q \in Runs : run'[q] = IF q = r THEN "scheduled" ELSE run[q]
    BY <2>1 DEF EndsInv, AutoInv, TypeOK
  <2>4. /\ \A s \in Triggers \ {t} : trigger'[s] = trigger[s]
        /\ trigger'[t] = [at |-> "enqueue", run |-> r]
    BY <2>1 DEF EndsInv, TriggerShape
  <2>5. TriggerShape'
    BY <2>1, <2>3, <2>4 DEF EndsInv, TriggerShape
  <2>6. ASSUME NEW q \in Runs PROVE RunEnds(q)'
    <3>1. RunEnds(q) /\ (q = r => lease[q].status = "absent" /\ \A w \in Workers : runner[w].run # q)
      BY <2>1 DEF EndsInv, RunEnds
    <3>2. CASE q = r
      <4>1. trigger'[t].at = "enqueue" /\ trigger'[t].run = q /\ run'[q] = "scheduled"
        BY <2>3, <2>4, <3>2
      <4>2. \E u \in Triggers : trigger'[u].at = "enqueue" /\ trigger'[u].run = q
        BY <4>1
      <4>3. lease'[q].status # "succeeded" /\ \A w \in Workers : runner'[w].run # q
        BY <1>1, <2>2, <3>1, <3>2
      <4> QED
        BY <4>1, <4>2, <4>3 DEF RunEnds
    <3>3. CASE q # r
      <4>1. \A s \in Triggers : trigger[s].at = "enqueue" => trigger'[s] = trigger[s]
        BY <2>2, <2>4
      <4> QED
        BY <1>1, <2>2, <2>3, <3>1, <3>3, <4>1 DEF RunEnds, Marked, Busy
    <3> QED
      BY <3>2, <3>3
  <2>7. \A q \in Runs \ (contested \cup unmarked)' : SkippedUnsent(q)'
    BY <1>1, <2>1, <2>3 DEF EndsInv, SkippedUnsent, Busy, msgVars
  <2>8. OneHolds'
    <3>1. recent \subseteq Runs /\ \A q \in recent : q # r
      BY <2>1 DEF EndsInv, AutoInv, TypeOK, OneHolds
    <3>2. Holding = {} => \A q \in recent : run[q] = "skipped"
      BY <3>1 DEF Holding, EndsInv, OneHolds, AutoInv, TypeOK
    <3>3. \A q \in recent' : run'[q] # "none"
      BY <2>1, <2>3, <3>1 DEF EndsInv, OneHolds
    <3>4. ASSUME NEW q \in recent' \ (overlapped \cup contested \cup unmarked)',
                 NEW s \in recent' \ (overlapped \cup contested \cup unmarked)', q # s
          PROVE  run'[q] = "skipped" \/ run'[s] = "skipped"
      <4>1. CASE q = r \/ s = r
        BY <2>1, <2>3, <3>1, <3>2, <3>4, <4>1
      <4>2. CASE q # r /\ s # r
        BY <1>1, <2>1, <2>3, <3>1, <3>4, <4>2 DEF EndsInv, OneHolds
      <4> QED
        BY <4>1, <4>2
    <3> QED
      BY <3>3, <3>4 DEF OneHolds
  <2> QED
    BY <1>2, <2>2, <2>5, <2>6, <2>7, <2>8 DEF EndsInv, LeaseShape
<1>5. CASE EnrolEnqueue(t)
  <2>1. PICK r \in Runs : r = trigger[t].run /\ run[r] # "none"
    BY <1>5 DEF EnrolEnqueue, EndsInv, TriggerShape
  <2>2. /\ UNCHANGED <<run, recent, overlapped>> /\ broken \subseteq broken'
        /\ trigger' = [trigger EXCEPT ![t] = NoEnrolment]
    BY <1>5 DEF EnrolEnqueue
  <2>3. /\ LeaseShape' /\ \A q \in Runs \ {r} : lease'[q] = lease[q]
        /\ lease'[r].status # "absent" \/ r \in broken'
        /\ lease'[r].status = lease[r].status \/ lease'[r].status = "pending"
    <3>1. CASE Change(r, Enqueued(lease[r]))
      BY <3>1, QueueSteps, RunAssumption DEF EndsInv, OnlyJob
    <3>2. CASE broken' = broken \cup {r} /\ UNCHANGED lease
      BY <3>2 DEF EndsInv, LeaseShape
    <3> QED
      BY <1>5, <2>1, <3>1, <3>2 DEF EnrolEnqueue
  <2>4. /\ \A s \in Triggers \ {t} : trigger'[s] = trigger[s]
        /\ trigger'[t] = NoEnrolment
    BY <2>2 DEF EndsInv, TriggerShape
  <2>5. TriggerShape'
    BY <2>2, <2>4 DEF EndsInv, TriggerShape, NoEnrolment
  <2>6. ASSUME NEW q \in Runs PROVE RunEnds(q)'
    <3>1. RunEnds(q)
      BY DEF EndsInv
    <3>2. CASE q = r
      BY <1>1, <2>1, <2>2, <2>3, <3>1, <3>2 DEF RunEnds, Marked, Busy
    <3>3. CASE q # r
      <4>1. \A s \in Triggers : trigger[s].run = q => trigger'[s] = trigger[s]
        BY <2>1, <2>4, <3>3
      <4> QED
        BY <1>1, <2>2, <2>3, <3>1, <3>3, <4>1 DEF RunEnds, Marked, Busy
    <3> QED
      BY <3>2, <3>3
  <2>7. (\A q \in Runs \ (contested \cup unmarked)' : SkippedUnsent(q)') /\ OneHolds'
    BY <1>1, <2>2 DEF EndsInv, SkippedUnsent, Busy, OneHolds, msgVars
  <2> QED
    BY <1>2, <2>3, <2>5, <2>6, <2>7 DEF EndsInv
<1> QED
  BY <1>3, <1>4, <1>5 DEF Enrol

LEMMA TimeKeepsEnds ==
  ASSUME EndsInv, AutoInv', NEW r \in Runs, CoolDown(r) \/ OverdueRun(r)
  PROVE  EndsInv'
<1>1. /\ UNCHANGED <<msgVars, run, trigger, overlapped, runner, contested, unmarked, broken>>
      /\ recent' \subseteq recent
  BY DEF CoolDown, OverdueRun, enrolVars, pastVars
<1>2. /\ LeaseShape' /\ \A q \in Runs \ {r} : lease'[q] = lease[q]
      /\ \/ lease'[r] = lease[r]
         \/ lease[r].status = "running" /\ lease'[r].status \in {"dead", "pending"}
  <2>1. CASE UNCHANGED lease
    BY <2>1 DEF EndsInv, LeaseShape
  <2>2. CASE Expire(r)
    BY <2>2, QueueSteps, RunAssumption DEF EndsInv, OnlyJob
  <2> QED
    BY <2>1, <2>2 DEF CoolDown, OverdueRun
<1>3. \A q \in Runs : RunEnds(q)'
  BY <1>1, <1>2 DEF EndsInv, RunEnds, Marked, Busy
<1>4. /\ \A w \in Workers : SenderOK(w)'
      /\ \A q \in Runs \ (contested \cup unmarked)' : SkippedUnsent(q)'
      /\ TriggerShape' /\ OneHolds'
  BY <1>1 DEF EndsInv, SenderOK, SkippedUnsent, Busy, TriggerShape, OneHolds, msgVars
<1> QED
  BY <1>2, <1>3, <1>4 DEF EndsInv

LEMMA EndsStep ==
  ASSUME EndsInv, [AutoNext]_autoVars
  PROVE  EndsInv'
<1>1. AutoInv'
  BY RunStepKeeps DEF EndsInv
<1>2. CASE UNCHANGED autoVars
  BY <1>1, <1>2
     DEF EndsInv, autoVars, enrolVars, pastVars, msgVars, LeaseShape, TriggerShape, RunEnds, Marked, Busy, SenderOK,
         SkippedUnsent, OneHolds
<1>3. CASE \E w \in Workers : RunStep(w)
  BY <1>1, <1>3, MovesKeepEnds, MessageKeepsEnds, WorkersKeepEnds DEF RunStep
<1> QED
  BY <1>1, <1>2, <1>3, WorkersKeepEnds, EnrolKeepsEnds, TimeKeepsEnds DEF AutoNext

LEMMA EndsInvariance == AutoSpec => []EndsInv
<1>1. EndsInv /\ [AutoNext]_autoVars => EndsInv'
  BY EndsStep
<1> QED
  BY <1>1, EndsInitially, PTL DEF AutoSpec

\* An enrolled customer is dealt with: at rest, every run has been completed or skipped,
\* unless its worker died in it, its row could not be read or updated, or its job was
\* never enqueued or was given up.
THEOREM RunsComeToAnEnd == AutoSpec => []RunsEnd
BY EndsInvariance, InvImpliesRunsEnd, PTL

\* The cooldown: of the runs within it one has reached the customer, although it is
\* checked without a lock, unless enrolments overlapped, two workers were in a run, or
\* it could not be marked as running.
THEOREM CooldownHolds == AutoSpec => []CooldownKept
BY EndsInvariance, InvImpliesRunsEnd, PTL

=============================================================================
