------------------------- MODULE DoorTrackerProofs -------------------------
(***************************************************************************)
(* Proofs about DoorTracker: what the firmware believes about the door and *)
(* what HomeKit is shown, for every length of the queue and every number   *)
(* of steps of the opener.  The first part is about the notifications      *)
(* alone (HomeKitNotify): what a push, a refused push and a delivery do to *)
(* the value that will arrive.                                             *)
(***************************************************************************)
EXTENDS DoorTracker, WellFoundedInduction, TLAPS

-----------------------------------------------------------------------------
(* The last of some positions of a sequence.                               *)

Before == { pair \in Nat \X Nat : pair[1] < pair[2] }

\* A set of positions has a last one: the distance to the end has a least value.
LEMMA LastExists ==
  ASSUME NEW n \in Nat, NEW S \in SUBSET (1..n), S # {}
  PROVE  \E i \in S : \A j \in S : j <= i
<1> DEFINE T == { k \in Nat : n - k \in S }
<1>1. IsWellFoundedOn(Before, Nat)
  <2>1. OpToRel(<, Nat) = Before
    BY DEF OpToRel, Before
  <2> QED BY <2>1, NatLessThanWellFounded
<1>2. \A j \in S : j \in 1..n /\ n - j \in T
  OBVIOUS
<1>3. T \subseteq Nat /\ T # {}
  BY <1>2
<1>4. PICK k \in T : \A m \in T : ~(<<m, k>> \in Before)
  BY <1>1, <1>3, WFMin
<1>5. k \in Nat /\ n - k \in S
  BY <1>4
<1>6. ASSUME NEW j \in S PROVE j <= n - k
  <2>1. j \in 1..n /\ n - j \in T
    BY <1>2
  <2>2. ~(<<n - j, k>> \in Before)
    BY <1>4, <2>1
  <2>3. n - j \in Nat
    BY <2>1
  <2>4. ~(n - j < k)
    BY <2>2, <2>3, <1>5 DEF Before
  <2> QED BY <2>1, <2>4, <1>5
<1> QED BY <1>5, <1>6

\* It is the one the definition of Arriving chooses.
LEMMA LastIsChosen ==
  ASSUME NEW n \in Nat, NEW S \in SUBSET (1..n), NEW m \in S, \A j \in S : j <= m
  PROVE  (CHOOSE i \in S : \A j \in S : j <= i) = m
<1> DEFINE k == CHOOSE i \in S : \A j \in S : j <= i
<1>1. k \in S /\ \A j \in S : j <= k
  OBVIOUS
<1> HIDE DEF k
<1>2. k <= m /\ m <= k /\ k \in Nat /\ m \in Nat
  BY <1>1
<1>3. k = m
  BY <1>2
<1> QED BY <1>3 DEF k

-----------------------------------------------------------------------------
(* The channel.                                                            *)

Characteristics == { "current", "target", "beam" }

\* What producers push of each characteristic: anything they know of it.
Pushable(c) == IF c = "target" THEN Ends ELSE IF c = "current" THEN DoorStates ELSE BeamStates

LEMMA ShownIsValue ==
  ASSUME NEW c \in Characteristics, NEW v \in Pushable(c)
  PROVE  /\ Shown(c, v) \in Values[c]
         /\ v # "MAX" => Shown(c, v) = v
  BY DEF Characteristics, Pushable, Shown, Values, DoorStates, Ends, BeamStates

LEMMA DomainOfValues == DOMAIN Values = Characteristics
  BY DEF Values, Characteristics

LEMMA MessageType ==
  /\ \A m \in Messages : m.dest \in Characteristics /\ m.value \in Values[m.dest]
  /\ \A c \in Characteristics : \A v \in Values[c] : [dest |-> c, value |-> v] \in Messages
  BY DomainOfValues DEF Messages

LEMMA ChannelType ==
  ASSUME NEW ch \in Channels
  PROVE  /\ ch.queue \in Seq(Messages) /\ Len(ch.queue) \in 0..Capacity
         /\ DOMAIN ch.queue = 1..Len(ch.queue)
         /\ ch.queued \in Copies
  BY CapacityAssumption DEF Channels

LEMMA ChannelWithQueue ==
  ASSUME NEW ch \in Channels, NEW q \in Seq(Messages), Len(q) <= Capacity
  PROVE  LET new == [ch EXCEPT !.queue = q]
         IN  new \in Channels /\ new.queue = q /\ new.queued = ch.queued
  BY CapacityAssumption DEF Channels

\* Appending a message decides what arrives in its characteristic, and in no other.
LEMMA SendArrives ==
  ASSUME NEW ch \in Channels, NEW show \in Displays,
         NEW c \in Characteristics, NEW v \in Pushable(c), Len(ch.queue) < Capacity
  PROVE  LET new == Send(ch, c, v)
         IN  /\ new \in Channels /\ new.queued = ch.queued
             /\ Arriving(new, show, c) = Shown(c, v)
             /\ \A d \in Characteristics \ {c} :
                  Arriving(new, show, d) = Arriving(ch, show, d)
<1> DEFINE q == ch.queue
           m == [dest |-> c, value |-> Shown(c, v)]
           r == Append(q, m)
           n == Len(q)
           new == Send(ch, c, v)
           S(d) == { i \in DOMAIN q : q[i].dest = d }
           R(d) == { i \in DOMAIN r : r[i].dest = d }
<1>1. q \in Seq(Messages) /\ n \in Nat /\ n < Capacity /\ DOMAIN q = 1..n
  BY ChannelType
<1>2. m \in Messages
  BY ShownIsValue, MessageType
<1>3. /\ r \in Seq(Messages) /\ Len(r) = n + 1 /\ DOMAIN r = 1..(n + 1)
      /\ r[n + 1] = m /\ \A i \in 1..n : r[i] = q[i]
  BY <1>1, <1>2
<1>4. new \in Channels /\ new.queue = r /\ new.queued = ch.queued
  <2>1. Len(r) <= Capacity
    BY <1>1, <1>3, CapacityAssumption
  <2>2. LET w == [ch EXCEPT !.queue = r] IN w \in Channels /\ w.queue = r /\ w.queued = ch.queued
    BY <1>3, <2>1, ChannelWithQueue
  <2>3. new = [ch EXCEPT !.queue = r]
    BY DEF Send
  <2> QED BY <2>2, <2>3
<1> HIDE DEF r, q, n, new
<1>5. Arriving(new, show, c) = Shown(c, v)
  <2>1. n + 1 \in R(c) /\ R(c) \in SUBSET (1..(n + 1)) /\ \A j \in R(c) : j <= n + 1
    BY <1>1, <1>3
  <2>2. (CHOOSE i \in R(c) : \A j \in R(c) : j <= i) = n + 1
    BY <2>1, <1>1, LastIsChosen
  <2>3. Arriving(new, show, c) = r[n + 1].value
    BY <2>1, <2>2, <1>4 DEF Arriving
  <2> QED BY <2>3, <1>3
<1>6. ASSUME NEW d \in Characteristics \ {c}
      PROVE  Arriving(new, show, d) = Arriving(ch, show, d)
  <2>1. R(d) = S(d) /\ S(d) \in SUBSET (1..n)
    BY <1>1, <1>3
  <2>2. CASE S(d) = {}
    BY <2>1, <2>2, <1>4 DEF Arriving, q
  <2>3. CASE S(d) # {}
    <3>1. PICK k \in S(d) : \A j \in S(d) : j <= k
      BY <2>1, <2>3, <1>1, LastExists
    <3>2. (CHOOSE i \in S(d) : \A j \in S(d) : j <= i) = k
      BY <3>1, <2>1, <1>1, LastIsChosen
    <3>3. (CHOOSE i \in R(d) : \A j \in R(d) : j <= i) = k
      BY <3>2, <2>1
    <3>4. Arriving(new, show, d) = r[k].value
      BY <3>3, <2>1, <2>3, <1>4 DEF Arriving
    <3>5. Arriving(ch, show, d) = q[k].value
      BY <3>2, <2>3 DEF Arriving, q
    <3> QED BY <3>4, <3>5, <2>1, <1>3
  <2> QED BY <2>2, <2>3
<1> QED BY <1>4, <1>5, <1>6 DEF new

\* A delivery changes what HomeKit shows, not what it will show.
LEMMA DeliveryKeepsArriving ==
  ASSUME NEW ch \in Channels, NEW show \in Displays, ch.queue # <<>>
  PROVE  /\ Drained(ch) \in Channels /\ Drained(ch).queued = ch.queued
         /\ Received(ch, show) \in Displays
         /\ \A c \in Characteristics :
              Arriving(Drained(ch), Received(ch, show), c) = Arriving(ch, show, c)
<1> DEFINE q == ch.queue
           e == Head(q)
           r == Tail(q)
           n == Len(q)
           new == Drained(ch)
           after == Received(ch, show)
           S(d) == { i \in DOMAIN q : q[i].dest = d }
           R(d) == { i \in DOMAIN r : r[i].dest = d }
<1>1. q \in Seq(Messages) /\ n \in Nat \ {0} /\ n <= Capacity /\ DOMAIN q = 1..n
  BY ChannelType
<1>2. e = q[1] /\ e \in Messages /\ e.dest \in Characteristics /\ e.value \in Values[e.dest]
  BY <1>1, MessageType
<1>3. /\ r \in Seq(Messages) /\ Len(r) = n - 1 /\ DOMAIN r = 1..(n - 1)
      /\ \A i \in 1..(n - 1) : r[i] = q[i + 1]
  BY <1>1
<1>4. new \in Channels /\ new.queue = r /\ new.queued = ch.queued
  <2>1. Len(r) <= Capacity
    BY <1>1, <1>3, CapacityAssumption
  <2>2. LET w == [ch EXCEPT !.queue = r] IN w \in Channels /\ w.queue = r /\ w.queued = ch.queued
    BY <1>3, <2>1, ChannelWithQueue
  <2>3. new = [ch EXCEPT !.queue = r]
    BY DEF Drained
  <2> QED BY <2>2, <2>3
<1>5. after \in Displays /\ \A d \in Characteristics :
        after[d] = IF d = e.dest THEN e.value ELSE show[d]
  BY <1>2 DEF Received, Displays, Characteristics, Values
<1> HIDE DEF r, q, n, new, e, after
<1>6. ASSUME NEW d \in Characteristics
      PROVE  Arriving(new, after, d) = Arriving(ch, show, d)
  <2>1. S(d) \in SUBSET (1..n) /\ R(d) \in SUBSET (1..(n - 1)) /\ n - 1 \in Nat
    BY <1>1, <1>3
  <2>2. \A i \in 1..(n - 1) : i \in R(d) <=> i + 1 \in S(d)
    BY <1>1, <1>3
  <2>3. 1 \in S(d) <=> e.dest = d
    BY <1>1, <1>2
  <2>4. CASE R(d) # {}
    <3>1. PICK k \in R(d) : \A j \in R(d) : j <= k
      BY <2>1, <2>4, LastExists
    <3>2. (CHOOSE i \in R(d) : \A j \in R(d) : j <= i) = k
      BY <3>1, <2>1, LastIsChosen
    <3>3. k \in 1..(n - 1) /\ k + 1 \in S(d)
      BY <2>1, <2>2, <3>1
    <3>4. \A j \in S(d) : j <= k + 1
      <4> SUFFICES ASSUME NEW j \in S(d), j # 1 PROVE j <= k + 1
        BY <3>3
      <4>1. j - 1 \in 1..(n - 1) /\ (j - 1) + 1 = j
        BY <1>1, <2>1
      <4>2. j - 1 \in R(d)
        BY <4>1, <2>2
      <4> QED BY <4>1, <4>2, <3>1, <3>3
    <3>5. (CHOOSE i \in S(d) : \A j \in S(d) : j <= i) = k + 1
      BY <3>3, <3>4, <2>1, <1>1, LastIsChosen
    <3>6. Arriving(new, after, d) = r[k].value
      BY <3>2, <2>4, <1>4 DEF Arriving
    <3>7. Arriving(ch, show, d) = q[k + 1].value
      BY <3>3, <3>5 DEF Arriving, q
    <3> QED BY <3>6, <3>7, <3>3, <1>3
  <2>5. CASE R(d) = {} /\ e.dest = d
    <3>1. S(d) = {1}
      <4> SUFFICES ASSUME NEW j \in S(d), j # 1 PROVE FALSE
        BY <2>3, <2>5
      <4>1. j - 1 \in 1..(n - 1) /\ (j - 1) + 1 = j
        BY <1>1, <2>1
      <4> QED BY <4>1, <2>2, <2>5
    <3>2. Arriving(ch, show, d) = q[1].value
      <4>1. (CHOOSE i \in S(d) : \A j \in S(d) : j <= i) = 1
        BY <3>1, <1>1, <2>1, LastIsChosen
      <4> QED BY <4>1, <3>1 DEF Arriving, q
    <3>3. Arriving(new, after, d) = after[d]
      BY <2>5, <1>4 DEF Arriving
    <3> QED BY <3>2, <3>3, <2>5, <1>2, <1>5
  <2>6. CASE R(d) = {} /\ e.dest # d
    <3>1. S(d) = {}
      <4> SUFFICES ASSUME NEW j \in S(d), j # 1 PROVE FALSE
        BY <2>3, <2>6
      <4>1. j - 1 \in 1..(n - 1) /\ (j - 1) + 1 = j
        BY <1>1, <2>1
      <4> QED BY <4>1, <2>2, <2>6
    <3>2. Arriving(ch, show, d) = show[d]
      BY <3>1 DEF Arriving, q
    <3>3. Arriving(new, after, d) = after[d]
      BY <2>6, <1>4 DEF Arriving
    <3> QED BY <3>2, <3>3, <2>6, <1>5
  <2> QED BY <2>4, <2>5, <2>6
<1> QED BY <1>4, <1>5, <1>6 DEF new, after

(***************************************************************************)
(* What any number of pushes of the characteristics C does: each is as it  *)
(* was, or one of C whose copy is what arrives.                            *)
(***************************************************************************)
Follows(ch, new, show, C) ==
  /\ new \in Channels
  /\ \A d \in Characteristics :
       \/ new.queued[d] = ch.queued[d] /\ Arriving(new, show, d) = Arriving(ch, show, d)
       \/ d \in C /\ CopyArrives(new, show, d)

LEMMA FollowsItself ==
  ASSUME NEW ch \in Channels, NEW show, NEW C
  PROVE  Follows(ch, ch, show, C)
  BY DEF Follows

LEMMA FollowsInTurn ==
  ASSUME NEW a, NEW b, NEW c, NEW show, NEW C, NEW D,
         Follows(a, b, show, C), Follows(b, c, show, D)
  PROVE  Follows(a, c, show, C \cup D)
  BY DEF Follows, CopyArrives

\* A push leaves the channel as it is, or commits what it sent.
LEMMA PushFollows ==
  ASSUME NEW ch \in Channels, NEW show \in Displays,
         NEW c \in Characteristics, NEW v \in Pushable(c)
  PROVE  /\ Follows(ch, Push(ch, c, v), show, {c})
         /\ Push(ch, c, v) = ch \/ Len(Push(ch, c, v).queue) = Len(ch.queue) + 1
         /\ ch.queue = <<>> /\ Push(ch, c, v) = ch => ch.queued[c] = v
<1> DEFINE sent == Send(ch, c, v)
           new == Commit(sent, c, v)
<1>1. ASSUME Sendable(ch, c, v)
      PROVE  /\ new \in Channels /\ new.queued[c] = v
             /\ \A d \in Characteristics \ {c} : new.queued[d] = ch.queued[d]
             /\ \A d \in Characteristics : Arriving(new, show, d) = Arriving(sent, show, d)
             /\ Len(new.queue) = Len(ch.queue) + 1
  <2>1. Len(ch.queue) < Capacity
    BY <1>1 DEF Sendable
  <2>2. sent \in Channels /\ sent.queued = ch.queued
    BY <2>1, SendArrives
  <2>8. Len(sent.queue) = Len(ch.queue) + 1
    <3>1. ch.queue \in Seq(Messages)
      BY ChannelType
    <3>2. sent.queue = Append(ch.queue, [dest |-> c, value |-> Shown(c, v)])
      BY DEF Send, Channels
    <3>3. [dest |-> c, value |-> Shown(c, v)] \in Messages
      BY ShownIsValue, MessageType
    <3> QED BY <3>1, <3>2, <3>3
  <2> HIDE DEF sent
  <2>3. sent.queued \in Copies
    BY <2>2, ChannelType
  <2>4. [sent.queued EXCEPT ![c] = v] \in Copies
    BY <2>3 DEF Copies, Characteristics, Pushable, DoorStates, Ends, BeamStates
  <2>5. \A d \in Characteristics :
          [sent.queued EXCEPT ![c] = v][d] = IF d = c THEN v ELSE sent.queued[d]
    BY <2>3 DEF Copies, Characteristics
  <2>6. new \in Channels /\ new.queue = sent.queue
        /\ new.queued = [sent.queued EXCEPT ![c] = v]
    BY <2>2, <2>4 DEF Commit, Channels
  <2>7. \A d \in Characteristics : Arriving(new, show, d) = Arriving(sent, show, d)
    BY <2>6 DEF Arriving
  <2> QED BY <2>2, <2>5, <2>6, <2>7, <2>8
<1>2. ASSUME Sendable(ch, c, v) PROVE Follows(ch, new, show, {c}) /\ new # ch
  <2>1. Len(ch.queue) < Capacity /\ ch.queued[c] # v
    BY <1>2 DEF Sendable
  <2>2. /\ Arriving(sent, show, c) = Shown(c, v)
        /\ \A d \in Characteristics \ {c} : Arriving(sent, show, d) = Arriving(ch, show, d)
    BY <2>1, SendArrives
  <2> HIDE DEF sent, new
  <2>3. CopyArrives(new, show, c)
    BY <1>1, <1>2, <2>2 DEF CopyArrives
  <2> QED BY <1>1, <1>2, <2>1, <2>2, <2>3 DEF Follows
<1>3. Push(ch, c, v) = IF Sendable(ch, c, v) THEN new ELSE ch
  BY DEF Push
<1>4. ASSUME ch.queue = <<>>, ~Sendable(ch, c, v) PROVE ch.queued[c] = v
  <2>1. Len(ch.queue) = 0 /\ 0 < Capacity
    BY <1>4, CapacityAssumption
  <2> QED BY <1>4, <2>1 DEF Sendable
<1> HIDE DEF new
<1> QED BY <1>1, <1>2, <1>3, <1>4, FollowsItself

LEMMA NotifyFollows ==
  ASSUME NEW ch \in Channels, NEW show \in Displays
  PROVE  /\ \A t \in Ends \cup {"NONE"} :
              Follows(ch, NotifyTarget(ch, t), show, {"target"})
         /\ \A d \in DoorStates : Follows(ch, NotifyCurrent(ch, d), show, {"current"})
         /\ \A b \in BeamStates : Follows(ch, NotifyObstruction(ch, b), show, {"beam"})
<1>1. /\ Pushable("target") = Ends /\ Pushable("current") = DoorStates
      /\ Pushable("beam") = BeamStates
      /\ {"target", "current", "beam"} \subseteq Characteristics
  BY DEF Pushable, Characteristics
<1>2. ASSUME NEW t \in Ends \cup {"NONE"}
      PROVE  Follows(ch, NotifyTarget(ch, t), show, {"target"})
  BY <1>1, PushFollows, FollowsItself DEF NotifyTarget
<1>3. ASSUME NEW d \in DoorStates
      PROVE  Follows(ch, NotifyCurrent(ch, d), show, {"current"})
  BY <1>1, PushFollows DEF NotifyCurrent
<1>4. ASSUME NEW b \in BeamStates
      PROVE  Follows(ch, NotifyObstruction(ch, b), show, {"beam"})
  BY <1>1, PushFollows DEF NotifyObstruction
<1> QED BY <1>2, <1>3, <1>4

\* What the watchdog offers again: nothing new only if the copies are what is known.
LEMMA ResendFollows ==
  ASSUME NEW ch \in Channels, NEW show \in Displays,
         NEW door \in DoorStates, NEW beam \in BeamStates
  PROVE  /\ Follows(ch, Resend(ch, door, beam), show, {"current", "beam"})
         /\ ch.queue = <<>> /\ Resend(ch, door, beam) = ch =>
              /\ door # "MAX" => ch.queued["current"] = door
              /\ beam # "MAX" => ch.queued["beam"] = beam
<1> DEFINE middle == IF door = "MAX" THEN ch ELSE NotifyCurrent(ch, door)
           last == IF beam = "MAX" THEN middle ELSE NotifyObstruction(middle, beam)
<1>1. Resend(ch, door, beam) = last
  BY DEF Resend
<1>2. Follows(ch, middle, show, {"current"})
  BY NotifyFollows, FollowsItself
<1>3. middle \in Channels
  BY <1>2 DEF Follows
<1>4. /\ Pushable("current") = DoorStates /\ Pushable("beam") = BeamStates
      /\ {"current", "beam"} \subseteq Characteristics
  BY DEF Pushable, Characteristics
<1>5. /\ middle = ch \/ Len(middle.queue) = Len(ch.queue) + 1
      /\ ch.queue = <<>> /\ middle = ch /\ door # "MAX" => ch.queued["current"] = door
  BY <1>4, PushFollows DEF NotifyCurrent
<1> HIDE DEF middle
<1>6. Follows(middle, last, show, {"beam"})
  BY <1>3, NotifyFollows, FollowsItself
<1>7. /\ last = middle \/ Len(last.queue) = Len(middle.queue) + 1
      /\ middle.queue = <<>> /\ last = middle /\ beam # "MAX" =>
           middle.queued["beam"] = beam
  BY <1>3, <1>4, PushFollows DEF NotifyObstruction
<1>8. last \in Channels
  BY <1>6 DEF Follows
<1> HIDE DEF last
<1>9. Follows(ch, last, show, {"current", "beam"})
  <2>1. {"current"} \cup {"beam"} = {"current", "beam"}
    OBVIOUS
  <2> QED BY <1>2, <1>6, <2>1, FollowsInTurn
<1>10. ASSUME ch.queue = <<>>, last = ch PROVE middle = ch
  <2>1. Len(ch.queue) = 0
    BY <1>10
  <2>2. Len(middle.queue) \in Nat /\ Len(last.queue) \in Nat
    BY <1>3, <1>8, ChannelType
  <2> QED BY <1>5, <1>7, <1>10, <2>1, <2>2
<1> QED BY <1>1, <1>5, <1>7, <1>9, <1>10

-----------------------------------------------------------------------------
(* Types.                                                                  *)

LEMMA HandlerRecord ==
  ASSUME NEW h \in Handlers, NEW a \in {"idle", "show", "commit", "write", "motor"}
  PROVE  LET new == [h EXCEPT !.at = a]
         IN  new \in Handlers /\ new.at = a /\ new.door = h.door /\ new.position = h.position
  BY DEF Handlers

LEMMA WatchdogRecord ==
  ASSUME NEW w \in Watchdogs, NEW a \in {"sleep", "verdict", "settle"}
  PROVE  LET new == [w EXCEPT !.at = a]
         IN  /\ new \in Watchdogs /\ new.at = a
             /\ new.door = w.door /\ new.position = w.position /\ new.target = w.target
  BY DEF Watchdogs

LEMMA IdleTypes ==
  Idle \in Handlers /\ Idle.at = "idle" /\ Asleep \in Watchdogs /\ Asleep.at = "sleep"
  BY DEF Idle, Asleep, Handlers, Watchdogs, DoorStates, Positions

\* What is inferred of the door is a state of it; a status that names one is believed.
LEMMA InferredType ==
  ASSUME NEW s \in Status
  PROVE  Inferred(s) \in DoorStates /\ (s.door # "MAX" => Inferred(s) = s.door)
<1>1. s.door \in DoorStates /\ Ends \subseteq DoorStates /\ "MAX" \in DoorStates
  BY DEF Status, Ends, DoorStates
<1>2. CASE \E d \in Ends : ReadsAs(s.position, d)
  BY <1>1, <1>2 DEF Inferred
<1>3. CASE ~\E d \in Ends : ReadsAs(s.position, d)
  BY <1>1, <1>3 DEF Inferred
<1> QED BY <1>2, <1>3

\* A verdict is that the door rests; a sample of a door at an end is believed.
LEMMA ResolvedType ==
  ASSUME NEW w \in Watchdogs
  PROVE  /\ Resolved(w) \in Ends \cup {"STOPPED"}
         /\ w.door \in Ends => Resolved(w) = w.door
         /\ VerdictTarget(w) \in Ends \cup {"NONE"}
<1>1. Resolved(w) \in Ends \cup {"STOPPED"} /\ (w.door \in Ends => Resolved(w) = w.door)
  <2>1. CASE \E d \in Ends : ReadsAs(w.position, d)
    BY <2>1 DEF Resolved
  <2>2. CASE ~\E d \in Ends : ReadsAs(w.position, d)
    BY <2>2 DEF Resolved
  <2> QED BY <2>1, <2>2
<1>2. VerdictTarget(w) \in Ends \cup {"NONE"}
  BY <1>1 DEF VerdictTarget
<1> QED BY <1>1, <1>2

LEMMA TargetTypes ==
  /\ \A d \in DoorStates : TargetOf(d) \in Ends \cup {"NONE"}
  /\ \A d \in DoorStates, p \in Positions : RestTargets(d, p) \subseteq Ends \cup {"NONE"}
  /\ \A d \in Ends : Other(d) \in Ends /\ Toward(d) \in Moving
  /\ Moving \subseteq DoorStates /\ Ends \subseteq DoorStates
<1>1. \A d \in DoorStates : TargetOf(d) \in Ends \cup {"NONE"}
  BY DEF TargetOf, Ends
<1>2. \A p \in Positions : NearerEnds(p) \subseteq Ends \cup {"NONE"}
  BY DEF NearerEnds, Ends, Positions
<1>3. \A d \in DoorStates, p \in Positions : RestTargets(d, p) \subseteq Ends \cup {"NONE"}
  BY <1>1, <1>2 DEF RestTargets, Moving
<1>4. \A d \in Ends : Other(d) \in Ends /\ Toward(d) \in Moving
  BY DEF Other, Toward, Ends, Moving
<1> QED BY <1>1, <1>3, <1>4 DEF Moving, Ends, DoorStates

LEMMA InitIInv == Init => IInv
<1> SUFFICES ASSUME Init PROVE IInv
  OBVIOUS
<1>1. EmptyChannel \in Channels /\ EmptyChannel.queued = NothingYet
  <2>1. NothingYet \in Copies
    BY DEF NothingYet, Copies, DoorStates, BeamStates
  <2>2. <<>> \in [1..0 -> Messages] /\ 0 \in 0..Capacity
    BY CapacityAssumption
  <2> QED BY <2>1, <2>2 DEF EmptyChannel, Channels
<1>2. TypeOK
  <2>1. status \in Status
    BY DEF Init, Status, DoorStates, BeamStates, Positions
  <2>2. hap \in Displays
    BY DEF Init, Displays, AtCreation, DoorStates, Ends, BeamStates
  <2>3. inputs \in 0..MaxInputs
    BY InputAssumption DEF Init
  <2> QED BY <1>1, <2>1, <2>2, <2>3, IdleTypes
          DEF Init, TypeOK, DoorStates, BeamStates
<1>3. CopiesHold
  BY <1>1, IdleTypes DEF Init, CopiesHold, CopyArrives, NothingYet
<1>4. handler.at = "idle" /\ watchdog.at = "sleep" /\ last_door \notin Moving
      /\ ~status.synced
  BY IdleTypes DEF Init, Moving
<1> QED BY <1>2, <1>3, <1>4
        DEF IInv, Tracking, OverlapIsRecorded, SampleIsFresh, InferenceIsFresh,
            RestWillBeReported, RestsAt, MovingWillBeWatched, InferredMovingIsWatched,
            InVerdict, Showing

-----------------------------------------------------------------------------
(* What the steps have in common.                                          *)

\* Pushes keep the copies, but for one of the current state while another is unfinished.
LEMMA FollowingKeepsCopies ==
  ASSUME TypeOK, CopiesHold, hap' = hap, overlapped => overlapped',
         Follows(channel, channel', hap, Characteristics),
         \/ handler.at # "commit" /\ handler'.at # "commit"
         \/ /\ handler' = handler
            /\ overlapped' \/ Follows(channel, channel', hap, {"target", "beam"})
  PROVE  channel' \in Channels /\ CopiesHold'
<1>1. channel' \in Channels
  BY DEF Follows
<1>2. channel.queued \in Copies /\ channel'.queued \in Copies
  BY <1>1, ChannelType DEF TypeOK
<1>3. /\ channel.queued.current = channel.queued["current"]
      /\ channel'.queued.current = channel'.queued["current"]
  BY <1>2 DEF Copies
<1>4. CopyArrives(channel', hap, "target") /\ CopyArrives(channel', hap, "beam")
  BY DEF CopiesHold, Follows, Characteristics, CopyArrives
<1>5. \/ CopyArrives(channel', hap, "current")
      \/ /\ channel'.queued["current"] = channel.queued["current"]
         /\ Arriving(channel', hap, "current") = Arriving(channel, hap, "current")
  BY DEF Follows, Characteristics
<1>6. ASSUME handler'.at # "commit"
      PROVE  \/ CopyArrives(channel', hap, "current")
             \/ overlapped' /\ channel'.queued.current \in Moving
  <2>1. \/ CopyArrives(channel, hap, "current")
        \/ overlapped /\ channel.queued.current \in Moving
    BY <1>6 DEF CopiesHold
  <2> QED BY <1>3, <1>5, <2>1 DEF CopyArrives
<1>7. ASSUME handler'.at = "commit", ~overlapped'
      PROVE  Arriving(channel', hap, "current") = Toward(handler'.door)
  <2>1. handler' = handler /\ Follows(channel, channel', hap, {"target", "beam"})
    BY <1>7
  <2>2. Arriving(channel', hap, "current") = Arriving(channel, hap, "current")
    BY <2>1 DEF Follows, Characteristics
  <2> QED BY <1>7, <2>1, <2>2 DEF CopiesHold
<1> QED BY <1>1, <1>4, <1>6, <1>7 DEF CopiesHold

LEMMA IdlingKeepsCopies ==
  ASSUME TypeOK, CopiesHold, hap' = hap, overlapped => overlapped', channel' = channel,
         handler' = handler \/ (handler.at # "commit" /\ handler'.at # "commit")
  PROVE  CopiesHold'
<1>1. /\ Follows(channel, channel', hap, Characteristics)
      /\ Follows(channel, channel', hap, {"target", "beam"})
  BY FollowsItself DEF TypeOK
<1> QED BY <1>1, FollowingKeepsCopies

-----------------------------------------------------------------------------
(* gdolib and the requests of the user leave alone what the firmware       *)
(* believes; every news of the door's state or position owes a callback.   *)

LEMMA OpenerStepIs ==
  ASSUME TypeOK, OpenerStep
  PROVE  /\ status' \in Status /\ inputs' \in 0..MaxInputs
         /\ owed \subseteq owed' /\ owed' \subseteq {"position", "synced", "motor", "beam"}
         /\ \/ "position" \in owed'
            \/ status'.door = status.door /\ status'.position = status.position
         /\ status'.synced /\ ~status.synced => "synced" \in owed'
         /\ overlapped' = (overlapped \/ InVerdict)
         /\ UNCHANGED <<protocol, trackVars, handler, watchdog, requestVars, channel, hap>>
<1>1. /\ \A d \in DoorStates, p \in Positions, m \in BOOLEAN, t \in Ends \cup {"NONE"} :
           [status EXCEPT !.door = d, !.position = p, !.motor = m, !.target = t] \in Status
      /\ [status EXCEPT !.motor = TRUE] \in Status
      /\ \A p \in Positions : [status EXCEPT !.position = p] \in Status
      /\ \A b \in BeamStates : [status EXCEPT !.beam = b] \in Status
      /\ \A v \in BOOLEAN : [status EXCEPT !.synced = v] \in Status
  BY DEF TypeOK, Status
<1>2. ASSUME NEW s \in Status, NEW events \in SUBSET {"position", "synced", "motor", "beam"},
             Outside(s, events)
      PROVE  /\ status' = s /\ inputs' \in 0..MaxInputs
             /\ owed' = owed \cup events
             /\ owed' \subseteq {"position", "synced", "motor", "beam"}
             /\ overlapped' = (overlapped \/ InVerdict)
             /\ UNCHANGED <<protocol, trackVars, handler, watchdog, requestVars, channel, hap>>
  BY <1>2, InputAssumption DEF Outside, TypeOK
<1>3. CASE Frame
  <2>1. PICK d \in DoorStates \ {"MAX", status.door} :
          Outside([status EXCEPT
                     !.door = d,
                     !.position = IF d \in Ends THEN d ELSE @,
                     !.motor = d \in Moving,
                     !.target = CASE d = "OPENING" -> "OPEN" [] d = "CLOSING" -> "CLOSED"
                                  [] OTHER -> @],
                  {"position"})
    BY <1>3 DEF Frame
  <2> DEFINE p == IF d \in Ends THEN d ELSE status.position
             t == CASE d = "OPENING" -> "OPEN" [] d = "CLOSING" -> "CLOSED"
                    [] OTHER -> status.target
             s == [status EXCEPT !.door = d, !.position = p, !.motor = d \in Moving,
                                 !.target = t]
  <2>2. p \in Positions /\ t \in Ends \cup {"NONE"} /\ (d \in Moving) \in BOOLEAN
    BY DEF TypeOK, Status, Ends, Positions
  <2>3. s \in Status
    BY <1>1, <2>2
  <2>4. Outside(s, {"position"}) /\ s.synced = status.synced
    BY <2>1 DEF TypeOK, Status
  <2> HIDE DEF s
  <2> QED BY <1>2, <2>3, <2>4
<1>4. CASE MotorOn
  <2>1. Outside([status EXCEPT !.motor = TRUE], {"motor"})
    BY <1>4 DEF MotorOn
  <2>2. LET s == [status EXCEPT !.motor = TRUE]
        IN  s.door = status.door /\ s.position = status.position /\ s.synced = status.synced
    BY DEF TypeOK, Status
  <2> QED BY <1>1, <1>2, <2>1, <2>2
<1>5. CASE Interpolate
  <2> DEFINE p == IF status.position = "PARTWAY" THEN Heading ELSE "PARTWAY"
             s == [status EXCEPT !.position = p]
  <2>1. Outside(s, {"position"})
    BY <1>5 DEF Interpolate
  <2>2. p \in Positions
    BY <1>5 DEF Interpolate, Heading, Other, Positions
  <2>3. s \in Status /\ s.synced = status.synced
    BY <1>1, <2>2 DEF TypeOK, Status
  <2> HIDE DEF s
  <2> QED BY <1>2, <2>1, <2>3
<1>6. CASE Beam
  <2>1. PICK b \in BeamStates : Outside([status EXCEPT !.beam = b], {"beam"})
    BY <1>6 DEF Beam
  <2>2. LET s == [status EXCEPT !.beam = b]
        IN  s.door = status.door /\ s.position = status.position /\ s.synced = status.synced
    BY DEF TypeOK, Status
  <2> QED BY <1>1, <1>2, <2>1, <2>2
<1>7. CASE Synchronize
  <2>1. Outside([status EXCEPT !.synced = TRUE], {"synced"})
    BY <1>7 DEF Synchronize
  <2>2. LET s == [status EXCEPT !.synced = TRUE]
        IN  s.door = status.door /\ s.position = status.position
    BY DEF TypeOK, Status
  <2> QED BY <1>1, <1>2, <2>1, <2>2
<1>8. CASE LoseLink
  <2>1. Outside([status EXCEPT !.synced = FALSE], {})
    BY <1>8 DEF LoseLink
  <2>2. LET s == [status EXCEPT !.synced = FALSE]
        IN  s.door = status.door /\ s.position = status.position /\ ~s.synced
    BY DEF TypeOK, Status
  <2> QED BY <1>1, <1>2, <2>1, <2>2
<1> QED BY <1>3, <1>4, <1>5, <1>6, <1>7, <1>8 DEF OpenerStep

LEMMA HomeKitStepIs ==
  ASSUME TypeOK, HomeKitStep
  PROVE  /\ status' \in Status /\ inputs' \in 0..MaxInputs
         /\ status'.door = status.door /\ status'.position = status.position
         /\ status'.synced = status.synced
         /\ close' \in {"none", "warning", "superseded"}
         /\ accepted' \in Ends \cup {"NONE"} /\ unanswered' \in BOOLEAN
         /\ overlapped' \in BOOLEAN /\ (overlapped => overlapped')
         /\ Follows(channel, channel', hap, {"target"})
         /\ UNCHANGED <<protocol, owed, trackVars, handler, watchdog, hap>>
<1>1. /\ channel \in Channels /\ hap \in Displays /\ overlapped \in BOOLEAN
      /\ status \in Status /\ "OPEN" \in Ends /\ "CLOSED" \in Ends
  BY DEF TypeOK, Ends
<1>2. Follows(channel, channel, hap, {"target"})
  BY <1>1, FollowsItself
<1>3. ASSUME NEW t \in Ends, NEW ok \in BOOLEAN, Sends(t, ok)
      PROVE  /\ status' \in Status /\ unanswered' = TRUE
             /\ status'.door = status.door /\ status'.position = status.position
             /\ status'.synced = status.synced
  <2>1. LET s == [status EXCEPT !.target = t]
        IN  /\ s \in Status /\ s.door = status.door /\ s.position = status.position
            /\ s.synced = status.synced
    BY <1>1 DEF Status
  <2>2. status' = status \/ status' = [status EXCEPT !.target = t]
    BY <1>3 DEF Sends
  <2> QED BY <1>1, <1>3, <2>1, <2>2 DEF Sends
<1>4. ASSUME Command
      PROVE  /\ inputs' \in 0..MaxInputs
             /\ overlapped' \in BOOLEAN /\ (overlapped => overlapped')
  BY <1>4, InputAssumption DEF Command, TypeOK
<1>5. CASE WriteOpen
  BY <1>1, <1>2, <1>3, <1>4, <1>5 DEF WriteOpen, TypeOK, trackVars
<1>6. CASE WriteClose
  BY <1>1, <1>2, <1>4, <1>6 DEF WriteClose, TypeOK, trackVars
<1>7. CASE QueueTarget
  <2>1. Follows(channel, channel', hap, {"target"})
    BY <1>1, <1>7, NotifyFollows DEF QueueTarget, TypeOK
  <2> QED BY <1>1, <1>7, <2>1 DEF QueueTarget, TypeOK, trackVars, outsideVars
<1>8. CASE WarningEnds
  <2>1. PICK ok \in BOOLEAN :
          IF ok THEN Sends("CLOSED", TRUE) /\ UNCHANGED channel
          ELSE UNCHANGED <<status, unanswered>> /\ channel' = GivesBack
    BY <1>8 DEF WarningEnds
  <2>2. Follows(channel, GivesBack, hap, {"target"})
    BY <1>1, NotifyFollows DEF GivesBack
  <2>3. CASE ok
    BY <1>1, <1>2, <1>3, <1>8, <2>1, <2>3 DEF WarningEnds, TypeOK, trackVars
  <2>4. CASE ~ok
    BY <1>1, <1>8, <2>1, <2>2, <2>4 DEF WarningEnds, TypeOK, trackVars
  <2> QED BY <2>3, <2>4
<1>9. CASE AutomaticClose
  <2>1. Follows(channel, channel', hap, {"target"})
    BY <1>1, <1>9, NotifyFollows DEF AutomaticClose
  <2> QED BY <1>1, <1>3, <1>4, <1>9, <2>1 DEF AutomaticClose, TypeOK, trackVars
<1> QED BY <1>5, <1>6, <1>7, <1>8, <1>9 DEF HomeKitStep

LEMMA OpenerKeeps ==
  ASSUME IInv, OpenerStep
  PROVE  IInv'
<1>1. TypeOK /\ CopiesHold /\ Tracking
  BY DEF IInv
<1>2. /\ status' \in Status /\ inputs' \in 0..MaxInputs
      /\ owed \subseteq owed' /\ owed' \subseteq {"position", "synced", "motor", "beam"}
      /\ \/ "position" \in owed'
         \/ status'.door = status.door /\ status'.position = status.position
      /\ status'.synced /\ ~status.synced => "synced" \in owed'
      /\ overlapped' = (overlapped \/ InVerdict)
      /\ UNCHANGED <<protocol, trackVars, handler, watchdog, requestVars, channel, hap>>
  BY <1>1, OpenerStepIs
<1>3. TypeOK'
  BY <1>1, <1>2 DEF TypeOK, trackVars, requestVars
<1>4. CopiesHold'
  BY <1>1, <1>2, IdlingKeepsCopies
<1>5. overlapped => overlapped'
  BY <1>2
<1>6. OverlapIsRecorded' /\ SampleIsFresh'
  BY <1>1, <1>2 DEF Tracking, OverlapIsRecorded, SampleIsFresh, InVerdict
<1>7. InferenceIsFresh'
  <2>1. SUFFICES ASSUME status'.door = status.door, status'.position = status.position
                 PROVE  Inferred(status') = Inferred(status)
    BY <1>1, <1>2 DEF Tracking, InferenceIsFresh, Showing
  <2> QED BY <2>1 DEF Inferred
<1>8. RestWillBeReported'
  BY <1>1, <1>2, <1>5 DEF Tracking, RestWillBeReported, RestsAt, trackVars
<1>9. MovingWillBeWatched' /\ InferredMovingIsWatched'
  BY <1>1, <1>2, <1>5
     DEF Tracking, MovingWillBeWatched, InferredMovingIsWatched, WillShowRest, Showing,
         trackVars
<1> QED BY <1>3, <1>4, <1>6, <1>7, <1>8, <1>9 DEF IInv, Tracking

LEMMA HomeKitKeeps ==
  ASSUME IInv, HomeKitStep
  PROVE  IInv'
<1>1. TypeOK /\ CopiesHold /\ Tracking
  BY DEF IInv
<1>2. /\ status' \in Status /\ inputs' \in 0..MaxInputs
      /\ status'.door = status.door /\ status'.position = status.position
      /\ status'.synced = status.synced
      /\ close' \in {"none", "warning", "superseded"}
      /\ accepted' \in Ends \cup {"NONE"} /\ unanswered' \in BOOLEAN
      /\ overlapped' \in BOOLEAN /\ (overlapped => overlapped')
      /\ Follows(channel, channel', hap, {"target"})
      /\ UNCHANGED <<protocol, owed, trackVars, handler, watchdog, hap>>
  BY <1>1, HomeKitStepIs
<1>3. channel' \in Channels /\ CopiesHold'
  <2>1. /\ Follows(channel, channel', hap, Characteristics)
        /\ Follows(channel, channel', hap, {"target", "beam"})
    BY <1>2 DEF Follows, Characteristics
  <2> QED BY <1>1, <1>2, <2>1, FollowingKeepsCopies
<1>4. TypeOK'
  BY <1>1, <1>2, <1>3 DEF TypeOK, trackVars
<1>5. Inferred(status') = Inferred(status)
  BY <1>2 DEF Inferred
<1>6. OverlapIsRecorded' /\ SampleIsFresh' /\ InferenceIsFresh'
  BY <1>1, <1>2, <1>5
     DEF Tracking, OverlapIsRecorded, SampleIsFresh, InferenceIsFresh, InVerdict, Showing
<1>7. RestWillBeReported'
  BY <1>1, <1>2 DEF Tracking, RestWillBeReported, RestsAt, trackVars
<1>8. MovingWillBeWatched' /\ InferredMovingIsWatched'
  BY <1>1, <1>2
     DEF Tracking, MovingWillBeWatched, InferredMovingIsWatched, WillShowRest, Showing,
         trackVars
<1> QED BY <1>3, <1>4, <1>6, <1>7, <1>8 DEF IInv, Tracking

-----------------------------------------------------------------------------
(* The callback task.                                                      *)

LEMMA TakesIs ==
  ASSUME TypeOK, NEW event, Takes(event)
  PROVE  /\ handler.at = "idle" /\ owed' = owed \ {event}
         /\ owed' \subseteq {"position", "synced", "motor", "beam"}
         /\ overlapped' \in BOOLEAN /\ overlapped' = (overlapped \/ InVerdict)
  BY DEF Takes, TypeOK, InVerdict

LEMMA TrackPositionKeeps ==
  ASSUME IInv, TrackPosition
  PROVE  IInv'
<1>1. TypeOK /\ CopiesHold /\ Tracking
  BY DEF IInv
<1>2. PICK event \in {"position", "synced"} :
        /\ Takes(event)
        /\ IF status.synced /\ CatchesUp(event)
           THEN LET d == Inferred(status)
                IN  /\ channel' = NotifyTarget(channel, PositionTarget(d))
                    /\ in_transit' = IF d \in Moving THEN TRUE
                                     ELSE in_transit /\ ~Confirmed(d, status.position)
                    /\ transition_target' = IF d \in Moving THEN d ELSE transition_target
                    /\ late' = (late /\ ~StartsTracking(d))
                    /\ handler' = [at |-> "show", door |-> d, position |-> status.position]
           ELSE UNCHANGED <<channel, in_transit, transition_target, late, handler>>
  BY DEF TrackPosition
<1>3. /\ handler.at = "idle" /\ owed' = owed \ {event}
      /\ owed' \subseteq {"position", "synced", "motor", "beam"}
      /\ overlapped' \in BOOLEAN /\ overlapped' = (overlapped \/ InVerdict)
  BY <1>1, <1>2, TakesIs
<1>4. UNCHANGED <<protocol, status, inputs, last_door, last_obstruction, watchdog,
                  requestVars, hap>>
  BY DEF TrackPosition
<1>5. CASE ~status.synced
  <2>1. UNCHANGED <<channel, in_transit, transition_target, late, handler>>
    BY <1>2, <1>5
  <2>2. TypeOK'
    BY <1>1, <1>3, <1>4, <2>1 DEF TypeOK, requestVars
  <2>3. CopiesHold'
    BY <1>1, <1>3, <1>4, <2>1, IdlingKeepsCopies
  <2>4. Tracking'
    BY <1>1, <1>3, <1>4, <1>5, <2>1
       DEF Tracking, OverlapIsRecorded, SampleIsFresh, InferenceIsFresh,
           RestWillBeReported, RestsAt, MovingWillBeWatched, InferredMovingIsWatched,
           WillShowRest, Showing, InVerdict
  <2> QED BY <2>2, <2>3, <2>4 DEF IInv
<1>6. CASE status.synced
  <2> DEFINE d == Inferred(status)
  <2>1. /\ channel' = NotifyTarget(channel, PositionTarget(d))
        /\ in_transit' = IF d \in Moving THEN TRUE
                         ELSE in_transit /\ ~Confirmed(d, status.position)
        /\ transition_target' = IF d \in Moving THEN d ELSE transition_target
        /\ late' = (late /\ ~StartsTracking(d))
        /\ handler' = [at |-> "show", door |-> d, position |-> status.position]
    BY <1>2, <1>6 DEF CatchesUp
  <2>2. d \in DoorStates /\ status \in Status
    BY <1>1, InferredType DEF TypeOK
  <2> HIDE DEF d
  <2>3. PositionTarget(d) \in Ends \cup {"NONE"}
    <3>1. transition_target \in DoorStates /\ TargetOf(transition_target) \in Ends \cup {"NONE"}
      BY <1>1, TargetTypes DEF TypeOK, DoorStates
    <3>2. TargetOf(d) \in Ends \cup {"NONE"} /\ status.target \in Ends \cup {"NONE"}
      BY <2>2, TargetTypes DEF Status
    <3> QED BY <3>1, <3>2 DEF PositionTarget
  <2>4. Follows(channel, channel', hap, Characteristics)
    BY <1>1, <2>1, <2>3, NotifyFollows DEF TypeOK, Follows, Characteristics
  <2>5. handler' \in Handlers /\ handler'.at = "show" /\ handler'.door = d
        /\ handler'.position = status.position
    BY <2>1, <2>2 DEF Handlers, Status
  <2>6. channel' \in Channels /\ CopiesHold'
    BY <1>1, <1>3, <1>4, <2>4, <2>5, FollowingKeepsCopies
  <2>7. in_transit' \in BOOLEAN /\ late' \in BOOLEAN
    BY <1>1, <2>1 DEF TypeOK
  <2>8. transition_target' \in Moving \cup {"MAX"}
    BY <1>1, <2>1 DEF TypeOK
  <2>9. TypeOK'
    BY <1>1, <1>3, <1>4, <2>5, <2>6, <2>7, <2>8 DEF TypeOK, requestVars
  <2>10. OverlapIsRecorded' /\ SampleIsFresh' /\ InferenceIsFresh'
    BY <1>1, <1>3, <1>4, <2>5
       DEF Tracking, OverlapIsRecorded, SampleIsFresh, InferenceIsFresh, InVerdict, d
  <2>11. RestWillBeReported'
    BY <2>5 DEF RestWillBeReported
  <2>12. InferredMovingIsWatched'
    BY <2>1, <2>5 DEF InferredMovingIsWatched
  <2>13. MovingWillBeWatched'
    <3> SUFFICES ASSUME last_door' \in Moving, ~overlapped', ~in_transit',
                        watchdog'.at # "settle"
                 PROVE  WillShowRest'
      BY DEF MovingWillBeWatched
    <3>1. in_transit
      BY <1>1, <1>3, <1>4
         DEF Tracking, MovingWillBeWatched, WillShowRest, Showing
    <3>2. d \notin Moving /\ Confirmed(d, status.position)
      BY <2>1, <3>1
    <3> QED BY <2>5, <3>2 DEF WillShowRest, Showing, Confirmed, ReadsAs
  <2> QED BY <2>6, <2>9, <2>10, <2>11, <2>12, <2>13 DEF IInv, Tracking
<1> QED BY <1>5, <1>6

\* The sent message is what will arrive; the copy follows with the commit.
LEMMA SendTowardKeeps ==
  ASSUME IInv, SendToward
  PROVE  IInv'
<1>1. TypeOK /\ CopiesHold /\ Tracking
  BY DEF IInv
<1>2. /\ handler.at = "show" /\ handler \in Handlers /\ handler.door \in Ends
      /\ handler' = [handler EXCEPT !.at = "commit"]
      /\ Len(channel.queue) < Capacity
      /\ channel' = Send(channel, "current", Toward(handler.door))
      /\ overlapped' = (overlapped \/ InVerdict)
      /\ UNCHANGED <<outsideVars, last_obstruction, in_transit, transition_target, late,
                     watchdog, accepted, unanswered, hap, last_door, close>>
  BY <1>1 DEF SendToward, SendsToward, Sendable, ShowUnchanged, TypeOK
<1>3. /\ handler' \in Handlers /\ handler'.at = "commit"
      /\ handler'.door = handler.door /\ handler'.position = handler.position
  BY <1>2, HandlerRecord
<1>4. /\ Toward(handler.door) \in Pushable("current") /\ Toward(handler.door) # "MAX"
      /\ "current" \in Characteristics
  BY <1>2, TargetTypes DEF Pushable, Characteristics, Moving
<1>5. /\ channel' \in Channels /\ channel'.queued = channel.queued
      /\ Arriving(channel', hap, "current") = Toward(handler.door)
      /\ \A d \in Characteristics \ {"current"} :
           Arriving(channel', hap, d) = Arriving(channel, hap, d)
  BY <1>1, <1>2, <1>4, SendArrives, ShownIsValue DEF TypeOK
<1>6. TypeOK'
  BY <1>1, <1>2, <1>3, <1>5 DEF TypeOK, outsideVars, InVerdict
<1>7. CopiesHold'
  BY <1>1, <1>2, <1>3, <1>5 DEF CopiesHold, CopyArrives, Characteristics
<1>8. Tracking'
  BY <1>1, <1>2, <1>3
     DEF Tracking, OverlapIsRecorded, SampleIsFresh, InferenceIsFresh,
         RestWillBeReported, RestsAt, MovingWillBeWatched, InferredMovingIsWatched,
         WillShowRest, Showing, InVerdict, outsideVars
<1> QED BY <1>6, <1>7, <1>8 DEF IInv

LEMMA CommitTowardKeeps ==
  ASSUME IInv, CommitToward
  PROVE  IInv'
<1> DEFINE v == Toward(handler.door)
<1>1. TypeOK /\ CopiesHold /\ Tracking
  BY DEF IInv
<1>2. /\ handler.at = "commit" /\ handler \in Handlers
      /\ handler' = [handler EXCEPT !.at = "write"]
      /\ channel' = Commit(channel, "current", v)
      /\ overlapped' = (overlapped \/ InVerdict)
      /\ UNCHANGED <<outsideVars, last_obstruction, in_transit, transition_target, late,
                     watchdog, accepted, unanswered, hap, last_door, close>>
  BY <1>1 DEF CommitToward, ShowUnchanged, TypeOK
<1>3. /\ handler' \in Handlers /\ handler'.at = "write"
      /\ handler'.door = handler.door /\ handler'.position = handler.position
  BY <1>2, HandlerRecord
<1>4. v \in Moving /\ v \in DoorStates
  BY DEF Toward, Moving, DoorStates
<1> HIDE DEF v
<1>5. channel.queued \in Copies
  BY <1>1, ChannelType DEF TypeOK
<1>6. LET k == [channel.queued EXCEPT !["current"] = v]
      IN  /\ k \in Copies /\ k["current"] = v /\ k.current = v
          /\ \A d \in {"target", "beam"} : k[d] = channel.queued[d]
  BY <1>4, <1>5 DEF Copies
<1>7. /\ channel' \in Channels /\ channel'.queue = channel.queue
      /\ channel'.queued = [channel.queued EXCEPT !["current"] = v]
  BY <1>1, <1>2, <1>6 DEF Commit, Channels, TypeOK
<1>8. \A d \in Characteristics : Arriving(channel', hap, d) = Arriving(channel, hap, d)
  BY <1>7 DEF Arriving
<1>9. TypeOK'
  BY <1>1, <1>2, <1>3, <1>7 DEF TypeOK, outsideVars, InVerdict
<1>10. CopiesHold'
  <2>1. CopyArrives(channel', hap, "target") /\ CopyArrives(channel', hap, "beam")
    BY <1>1, <1>6, <1>7, <1>8 DEF CopiesHold, CopyArrives, Characteristics
  <2>2. channel'.queued.current \in Moving
    BY <1>4, <1>6, <1>7
  <2>3. ASSUME ~overlapped' PROVE CopyArrives(channel', hap, "current")
    <3>1. Arriving(channel, hap, "current") = v
      BY <1>1, <1>2, <2>3 DEF CopiesHold, v
    <3>2. Shown("current", v) = v
      BY <1>4 DEF Shown, Moving
    <3> QED BY <3>1, <3>2, <1>6, <1>7, <1>8 DEF CopyArrives, Characteristics
  <2> QED BY <1>2, <1>3, <2>1, <2>2, <2>3 DEF CopiesHold
<1>11. Tracking'
  BY <1>1, <1>2, <1>3
     DEF Tracking, OverlapIsRecorded, SampleIsFresh, InferenceIsFresh,
         RestWillBeReported, RestsAt, MovingWillBeWatched, InferredMovingIsWatched,
         WillShowRest, Showing, InVerdict, outsideVars
<1> QED BY <1>9, <1>10, <1>11 DEF IInv

LEMMA ShowPositionKeeps ==
  ASSUME IInv, ShowPosition
  PROVE  IInv'
<1> DEFINE d == handler.door
           shows == handler.at = "write" \/ ShowsState(d, handler.position)
<1>1. TypeOK /\ CopiesHold /\ Tracking
  BY DEF IInv
<1>2. /\ handler.at \in {"show", "write"} /\ handler \in Handlers
      /\ handler' = Idle /\ handler'.at = "idle" /\ handler' \in Handlers
      /\ overlapped' = (overlapped \/ InVerdict)
      /\ UNCHANGED <<outsideVars, last_obstruction, in_transit, transition_target, late,
                     watchdog, accepted, unanswered, hap>>
  BY <1>1, IdleTypes DEF ShowPosition, ShowUnchanged, TypeOK
<1>3. d \in DoorStates /\ handler.position \in Positions
  BY <1>2 DEF Handlers
<1>4. IF shows
      THEN /\ SetLastDoor(d)
           /\ \E t \in RestTargets(d, handler.position) :
                channel' = NotifyTarget(NotifyCurrent(channel, d), t)
      ELSE UNCHANGED <<last_door, channel, close>>
  BY DEF ShowPosition
<1>5. /\ last_door' = IF shows THEN d ELSE last_door
      /\ close' \in {"none", "warning", "superseded"}
  BY <1>1, <1>4 DEF SetLastDoor, TypeOK
<1>6. Follows(channel, channel', hap, Characteristics)
  <2>1. CASE ~shows
    BY <1>1, <1>4, <2>1, FollowsItself DEF TypeOK
  <2>2. CASE shows
    <3>1. PICK t \in RestTargets(d, handler.position) :
            channel' = NotifyTarget(NotifyCurrent(channel, d), t)
      BY <1>4, <2>2
    <3>2. t \in Ends \cup {"NONE"}
      BY <1>3, <3>1, TargetTypes
    <3> DEFINE middle == NotifyCurrent(channel, d)
    <3>3. Follows(channel, middle, hap, {"current"})
      BY <1>1, <1>3, NotifyFollows DEF TypeOK
    <3>4. middle \in Channels
      BY <3>3 DEF Follows
    <3> HIDE DEF middle
    <3>5. Follows(middle, NotifyTarget(middle, t), hap, {"target"})
      BY <1>1, <3>2, <3>4, NotifyFollows DEF TypeOK
    <3>6. Follows(channel, channel', hap, {"current"} \cup {"target"})
      BY <3>1, <3>3, <3>5, FollowsInTurn DEF middle
    <3> QED BY <3>6 DEF Follows, Characteristics
  <2> QED BY <2>1, <2>2
<1>7. channel' \in Channels /\ CopiesHold'
  BY <1>1, <1>2, <1>6, FollowingKeepsCopies
<1>8. TypeOK'
  BY <1>1, <1>2, <1>3, <1>5, <1>7 DEF TypeOK, outsideVars, InVerdict
<1> HIDE DEF shows
<1>9. OverlapIsRecorded' /\ SampleIsFresh' /\ InferenceIsFresh' /\ InferredMovingIsWatched'
  BY <1>1, <1>2
     DEF Tracking, OverlapIsRecorded, SampleIsFresh, InferenceIsFresh, Showing,
         InferredMovingIsWatched, InVerdict, outsideVars
<1>10. RestWillBeReported'
  <2> SUFFICES ASSUME NEW e \in Ends, RestsAt(e)', ~overlapped', "position" \notin owed'
               PROVE  last_door' = e
    BY DEF RestWillBeReported
  <2>1. status.door = e /\ status.position = e /\ ~overlapped /\ "position" \notin owed
    BY <1>2 DEF RestsAt, outsideVars
  <2>2. d = Inferred(status) /\ handler.position = status.position
    BY <1>1, <1>2, <2>1 DEF Tracking, InferenceIsFresh, Showing
  <2>3. d = e
    BY <1>1, <2>1, <2>2, InferredType DEF TypeOK, Ends
  <2>4. Confirmed(d, handler.position)
    BY <2>1, <2>2, <2>3 DEF Confirmed, ReadsAs, Ends
  <2> QED BY <1>5, <2>3, <2>4 DEF shows, ShowsState
<1>11. MovingWillBeWatched'
  <2> SUFFICES ASSUME last_door' \in Moving, ~overlapped', watchdog'.at # "settle"
               PROVE  in_transit'
    BY DEF MovingWillBeWatched
  <2>1. ~overlapped /\ watchdog.at # "settle" /\ Showing
    BY <1>2 DEF Showing
  <2>2. CASE d \in Moving
    BY <1>1, <1>2, <2>1, <2>2 DEF Tracking, InferredMovingIsWatched
  <2>3. CASE d \notin Moving
    <3>1. ~shows /\ last_door' = last_door /\ last_door # d
      BY <1>5, <2>3
    <3>2. ~Confirmed(d, handler.position)
      BY <3>1 DEF shows, ShowsState
    <3> QED BY <1>1, <1>2, <2>1, <3>1, <3>2 DEF Tracking, MovingWillBeWatched, WillShowRest
  <2> QED BY <2>2, <2>3
<1> QED BY <1>7, <1>8, <1>9, <1>10, <1>11 DEF IInv, Tracking

LEMMA MotorEventKeeps ==
  ASSUME IInv, MotorEvent
  PROVE  IInv'
<1> DEFINE d == MotorDirection
<1>1. TypeOK /\ CopiesHold /\ Tracking
  BY DEF IInv
<1>2. /\ handler.at = "idle" /\ owed' = owed \ {"motor"}
      /\ owed' \subseteq {"position", "synced", "motor", "beam"}
      /\ overlapped' \in BOOLEAN /\ overlapped' = (overlapped \/ InVerdict)
  BY <1>1, TakesIs DEF MotorEvent
<1>3. UNCHANGED <<protocol, status, inputs, last_obstruction, in_transit,
                  transition_target, late, watchdog, accepted, unanswered, hap>>
  BY DEF MotorEvent
<1>4. CASE d = "MAX"
  <2>1. UNCHANGED <<last_door, channel, close, handler>> /\ last_door \notin Ends
    BY <1>4 DEF MotorEvent, MotorDirection, Ends
  <2>2. TypeOK'
    BY <1>1, <1>2, <1>3, <2>1 DEF TypeOK
  <2>3. CopiesHold'
    BY <1>1, <1>2, <1>3, <2>1, IdlingKeepsCopies
  <2>4. Tracking'
    BY <1>1, <1>2, <1>3, <2>1
       DEF Tracking, OverlapIsRecorded, SampleIsFresh, InferenceIsFresh,
           RestWillBeReported, RestsAt, MovingWillBeWatched, InferredMovingIsWatched,
           WillShowRest, Showing, InVerdict
  <2> QED BY <2>2, <2>3, <2>4 DEF IInv
<1>5. CASE d # "MAX"
  <2>1. /\ SetLastDoor(d) /\ channel' = NotifyCurrent(channel, d)
        /\ handler' = [Idle EXCEPT !.at = "motor", !.door = d]
    BY <1>5 DEF MotorEvent
  <2>2. d \in Moving /\ d \in DoorStates
    BY <1>5 DEF MotorDirection, Moving, DoorStates
  <2> HIDE DEF d
  <2>3. handler' \in Handlers /\ handler'.at = "motor" /\ handler'.door = d
    BY <2>1, <2>2 DEF Idle, Handlers, Positions
  <2>4. last_door' = d /\ close' \in {"none", "warning", "superseded"}
    BY <1>1, <2>1 DEF SetLastDoor, TypeOK
  <2>5. Follows(channel, channel', hap, Characteristics)
    BY <1>1, <2>1, <2>2, NotifyFollows DEF TypeOK, Follows, Characteristics
  <2>6. channel' \in Channels /\ CopiesHold'
    BY <1>1, <1>2, <1>3, <2>3, <2>5, FollowingKeepsCopies
  <2>7. TypeOK'
    BY <1>1, <1>2, <1>3, <2>2, <2>3, <2>4, <2>6 DEF TypeOK
  <2>8. Tracking'
    BY <1>1, <1>2, <1>3, <2>2, <2>3, <2>4
       DEF Tracking, OverlapIsRecorded, SampleIsFresh, InferenceIsFresh,
           RestWillBeReported, RestsAt, MovingWillBeWatched, InferredMovingIsWatched,
           WillShowRest, Showing, InVerdict
  <2> QED BY <2>6, <2>7, <2>8 DEF IInv
<1> QED BY <1>4, <1>5

LEMMA TrackMotorKeeps ==
  ASSUME IInv, TrackMotor
  PROVE  IInv'
<1>1. TypeOK /\ CopiesHold /\ Tracking
  BY DEF IInv
<1>2. /\ handler.at = "motor" /\ handler \in Handlers
      /\ handler' = Idle /\ handler'.at = "idle" /\ handler' \in Handlers
      /\ channel' = NotifyTarget(channel, TargetOf(handler.door))
      /\ in_transit' = TRUE /\ transition_target' = handler.door /\ late' = FALSE
      /\ overlapped' = (overlapped \/ InVerdict)
      /\ UNCHANGED <<outsideVars, last_door, last_obstruction, watchdog, requestVars, hap>>
  BY <1>1, IdleTypes DEF TrackMotor, MotorTracks, TypeOK
<1>3. TargetOf(handler.door) \in Ends \cup {"NONE"}
  BY <1>2, TargetTypes DEF Handlers
<1>4. Follows(channel, channel', hap, Characteristics)
  BY <1>1, <1>2, <1>3, NotifyFollows DEF TypeOK, Follows, Characteristics
<1>5. channel' \in Channels /\ CopiesHold'
  BY <1>1, <1>2, <1>4, FollowingKeepsCopies
<1>6. TypeOK'
  BY <1>1, <1>2, <1>5 DEF TypeOK, outsideVars, requestVars, InVerdict
<1>7. Tracking'
  BY <1>1, <1>2
     DEF Tracking, OverlapIsRecorded, SampleIsFresh, InferenceIsFresh,
         RestWillBeReported, MovingWillBeWatched, InferredMovingIsWatched,
         WillShowRest, Showing, InVerdict, outsideVars
<1> QED BY <1>5, <1>6, <1>7 DEF IInv

LEMMA ObstructionEventKeeps ==
  ASSUME IInv, ObstructionEvent
  PROVE  IInv'
<1>1. TypeOK /\ CopiesHold /\ Tracking
  BY DEF IInv
<1>2. /\ handler.at = "idle" /\ owed' = owed \ {"beam"}
      /\ owed' \subseteq {"position", "synced", "motor", "beam"}
      /\ overlapped' \in BOOLEAN /\ overlapped' = (overlapped \/ InVerdict)
  BY <1>1, TakesIs DEF ObstructionEvent
<1>3. /\ last_obstruction' = status.beam /\ status.beam \in BeamStates
      /\ channel' = NotifyObstruction(channel, status.beam)
      /\ close' \in {"none", "warning", "superseded"}
      /\ UNCHANGED <<protocol, status, inputs, last_door, in_transit, transition_target,
                     late, handler, watchdog, accepted, unanswered, hap>>
  BY <1>1 DEF ObstructionEvent, TypeOK, Status
<1>4. Follows(channel, channel', hap, Characteristics)
  BY <1>1, <1>3, NotifyFollows DEF TypeOK, Follows, Characteristics
<1>5. channel' \in Channels /\ CopiesHold'
  BY <1>1, <1>2, <1>3, <1>4, FollowingKeepsCopies
<1>6. TypeOK'
  BY <1>1, <1>2, <1>3, <1>5 DEF TypeOK
<1>7. Tracking'
  BY <1>1, <1>2, <1>3
     DEF Tracking, OverlapIsRecorded, SampleIsFresh, InferenceIsFresh,
         RestWillBeReported, RestsAt, MovingWillBeWatched, InferredMovingIsWatched,
         WillShowRest, Showing, InVerdict
<1> QED BY <1>5, <1>6, <1>7 DEF IInv

-----------------------------------------------------------------------------
(* The watchdog and the consumer.                                          *)

LEMMA TransitGetsLateKeeps ==
  ASSUME IInv, TransitGetsLate
  PROVE  IInv'
<1>1. TypeOK /\ CopiesHold /\ Tracking
  BY DEF IInv
<1>2. /\ late' = TRUE
      /\ UNCHANGED <<outsideVars, last_door, last_obstruction, in_transit,
                     transition_target, handler, watchdog, requestVars, channel, hap,
                     overlapped>>
  BY DEF TransitGetsLate
<1>3. TypeOK'
  BY <1>1, <1>2 DEF TypeOK, outsideVars, requestVars
<1>4. CopiesHold'
  BY <1>1, <1>2, IdlingKeepsCopies
<1>5. Tracking'
  BY <1>1, <1>2
     DEF Tracking, OverlapIsRecorded, SampleIsFresh, InferenceIsFresh,
         RestWillBeReported, RestsAt, MovingWillBeWatched, InferredMovingIsWatched,
         WillShowRest, Showing, InVerdict, outsideVars
<1> QED BY <1>3, <1>4, <1>5 DEF IInv

LEMMA TransitIsLateKeeps ==
  ASSUME IInv, TransitIsLate
  PROVE  IInv'
<1>1. TypeOK /\ CopiesHold /\ Tracking
  BY DEF IInv
<1>2. /\ watchdog.at = "sleep" /\ in_transit
      /\ watchdog' = [at |-> "verdict", door |-> status.door,
                      position |-> status.position, target |-> status.target]
      /\ overlapped' = (overlapped \/ handler.at # "idle")
      /\ UNCHANGED <<outsideVars, trackVars, handler, requestVars, channel, hap>>
  BY DEF TransitIsLate
<1>3. /\ watchdog' \in Watchdogs /\ watchdog'.at = "verdict"
      /\ watchdog'.door = status.door /\ watchdog'.position = status.position
  BY <1>1, <1>2 DEF TypeOK, Status, Watchdogs
<1>4. TypeOK'
  BY <1>1, <1>2, <1>3 DEF TypeOK, outsideVars, trackVars, requestVars
<1>5. CopiesHold'
  BY <1>1, <1>2, IdlingKeepsCopies
<1>6. Tracking'
  BY <1>1, <1>2, <1>3
     DEF Tracking, OverlapIsRecorded, SampleIsFresh, InferenceIsFresh,
         RestWillBeReported, RestsAt, MovingWillBeWatched, InferredMovingIsWatched,
         WillShowRest, Showing, InVerdict, outsideVars, trackVars
<1> QED BY <1>4, <1>5, <1>6 DEF IInv

LEMMA VerdictClearsKeeps ==
  ASSUME IInv, VerdictClears
  PROVE  IInv'
<1>1. TypeOK /\ CopiesHold /\ Tracking
  BY DEF IInv
<1>2. /\ watchdog.at = "verdict" /\ in_transit' = FALSE
      /\ watchdog' = [watchdog EXCEPT !.at = "settle"]
      /\ UNCHANGED <<outsideVars, last_door, last_obstruction, transition_target, late,
                     handler, requestVars, channel, hap, overlapped>>
  BY DEF VerdictClears
<1>3. /\ watchdog' \in Watchdogs /\ watchdog'.at = "settle"
      /\ watchdog'.door = watchdog.door /\ watchdog'.position = watchdog.position
  BY <1>1, <1>2, WatchdogRecord DEF TypeOK
<1>4. TypeOK'
  BY <1>1, <1>2, <1>3 DEF TypeOK, outsideVars, requestVars
<1>5. CopiesHold'
  BY <1>1, <1>2, IdlingKeepsCopies
<1>6. Tracking'
  BY <1>1, <1>2, <1>3
     DEF Tracking, OverlapIsRecorded, SampleIsFresh, InferenceIsFresh,
         RestWillBeReported, RestsAt, MovingWillBeWatched, InferredMovingIsWatched,
         WillShowRest, Showing, InVerdict, outsideVars
<1> QED BY <1>4, <1>5, <1>6 DEF IInv

LEMMA VerdictSettlesKeeps ==
  ASSUME IInv, VerdictSettles
  PROVE  IInv'
<1> DEFINE d == Resolved(watchdog)
           ch == IF d = last_door THEN channel ELSE NotifyCurrent(channel, d)
<1>1. TypeOK /\ CopiesHold /\ Tracking
  BY DEF IInv
<1>2. /\ watchdog.at = "settle" /\ watchdog' = Asleep
      /\ watchdog' \in Watchdogs /\ watchdog'.at = "sleep"
      /\ SetLastDoor(d) /\ channel' = NotifyTarget(ch, VerdictTarget(watchdog))
      /\ UNCHANGED <<outsideVars, last_obstruction, in_transit, transition_target, late,
                     handler, accepted, unanswered, hap, overlapped>>
  BY IdleTypes DEF VerdictSettles
<1>3. /\ d \in Ends \cup {"STOPPED"} /\ (watchdog.door \in Ends => d = watchdog.door)
      /\ VerdictTarget(watchdog) \in Ends \cup {"NONE"}
  BY <1>1, ResolvedType DEF TypeOK
<1>4. d \in DoorStates /\ d \notin Moving
  BY <1>3 DEF DoorStates, Ends, Moving
<1> HIDE DEF d
<1>5. last_door' = d /\ close' \in {"none", "warning", "superseded"}
  BY <1>1, <1>2 DEF SetLastDoor, TypeOK
<1>6. Follows(channel, channel', hap, {"current"} \cup {"target"})
  <2>1. Follows(channel, ch, hap, {"current"})
    BY <1>1, <1>4, NotifyFollows, FollowsItself DEF TypeOK
  <2>2. ch \in Channels
    BY <2>1 DEF Follows
  <2> HIDE DEF ch
  <2>3. Follows(ch, channel', hap, {"target"})
    BY <1>1, <1>2, <1>3, <2>2, NotifyFollows DEF TypeOK
  <2> QED BY <2>1, <2>3, FollowsInTurn
<1> HIDE DEF ch
<1>7. channel' \in Channels /\ CopiesHold'
  <2>1. Follows(channel, channel', hap, Characteristics)
    BY <1>6 DEF Follows, Characteristics
  <2>2. handler.at = "commit" => overlapped
    BY <1>1, <1>2 DEF Tracking, OverlapIsRecorded, InVerdict
  <2> QED BY <1>1, <1>2, <2>1, <2>2, FollowingKeepsCopies
<1>8. TypeOK'
  BY <1>1, <1>2, <1>4, <1>5, <1>7 DEF TypeOK, outsideVars
<1>9. RestWillBeReported'
  <2> SUFFICES ASSUME NEW e \in Ends, RestsAt(e)', ~overlapped' PROVE last_door' = e
    BY DEF RestWillBeReported
  <2>1. status.door = e /\ watchdog.door = status.door
    BY <1>1, <1>2 DEF RestsAt, outsideVars, Tracking, SampleIsFresh, InVerdict
  <2> QED BY <1>3, <1>5, <2>1
<1>10. Tracking'
  BY <1>1, <1>2, <1>4, <1>5, <1>9
     DEF Tracking, OverlapIsRecorded, SampleIsFresh, InferenceIsFresh,
         MovingWillBeWatched, InferredMovingIsWatched, Showing, InVerdict, outsideVars
<1> QED BY <1>7, <1>8, <1>10 DEF IInv

\* The rest of the watchdog's pass: the retry budget, and what is offered again.
LEMMA PassKeeps ==
  ASSUME IInv, RequestMoved \/ GiveUp \/ ResendLastStates
  PROVE  IInv'
<1>1. TypeOK /\ CopiesHold /\ Tracking
  BY DEF IInv
<1>2. channel \in Channels /\ hap \in Displays /\ status.door \in DoorStates
  BY <1>1 DEF TypeOK, Status
<1>3. /\ unanswered' \in BOOLEAN
      /\ overlapped' \in BOOLEAN /\ (overlapped => overlapped')
      /\ UNCHANGED <<outsideVars, trackVars, handler, watchdog, close, accepted, hap>>
  BY <1>1 DEF RequestMoved, GiveUp, ResendLastStates, TypeOK, requestVars
<1>4. /\ Follows(channel, channel', hap, Characteristics)
      /\ \/ Follows(channel, channel', hap, {"target", "beam"})
         \/ handler.at = "commit" => overlapped'
  <2>1. CASE RequestMoved
    BY <1>2, <2>1, FollowsItself DEF RequestMoved
  <2>2. CASE GiveUp
    <3>1. status.door \in Ends /\ channel' = NotifyTarget(channel, status.door)
      BY <2>2 DEF GiveUp, RequestPending
    <3> QED BY <1>2, <3>1, NotifyFollows DEF Follows, Characteristics
  <2>3. CASE ResendLastStates
    <3>1. /\ channel' = Resend(channel, last_door, last_obstruction)
          /\ overlapped' = (overlapped \/ (handler.at = "commit" /\ channel' # channel))
      BY <2>3 DEF ResendLastStates, OffersAgain
    <3>2. Follows(channel, channel', hap, Characteristics)
      BY <1>1, <1>2, <3>1, ResendFollows DEF TypeOK, Follows
    <3>3. CASE channel' = channel
      BY <1>2, <3>2, <3>3, FollowsItself
    <3>4. CASE channel' # channel
      BY <3>1, <3>2, <3>4
    <3> QED BY <3>3, <3>4
  <2> QED BY <2>1, <2>2, <2>3
<1>5. channel' \in Channels /\ CopiesHold'
  BY <1>1, <1>3, <1>4, FollowingKeepsCopies
<1>6. TypeOK'
  BY <1>1, <1>3, <1>5 DEF TypeOK, outsideVars, trackVars
<1>7. Tracking'
  BY <1>1, <1>3
     DEF Tracking, OverlapIsRecorded, SampleIsFresh, InferenceIsFresh,
         RestWillBeReported, RestsAt, MovingWillBeWatched, InferredMovingIsWatched,
         WillShowRest, Showing, InVerdict, outsideVars, trackVars
<1> QED BY <1>5, <1>6, <1>7 DEF IInv

LEMMA DeliverKeeps ==
  ASSUME IInv, Deliver
  PROVE  IInv'
<1>1. TypeOK /\ CopiesHold /\ Tracking
  BY DEF IInv
<1>2. /\ channel.queue # <<>> /\ hap' = Received(channel, hap)
      /\ channel' = Drained(channel)
      /\ UNCHANGED <<outsideVars, trackVars, handler, watchdog, requestVars, overlapped>>
  BY DEF Deliver
<1>3. /\ channel' \in Channels /\ channel'.queued = channel.queued /\ hap' \in Displays
      /\ \A c \in Characteristics : Arriving(channel', hap', c) = Arriving(channel, hap, c)
  BY <1>1, <1>2, DeliveryKeepsArriving DEF TypeOK
<1>4. TypeOK'
  BY <1>1, <1>2, <1>3 DEF TypeOK, outsideVars, trackVars, requestVars
<1>5. CopiesHold'
  BY <1>1, <1>2, <1>3 DEF CopiesHold, CopyArrives, Characteristics
<1>6. Tracking'
  BY <1>1, <1>2
     DEF Tracking, OverlapIsRecorded, SampleIsFresh, InferenceIsFresh,
         RestWillBeReported, RestsAt, MovingWillBeWatched, InferredMovingIsWatched,
         WillShowRest, Showing, InVerdict, outsideVars, trackVars
<1> QED BY <1>4, <1>5, <1>6 DEF IInv

LEMMA StutterKeeps ==
  ASSUME IInv, UNCHANGED vars
  PROVE  IInv'
<1>1. /\ UNCHANGED <<outsideVars, trackVars, handler, watchdog, requestVars, channel, hap,
                     overlapped>>
      /\ TypeOK /\ CopiesHold /\ Tracking
  BY DEF vars, IInv
<1>2. TypeOK'
  BY <1>1 DEF TypeOK, outsideVars, trackVars, requestVars
<1>3. CopiesHold'
  BY <1>1, IdlingKeepsCopies
<1>4. Tracking'
  BY <1>1
     DEF Tracking, OverlapIsRecorded, SampleIsFresh, InferenceIsFresh,
         RestWillBeReported, RestsAt, MovingWillBeWatched, InferredMovingIsWatched,
         WillShowRest, Showing, InVerdict, outsideVars, trackVars
<1> QED BY <1>2, <1>3, <1>4 DEF IInv

LEMMA NextIInv == IInv /\ [Next]_vars => IInv'
<1> SUFFICES ASSUME IInv, [Next]_vars PROVE IInv'
  OBVIOUS
<1>1. CASE OpenerStep
  BY <1>1, OpenerKeeps
<1>2. CASE HandlerStep
  BY <1>2, TrackPositionKeeps, SendTowardKeeps, CommitTowardKeeps, ShowPositionKeeps,
     MotorEventKeeps, TrackMotorKeeps, ObstructionEventKeeps DEF HandlerStep
<1>3. CASE HomeKitStep
  BY <1>3, HomeKitKeeps
<1>4. CASE WatchdogStep
  BY <1>4, TransitGetsLateKeeps, TransitIsLateKeeps, VerdictClearsKeeps,
     VerdictSettlesKeeps, PassKeeps DEF WatchdogStep
<1>5. CASE Deliver
  BY <1>5, DeliverKeeps
<1>6. CASE UNCHANGED vars
  BY <1>6, StutterKeeps
<1> QED BY <1>1, <1>2, <1>3, <1>4, <1>5, <1>6 DEF Next

\* Everything below is a consequence of this invariant.
THEOREM Invariance == Spec => []IInv
  BY InitIInv, NextIInv, PTL DEF Spec

-----------------------------------------------------------------------------
(* The properties of DoorTracker.                                          *)

\* Every variable keeps its type, and the notification queue its length.
THEOREM TypeCorrect == Spec => []TypeOK
<1>1. IInv => TypeOK
  BY DEF IInv
<1> QED BY <1>1, Invariance, PTL

\* What a producer deduplicates against is what HomeKit will show, whatever the queue
\* dropped and whoever pushed in between.
THEOREM CopiesAreWhatArrives == Spec => []CopyIsWhatArrives
<1>1. IInv => CopyIsWhatArrives
  <2> SUFFICES ASSUME IInv, NEW c \in DOMAIN hap, ~CopyIsUpset(c)
               PROVE  CopyArrives(channel, hap, c)
    BY DEF CopyIsWhatArrives
  <2>1. DOMAIN hap = {"current", "target", "beam"} /\ CopiesHold
    BY DEF IInv, TypeOK, Displays
  <2>2. c \in {"current", "target", "beam"}
    BY <2>1
  <2>3. CASE c = "current"
    BY <2>1, <2>3 DEF CopyIsUpset, CopiesHold
  <2>4. CASE c # "current"
    BY <2>1, <2>2, <2>4 DEF CopiesHold
  <2> QED BY <2>3, <2>4
<1> QED BY <1>1, Invariance, PTL

\* Once nothing is under way HomeKit shows the door and the beam last heard of.
THEOREM QuietIsShown == Spec => []QuietShowsLastStates
<1>1. IInv => QuietShowsLastStates
  <2> SUFFICES ASSUME IInv, Quiet PROVE QuietShowsLastStates
    BY DEF QuietShowsLastStates
  <2>1. /\ channel \in Channels /\ hap \in Displays /\ CopiesHold
        /\ last_door \in DoorStates /\ last_obstruction \in BeamStates
        /\ handler.at = "idle" /\ channel.queue = <<>>
        /\ Resend(channel, last_door, last_obstruction) = channel
    BY DEF IInv, TypeOK, Quiet, OffersAgain
  <2>2. channel.queued \in Copies /\ channel.queued.current = channel.queued["current"]
    BY <2>1, ChannelType DEF Copies
  <2>3. /\ last_door # "MAX" => channel.queued["current"] = last_door
        /\ last_obstruction # "MAX" => channel.queued["beam"] = last_obstruction
    BY <2>1, ResendFollows
  <2>4. \A c : Arriving(channel, hap, c) = hap[c]
    BY <2>1 DEF Arriving
  <2>5. hap.current = hap["current"] /\ hap.beam = hap["beam"]
    BY <2>1 DEF Displays
  <2>6. ASSUME last_door # "MAX", ~MayBeSwallowed PROVE hap.current = last_door
    <3>1. CopyArrives(channel, hap, "current")
      BY <2>1, <2>2, <2>3, <2>6 DEF CopiesHold, MayBeSwallowed
    <3>2. last_door \notin {"MAX", "NONE"}
      BY <2>1, <2>6 DEF DoorStates
    <3> QED BY <2>3, <2>4, <2>5, <2>6, <3>1, <3>2 DEF CopyArrives, Shown
  <2>7. ASSUME last_obstruction # "MAX" PROVE hap.beam = last_obstruction
    <3>1. last_obstruction \notin {"MAX", "NONE"}
      BY <2>1, <2>7 DEF BeamStates
    <3> QED BY <2>1, <2>3, <2>4, <2>5, <2>7, <3>1 DEF CopiesHold, CopyArrives, Shown
  <2> QED BY <2>6, <2>7 DEF QuietShowsLastStates
<1> QED BY <1>1, Invariance, PTL

\* A door that came to rest at an end is reported there, but for an overlap.
THEOREM RestIsShown == Spec => []RestIsReported
<1>1. IInv => RestIsReported
  BY DEF IInv, Tracking, RestWillBeReported, RestIsReported, Quiet
<1> QED BY <1>1, Invariance, PTL

\* A door shown as moving is one the watchdog watches, but for an overlap.
THEOREM MovingIsNotForgotten == Spec => []MovingIsWatched
<1>1. IInv => MovingIsWatched
  BY DEF IInv, Tracking, MovingWillBeWatched, MovingIsWatched, InVerdict, WillShowRest,
         Showing
<1> QED BY <1>1, Invariance, PTL
=============================================================================
