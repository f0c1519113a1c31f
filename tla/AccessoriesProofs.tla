------------------------- MODULE AccessoriesProofs -------------------------
(***************************************************************************)
(* Proofs about Accessories: what HomeKit is shown of the light, the lock, *)
(* the motion sensor and the Learn tile, for every set of them, every      *)
(* length of the queue and every number of reports and writes.             *)
(***************************************************************************)
EXTENDS Accessories, TLAPS

-----------------------------------------------------------------------------
(* Names and types.                                                        *)

LEMMA Names ==
  ASSUME NEW x \in Kinds
  PROVE  /\ CharacteristicsOf(x) \subseteq Characteristics
         /\ FirstOf(x) \in CharacteristicsOf(x) /\ x \in CharacteristicsOf(x)
         /\ x # "lock" => CharacteristicsOf(x) = {x}
         /\ "learn" \in CharacteristicsOf(x) => x = "learn"
         /\ \A y \in Kinds : \A c \in CharacteristicsOf(x) :
              c \in CharacteristicsOf(y) => x = y
  BY AccessoryAssumption DEF CharacteristicsOf, Characteristics, FirstOf

\* What is written of one accessory is not a characteristic of another.
LEMMA WrittenNames ==
  ASSUME NEW x \in Kinds, NEW c \in CharacteristicsOf(x), NEW y \in Kinds,
         c = WrittenBy(y)
  PROVE  x = y
  BY Names DEF WrittenBy

LEMMA PushType ==
  ASSUME TypeOK, NEW t \in Tasks
  PROVE  /\ push[t] = NotPushing \/ push[t] \in Pushes
         /\ push[t].at \in {"idle", "offer", "second", "commit"}
         /\ push[t].at # "idle" => /\ push[t] \in Pushes
                                   /\ push[t].kind \in Kinds /\ push[t].value \in Readings
         /\ push[t] = NotPushing <=> push[t].at = "idle"
  BY DEF TypeOK, Pushes, NotPushing

LEMMA QueueType ==
  ASSUME TypeOK
  PROVE  /\ queue \in Seq(Messages) /\ DOMAIN queue = 1..Len(queue) /\ Len(queue) \in Nat
         /\ \A i \in DOMAIN queue :
              queue[i].dest \in Characteristics /\ queue[i].value \in Readings
<1>1. \A m \in Messages : m.dest \in Characteristics /\ m.value \in Readings
  BY DEF Messages
<1>2. queue \in Seq(Messages)
  BY DEF TypeOK
<1>3. /\ DOMAIN queue = 1..Len(queue) /\ Len(queue) \in Nat
      /\ \A i \in DOMAIN queue : queue[i] \in Messages
  BY <1>2
<1> QED BY <1>1, <1>2, <1>3

-----------------------------------------------------------------------------
(* What a message decides.                                                 *)

\* A message decides what its characteristic will show, and leaves the others alone.
LEMMA SendShows ==
  ASSUME TypeOK, NEW d \in Characteristics, NEW w \in Readings,
         queue' = Append(queue, [dest |-> d, value |-> w]),
         hap' = hap, written \subseteq written'
  PROVE  /\ queue' \in Seq(Messages) /\ Len(queue') = Len(queue) + 1
         /\ \A x : WillShow(x, d, w)'
         /\ \A x, c, v : c # d /\ WillShow(x, c, v) => WillShow(x, c, v)'
<1> DEFINE n == Len(queue)
           m == [dest |-> d, value |-> w]
<1>1. queue \in Seq(Messages) /\ n \in Nat /\ DOMAIN queue = 1..n
  BY QueueType
<1>2. m \in Messages /\ m.dest = d /\ m.value = w
  BY DEF Messages
<1>3. /\ queue' \in Seq(Messages) /\ Len(queue') = n + 1 /\ DOMAIN queue' = 1..(n + 1)
      /\ queue'[n + 1] = m /\ \A i \in 1..n : queue'[i] = queue[i]
  BY <1>1, <1>2
<1> HIDE DEF n, m
<1>4. ASSUME NEW x PROVE WillShow(x, d, w)'
  <2>1. Carried(d)'
    BY <1>1, <1>2, <1>3 DEF Carried
  <2>2. LastCarried(d, w)'
    <3> SUFFICES ASSUME NEW i \in DOMAIN queue', \A j \in DOMAIN queue' : j > i => queue'[j].dest # d
                 PROVE  queue'[i].value = w
      BY DEF LastCarried
    <3>1. i = n + 1
      BY <1>1, <1>2, <1>3
    <3> QED BY <3>1, <1>2, <1>3
  <2> QED BY <2>1, <2>2 DEF WillShow
<1>5. ASSUME NEW x, NEW c, NEW v, c # d, WillShow(x, c, v) PROVE WillShow(x, c, v)'
  <2>1. Carried(c)' \/ hap'[c] = v \/ (x \in written' /\ c = WrittenBy(x))
    BY <1>1, <1>3, <1>5 DEF WillShow, Carried
  <2>2. LastCarried(c, v)'
    <3> SUFFICES ASSUME NEW i \in DOMAIN queue', queue'[i].dest = c,
                        \A j \in DOMAIN queue' : j > i => queue'[j].dest # c
                 PROVE  queue'[i].value = v
      BY DEF LastCarried
    <3>1. i \in 1..n
      BY <1>1, <1>2, <1>3, <1>5
    <3>2. \A j \in DOMAIN queue : j > i => queue[j].dest # c
      BY <1>1, <1>3
    <3> QED BY <1>1, <1>3, <1>5, <3>1, <3>2 DEF WillShow, LastCarried
  <2> QED BY <2>1, <2>2 DEF WillShow
<1> QED BY <1>3, <1>4, <1>5 DEF n

\* A delivery shows the value of the message, and so does not change what will be shown.
LEMMA DeliveryShows ==
  ASSUME TypeOK, Deliver, NEW x \in Kinds, NEW c \in CharacteristicsOf(x), NEW v,
         x = "learn" => learn_supported, WillShow(x, c, v)
  PROVE  WillShow(x, c, v)'
<1> DEFINE n == Len(queue)
           e == Head(queue)
<1>1. queue \in Seq(Messages) /\ n \in Nat /\ n > 0 /\ DOMAIN queue = 1..n
  BY QueueType DEF Deliver
<1>2. e = queue[1] /\ e.dest \in Characteristics
  BY <1>1, QueueType
<1>3. /\ queue' = Tail(queue) /\ DOMAIN queue' = 1..(n - 1)
      /\ \A i \in 1..(n - 1) : queue'[i] = queue[i + 1]
  BY <1>1 DEF Deliver
<1>4. c = e.dest => hap'[c] = e.value
  BY <1>2, Names DEF Deliver, TypeOK
<1>5. c # e.dest => hap'[c] = hap[c]
  BY <1>2, Names DEF Deliver, TypeOK
<1>6. c # e.dest /\ x \in written /\ c = WrittenBy(x) => x \in written'
  BY DEF Deliver
<1> HIDE DEF n, e
<1>7. LastCarried(c, v)'
  <2> SUFFICES ASSUME NEW i \in DOMAIN queue', queue'[i].dest = c,
                      \A j \in DOMAIN queue' : j > i => queue'[j].dest # c
               PROVE  queue'[i].value = v
    BY DEF LastCarried
  <2>1. i \in 1..(n - 1) /\ i + 1 \in 1..n /\ queue[i + 1] = queue'[i]
    BY <1>1, <1>3
  <2>2. ASSUME NEW j \in 1..n, j > i + 1 PROVE queue[j].dest # c
    <3>1. j - 1 \in 1..(n - 1) /\ (j - 1) + 1 = j /\ j - 1 > i
      BY <1>1, <2>1, <2>2
    <3> QED BY <1>3, <3>1
  <2> QED BY <1>1, <2>1, <2>2 DEF WillShow, LastCarried
<1>8. ASSUME ~Carried(c)' PROVE hap'[c] = v \/ (x \in written' /\ c = WrittenBy(x))
  <2>1. \A j \in 1..n : j # 1 => queue[j].dest # c
    <3> SUFFICES ASSUME NEW j \in 1..n, j # 1 PROVE queue[j].dest # c
      OBVIOUS
    <3>1. j - 1 \in 1..(n - 1) /\ (j - 1) + 1 = j
      BY <1>1
    <3> QED BY <1>3, <1>8, <3>1 DEF Carried
  <2>2. CASE e.dest = c
    <3>1. queue[1].value = v
      BY <1>1, <1>2, <2>1, <2>2 DEF WillShow, LastCarried
    <3> QED BY <1>2, <1>4, <2>2, <3>1
  <2>3. CASE e.dest # c
    <3>1. ~Carried(c)
      BY <1>1, <1>2, <2>1, <2>3 DEF Carried
    <3> QED BY <1>5, <1>6, <2>3, <3>1 DEF WillShow
  <2> QED BY <2>2, <2>3
<1> QED BY <1>7, <1>8 DEF WillShow

LEMMA SameShows ==
  ASSUME queue' = queue, hap' = hap, written \subseteq written', NEW x, NEW c, NEW v,
         WillShow(x, c, v)
  PROVE  WillShow(x, c, v)'
  BY DEF WillShow, Carried, LastCarried

(***************************************************************************)
(* A step that leaves the unfinished pushes and the copies as they are,    *)
(* and what will be shown of each accessory.                               *)
(***************************************************************************)
LEMMA KeepingPushes ==
  ASSUME TypeOK, PushesHold,
         \A x \in Kinds : (x = "learn" => learn_supported) =>
           \A c \in CharacteristicsOf(x) : \A v : WillShow(x, c, v) => WillShow(x, c, v)',
         collided \subseteq collided', learn_supported' => learn_supported,
         copy' = copy, half_from' = half_from,
         \A t \in Tasks :
           \/ push'[t] = push[t]
           \/ /\ push[t].at \notin {"second", "commit"}
              /\ push'[t].at \notin {"second", "commit"}
  PROVE  PushesHold'
<1> SUFFICES ASSUME NEW x \in Kinds \ collided', x = "learn" => learn_supported'
             PROVE  CommittedIsShown(x)' /\ SentIsShown(x)'
  BY DEF PushesHold
<1>1. CommittedIsShown(x) /\ SentIsShown(x)
  BY DEF PushesHold
<1>2. \A c \in CharacteristicsOf(x) : \A v : WillShow(x, c, v) => WillShow(x, c, v)'
  OBVIOUS
<1>3. \A t \in Tasks : Unfinished(t, x)' <=> Unfinished(t, x)
  BY DEF Unfinished
<1>4. CommittedIsShown(x)'
  BY <1>1, <1>2, <1>3 DEF CommittedIsShown, CharacteristicsOf, FirstOf
<1>5. SentIsShown(x)'
  <2> SUFFICES ASSUME NEW t \in Tasks, Alone(t, x)'
               PROVE  /\ WillShow(x, FirstOf(x), push[t].value)'
                      /\ push'[t].at = "commit" => WillShow(x, x, push[t].value)'
    BY DEF SentIsShown
  <2>1. Alone(t, x) /\ Unfinished(t, x)
    BY <1>3 DEF Alone
  <2>2. push'[t] = push[t]
    BY <2>1 DEF Unfinished
  <2> QED BY <1>1, <1>2, <2>1, <2>2, Names DEF SentIsShown
<1> QED BY <1>4, <1>5

-----------------------------------------------------------------------------
(* The steps.                                                              *)

LEMMA InitIInv == Init => IInv
<1> SUFFICES ASSUME Init PROVE IInv
  OBVIOUS
<1>1. TypeOK
  <2>1. queue \in Seq(Messages) /\ Len(queue) = 0
    BY DEF Init
  <2>2. hap \in [Characteristics -> Readings]
    BY DEF Init, Readings
  <2>3. inputs \in 0..MaxInputs /\ 0 <= Capacity
    BY AccessoryAssumption DEF Init
  <2> QED BY <2>1, <2>2, <2>3 DEF Init, TypeOK
<1>2. \A t \in Tasks : push[t] = NotPushing
  BY DEF Init
<1>3. PushesHold
  <2>1. \A t \in Tasks : \A x : ~Unfinished(t, x)
    BY <1>2 DEF Unfinished, NotPushing
  <2> QED BY <2>1 DEF Init, PushesHold, CommittedIsShown, SentIsShown, Alone
<1> QED BY <1>1, <1>2, <1>3
        DEF Init, IInv, HalfIsOfTheCopy, OnlyTheLockHasTwo, OwedIsKnown, NotPushing

LEMMA OpenerKeeps ==
  ASSUME IInv, OpenerStep
  PROVE  IInv'
<1>1. TypeOK /\ PushesHold /\ HalfIsOfTheCopy /\ OnlyTheLockHasTwo /\ OwedIsKnown
  BY DEF IInv
<1>2. PICK x \in Kinds : Changes(x) \/ Answers(x)
  BY DEF OpenerStep
<1>3. UNCHANGED <<homeVars, pushVars, historyVars>>
  BY <1>2 DEF Changes, Answers
<1>4. /\ status' \in [Kinds -> Readings \cup {Unknown}] /\ owed' \subseteq Kinds
      /\ OwedIsKnown'
  <2>1. ASSUME NEW v \in Readings, Reports(x, v)
        PROVE  /\ status' \in [Kinds -> Readings \cup {Unknown}] /\ owed' \subseteq Kinds
               /\ OwedIsKnown'
    BY <1>1, <2>1 DEF Reports, TypeOK, OwedIsKnown, Readings, Unknown
  <2>2. CASE Changes(x)
    BY <2>1, <2>2 DEF Changes
  <2>3. CASE Answers(x)
    <3>1. commanded[x] \in Readings
      BY <1>1, <2>3 DEF Answers, TypeOK
    <3> QED BY <1>1, <2>1, <2>3, <3>1 DEF Answers, TypeOK, OwedIsKnown
  <2> QED BY <1>2, <2>2, <2>3
<1>5. /\ commanded' \in [Kinds -> Readings \cup {Unknown}] /\ inputs' \in 0..MaxInputs
  BY <1>1, <1>2, AccessoryAssumption DEF Changes, Answers, TypeOK
<1>6. TypeOK'
  BY <1>1, <1>3, <1>4, <1>5 DEF TypeOK, homeVars, pushVars, historyVars
<1>7. PushesHold'
  BY <1>1, <1>3, SameShows, KeepingPushes DEF homeVars, pushVars, historyVars
<1>8. HalfIsOfTheCopy' /\ OnlyTheLockHasTwo'
  BY <1>1, <1>3 DEF HalfIsOfTheCopy, OnlyTheLockHasTwo, homeVars, pushVars, historyVars
<1> QED BY <1>4, <1>6, <1>7, <1>8 DEF IInv

\* A task begins with an accessory: nothing is sent yet.
LEMMA StartKeeps ==
  ASSUME IInv, NEW t \in Tasks, NEW x \in Kinds, NEW v \in Readings,
         push[t].at = "idle", Starts(t, x, v),
         owed' \subseteq owed, last' \in [Kinds -> Readings \cup {Unknown}],
         UNCHANGED <<status, commanded, inputs, homeVars, copy, queue, historyVars>>
  PROVE  IInv'
<1>1. TypeOK /\ PushesHold /\ HalfIsOfTheCopy /\ OnlyTheLockHasTwo /\ OwedIsKnown
  BY DEF IInv
<1>2. push' \in [Tasks -> Pushes \cup {NotPushing}] /\ push'[t].at = "offer"
      /\ \A u \in Tasks \ {t} : push'[u] = push[u]
  BY <1>1 DEF Starts, TypeOK, Pushes
<1>3. TypeOK'
  BY <1>1, <1>2 DEF TypeOK, homeVars, historyVars
<1>4. PushesHold'
  <2>1. \A u \in Tasks :
          \/ push'[u] = push[u]
          \/ push[u].at \notin {"second", "commit"} /\ push'[u].at \notin {"second", "commit"}
    BY <1>2
  <2> QED BY <1>1, <2>1, SameShows, KeepingPushes DEF homeVars, historyVars
<1>5. HalfIsOfTheCopy' /\ OnlyTheLockHasTwo' /\ OwedIsKnown'
  BY <1>1, <1>2
     DEF HalfIsOfTheCopy, OnlyTheLockHasTwo, OwedIsKnown, homeVars, historyVars
<1> QED BY <1>3, <1>4, <1>5 DEF IInv

LEMMA EventKeeps ==
  ASSUME IInv, NEW x \in Kinds, Event(x)
  PROVE  IInv'
<1>1. status[x] \in Readings /\ last' \in [Kinds -> Readings \cup {Unknown}]
  BY DEF Event, IInv, OwedIsKnown, TypeOK
<1>2. /\ push["handler"].at = "idle" /\ owed' \subseteq owed
      /\ Starts("handler", x, status[x]) /\ "handler" \in Tasks
      /\ UNCHANGED <<status, commanded, inputs, homeVars, copy, queue, historyVars>>
  BY DEF Event, Tasks
<1> QED BY <1>1, <1>2, StartKeeps

LEMMA DoorEventKeeps ==
  ASSUME IInv, DoorEvent
  PROVE  IInv'
<1>1. /\ "light" \in Kinds /\ status["light"] \in Readings
      /\ last' \in [Kinds -> Readings \cup {Unknown}]
  BY DEF DoorEvent, IInv, TypeOK
<1>2. /\ push["handler"].at = "idle" /\ owed' \subseteq owed
      /\ Starts("handler", "light", status["light"]) /\ "handler" \in Tasks
      /\ UNCHANGED <<status, commanded, inputs, homeVars, copy, queue, historyVars>>
  BY DEF DoorEvent, Tasks, outsideVars
<1> QED BY <1>1, <1>2, StartKeeps

LEMMA ResendKeeps ==
  ASSUME IInv, NEW x \in Kinds, Resend(x)
  PROVE  IInv'
<1>1. last[x] \in Readings /\ last' \in [Kinds -> Readings \cup {Unknown}]
  BY DEF Resend, Reoffered, IInv, TypeOK
<1>2. /\ push["watchdog"].at = "idle" /\ owed' \subseteq owed
      /\ Starts("watchdog", x, last[x]) /\ "watchdog" \in Tasks
      /\ UNCHANGED <<status, commanded, inputs, homeVars, copy, queue, historyVars>>
  BY DEF Resend, Tasks, outsideVars
<1> QED BY <1>1, <1>2, StartKeeps

(***************************************************************************)
(* A step of task t from one stage of its push of x to another, with the   *)
(* copies as they are: what t has sent is all that has to be shown anew.   *)
(***************************************************************************)
LEMMA SendingKeepsPushes ==
  ASSUME TypeOK, PushesHold, NEW t \in Tasks, NEW x \in Kinds, push[t].kind = x,
         \A u \in Tasks \ {t} : push'[u] = push[u], Unfinished(t, x)',
         NEW d \in CharacteristicsOf(x), NEW v \in Readings, push'[t].value = v,
         queue' = Append(queue, [dest |-> d, value |-> v]),
         hap' = hap, written' = written, collided' = collided,
         learn_supported' = learn_supported, copy' = copy, half_from' = half_from,
         x \notin collided /\ Alone(t, x)' => WillShow(x, FirstOf(x), v)',
         Alone(t, x)' /\ push'[t].at = "commit" => WillShow(x, x, v)'
  PROVE  PushesHold'
<1> SUFFICES ASSUME NEW y \in Kinds \ collided, y = "learn" => learn_supported
             PROVE  CommittedIsShown(y)' /\ SentIsShown(y)'
  BY DEF PushesHold
<1>1. CommittedIsShown(y) /\ SentIsShown(y)
  BY DEF PushesHold
<1>2. CASE y = x
  <2>1. CommittedIsShown(y)'
    BY <1>2 DEF CommittedIsShown
  <2>2. SentIsShown(y)'
    <3> SUFFICES ASSUME NEW u \in Tasks, Alone(u, y)'
                 PROVE  /\ WillShow(y, FirstOf(y), push[u].value)'
                        /\ push'[u].at = "commit" => WillShow(y, y, push[u].value)'
      BY DEF SentIsShown
    <3>1. u = t
      BY <1>2 DEF Alone
    <3> QED BY <1>2, <3>1
  <2> QED BY <2>1, <2>2
<1>3. CASE y # x
  <2>1. \A u \in Tasks : Unfinished(u, y)' <=> Unfinished(u, y)
    BY <1>3 DEF Unfinished
  <2>2. \A c \in CharacteristicsOf(y) : \A w : WillShow(y, c, w) => WillShow(y, c, w)'
    BY <1>3, Names, SendShows
  <2>3. CommittedIsShown(y)'
    BY <1>1, <2>1, <2>2 DEF CommittedIsShown, CharacteristicsOf, FirstOf
  <2>4. SentIsShown(y)'
    <3> SUFFICES ASSUME NEW u \in Tasks, Alone(u, y)'
                 PROVE  /\ WillShow(y, FirstOf(y), push[u].value)'
                        /\ push'[u].at = "commit" => WillShow(y, y, push[u].value)'
      BY DEF SentIsShown
    <3>1. Alone(u, y) /\ Unfinished(u, y)
      BY <2>1 DEF Alone
    <3>2. u # t
      BY <1>3, <3>1 DEF Unfinished
    <3> QED BY <1>1, <2>2, <3>1, <3>2, Names DEF SentIsShown
  <2> QED BY <2>3, <2>4
<1> QED BY <1>2, <1>3

LEMMA OfferKeeps ==
  ASSUME IInv, NEW t \in Tasks, Offer(t)
  PROVE  IInv'
<1>1. TypeOK /\ PushesHold /\ HalfIsOfTheCopy /\ OnlyTheLockHasTwo /\ OwedIsKnown
  BY DEF IInv
<1>2. PICK x \in Kinds, v \in Readings :
        /\ push[t].at = "offer" /\ push[t] \in Pushes
        /\ push[t].kind = x /\ push[t].value = v
  BY <1>1, PushType DEF Offer
<1> DEFINE at == IF x = "lock" THEN "second" ELSE "commit"
<1>3. UNCHANGED <<outsideVars, homeVars, last, copy, historyVars>>
  BY DEF Offer
<1>4. CASE ~(Wanted(t) /\ Room)
  <2>1. push' = [push EXCEPT ![t] = NotPushing] /\ queue' = queue
    BY <1>4 DEF Offer, Stops
  <2>2. /\ push' \in [Tasks -> Pushes \cup {NotPushing}] /\ push'[t] = NotPushing
        /\ \A u \in Tasks \ {t} : push'[u] = push[u]
    BY <1>1, <2>1 DEF TypeOK
  <2>3. TypeOK'
    BY <1>1, <1>3, <2>1, <2>2 DEF TypeOK, outsideVars, homeVars, historyVars
  <2>4. PushesHold'
    <3>1. \A u \in Tasks :
            \/ push'[u] = push[u]
            \/ push[u].at \notin {"second", "commit"} /\ push'[u].at \notin {"second", "commit"}
      BY <1>2, <2>2 DEF NotPushing
    <3> QED BY <1>1, <1>3, <2>1, <3>1, SameShows, KeepingPushes DEF homeVars, historyVars
  <2>5. HalfIsOfTheCopy' /\ OnlyTheLockHasTwo' /\ OwedIsKnown'
    BY <1>1, <1>3, <2>2
       DEF HalfIsOfTheCopy, OnlyTheLockHasTwo, OwedIsKnown, NotPushing, outsideVars,
           historyVars
  <2> QED BY <2>3, <2>4, <2>5 DEF IInv
<1>5. CASE Wanted(t) /\ Room
  <2>1. /\ queue' = Append(queue, [dest |-> FirstOf(x), value |-> v])
        /\ push' = [push EXCEPT ![t].at = at]
        /\ Len(queue) < Capacity
    BY <1>2, <1>5 DEF Offer, Sends, Goes, Room
  <2>2. /\ push' \in [Tasks -> Pushes \cup {NotPushing}]
        /\ push'[t].at = at /\ push'[t].kind = x /\ push'[t].value = v
        /\ \A u \in Tasks \ {t} : push'[u] = push[u]
    BY <1>1, <1>2, <2>1 DEF TypeOK, Pushes
  <2>3. FirstOf(x) \in Characteristics /\ FirstOf(x) \in CharacteristicsOf(x)
    BY Names
  <2>4. queue' \in Seq(Messages) /\ Len(queue') = Len(queue) + 1 /\ WillShow(x, FirstOf(x), v)'
    BY <1>1, <1>2, <1>3, <2>1, <2>3, SendShows DEF homeVars, historyVars
  <2>5. TypeOK'
    <3>1. Len(queue') <= Capacity
      BY <1>1, <2>1, <2>4, QueueType, AccessoryAssumption
    <3> QED BY <1>1, <1>3, <2>2, <2>4, <3>1 DEF TypeOK, outsideVars, homeVars, historyVars
  <2>6. PushesHold'
    <3>1. Unfinished(t, x)'
      BY <2>2 DEF Unfinished
    <3>2. at = "commit" => FirstOf(x) = x
      BY DEF FirstOf
    <3> QED BY <1>1, <1>2, <1>3, <2>1, <2>2, <2>3, <2>4, <3>1, <3>2, SendingKeepsPushes
            DEF homeVars, historyVars
  <2>7. OnlyTheLockHasTwo'
    BY <1>1, <2>2 DEF OnlyTheLockHasTwo
  <2>8. HalfIsOfTheCopy' /\ OwedIsKnown'
    BY <1>1, <1>3 DEF HalfIsOfTheCopy, OwedIsKnown, outsideVars, historyVars
  <2> QED BY <2>5, <2>6, <2>7, <2>8 DEF IInv
<1> QED BY <1>4, <1>5

\* The end of a push of x concerns no other accessory.
LEMMA EndKeepsOthers ==
  ASSUME TypeOK, PushesHold, NEW t \in Tasks, NEW x \in Kinds, push[t].kind = x,
         push'[t] = NotPushing, \A u \in Tasks \ {t} : push'[u] = push[u],
         queue' = queue, hap' = hap, written' = written, collided \subseteq collided',
         learn_supported' = learn_supported,
         NEW y \in Kinds \ collided', y # x, y = "learn" => learn_supported,
         copy'[y] = copy[y], y = "lock" => half_from' = half_from
  PROVE  CommittedIsShown(y)' /\ SentIsShown(y)'
<1>1. CommittedIsShown(y) /\ SentIsShown(y)
  BY DEF PushesHold
<1>2. \A u \in Tasks : Unfinished(u, y)' <=> Unfinished(u, y)
  BY DEF Unfinished, NotPushing
<1>3. \A c, w : WillShow(y, c, w) => WillShow(y, c, w)'
  BY SameShows
<1>4. CommittedIsShown(y)'
  BY <1>1, <1>2, <1>3 DEF CommittedIsShown, CharacteristicsOf, FirstOf
<1>5. SentIsShown(y)'
  <2> SUFFICES ASSUME NEW u \in Tasks, Alone(u, y)'
               PROVE  /\ WillShow(y, FirstOf(y), push[u].value)'
                      /\ push'[u].at = "commit" => WillShow(y, y, push[u].value)'
    BY DEF SentIsShown
  <2>1. Alone(u, y) /\ Unfinished(u, y)
    BY <1>2 DEF Alone
  <2>2. u # t
    BY <2>1 DEF Unfinished
  <2> QED BY <1>1, <1>3, <2>1, <2>2 DEF SentIsShown
<1> QED BY <1>4, <1>5

\* Where a push of x ends and no collision is recorded, none of x is left unfinished.
LEMMA EndLeavesNone ==
  ASSUME TypeOK, NEW t \in Tasks, NEW x \in Kinds, Unfinished(t, x), ~Both(x),
         push'[t] = NotPushing, \A u \in Tasks \ {t} : push'[u] = push[u]
  PROVE  /\ \A u \in Tasks : ~Unfinished(u, x)'
         /\ Alone(t, x)
<1>1. \A u \in Tasks : u # t => ~Unfinished(u, x)
  BY DEF Both, Unfinished, Tasks
<1> QED BY <1>1 DEF Unfinished, NotPushing, Alone

LEMMA SecondKeeps ==
  ASSUME IInv, NEW t \in Tasks, Second(t)
  PROVE  IInv'
<1>1. TypeOK /\ PushesHold /\ HalfIsOfTheCopy /\ OnlyTheLockHasTwo /\ OwedIsKnown
  BY DEF IInv
<1>2. PICK v \in Readings :
        /\ push[t].at = "second" /\ push[t] \in Pushes
        /\ push[t].kind = "lock" /\ "lock" \in Kinds /\ push[t].value = v
  BY <1>1, PushType DEF Second, OnlyTheLockHasTwo
<1>3. UNCHANGED <<outsideVars, homeVars, last, written>>
  BY DEF Second
<1>4. CASE Room
  <2>1. /\ queue' = Append(queue, [dest |-> "lock", value |-> v])
        /\ push' = [push EXCEPT ![t].at = "commit"]
        /\ Len(queue) < Capacity /\ UNCHANGED <<copy, half_from, collided>>
    BY <1>2, <1>4 DEF Second, Sends, Goes, Room
  <2>2. /\ push' \in [Tasks -> Pushes \cup {NotPushing}]
        /\ push'[t].at = "commit" /\ push'[t].kind = "lock" /\ push'[t].value = v
        /\ \A u \in Tasks \ {t} : push'[u] = push[u]
    BY <1>1, <1>2, <2>1 DEF TypeOK, Pushes
  <2>3. /\ "lock" \in Characteristics /\ "lock" \in CharacteristicsOf("lock")
        /\ FirstOf("lock") \in CharacteristicsOf("lock") /\ FirstOf("lock") # "lock"
    BY <1>2, Names DEF FirstOf
  <2>4. /\ queue' \in Seq(Messages) /\ Len(queue') = Len(queue) + 1
        /\ WillShow("lock", "lock", v)'
        /\ WillShow("lock", FirstOf("lock"), v) => WillShow("lock", FirstOf("lock"), v)'
    BY <1>1, <1>3, <2>1, <2>3, SendShows DEF homeVars
  <2>5. TypeOK'
    <3>1. Len(queue') <= Capacity
      BY <1>1, <2>1, <2>4, QueueType, AccessoryAssumption
    <3> QED BY <1>1, <1>3, <2>1, <2>2, <2>4, <3>1 DEF TypeOK, outsideVars, homeVars
  <2>6. PushesHold'
    <3>1. Unfinished(t, "lock")'
      BY <2>2 DEF Unfinished
    <3>2. \A u \in Tasks : Unfinished(u, "lock")' <=> Unfinished(u, "lock")
      BY <1>2, <2>2 DEF Unfinished
    <3>3. ASSUME "lock" \notin collided, Alone(t, "lock")'
          PROVE  WillShow("lock", FirstOf("lock"), v)'
      <4>1. Alone(t, "lock")
        BY <3>2, <3>3 DEF Alone
      <4>2. WillShow("lock", FirstOf("lock"), v)
        BY <1>1, <1>2, <3>3, <4>1 DEF PushesHold, SentIsShown
      <4> QED BY <2>4, <4>2
    <3> QED BY <1>1, <1>2, <1>3, <2>1, <2>2, <2>3, <2>4, <3>1, <3>3, SendingKeepsPushes
            DEF homeVars
  <2>7. OnlyTheLockHasTwo'
    BY <1>1, <2>2 DEF OnlyTheLockHasTwo
  <2>8. HalfIsOfTheCopy' /\ OwedIsKnown'
    BY <1>1, <1>3, <2>1 DEF HalfIsOfTheCopy, OwedIsKnown, outsideVars
  <2> QED BY <2>5, <2>6, <2>7, <2>8 DEF IInv
<1>5. CASE ~Room
  <2>1. /\ push' = [push EXCEPT ![t] = NotPushing] /\ UNCHANGED <<copy, queue>>
        /\ half_from' = copy["lock"]
        /\ collided' = IF Both("lock") THEN collided \cup {"lock"} ELSE collided
    BY <1>5 DEF Second, AfterHalf, Stops
  <2>2. /\ push' \in [Tasks -> Pushes \cup {NotPushing}] /\ push'[t] = NotPushing
        /\ \A u \in Tasks \ {t} : push'[u] = push[u]
    BY <1>1, <2>1 DEF TypeOK
  <2>3. half_from' \in Readings \cup {Unknown} /\ collided' \subseteq Kinds
        /\ collided \subseteq collided'
    BY <1>1, <1>2, <2>1 DEF TypeOK
  <2>4. TypeOK'
    BY <1>1, <1>3, <2>1, <2>2, <2>3 DEF TypeOK, outsideVars, homeVars
  <2>5. PushesHold'
    <3> SUFFICES ASSUME NEW y \in Kinds \ collided', y = "learn" => learn_supported
                 PROVE  CommittedIsShown(y)' /\ SentIsShown(y)'
      BY <1>3 DEF PushesHold, homeVars
    <3>1. CASE y = "lock"
      <4>1. ~Both("lock")
        BY <2>1, <3>1
      <4>2. \A u \in Tasks : ~Unfinished(u, "lock")'
        BY <1>1, <1>2, <2>2, <4>1, EndLeavesNone DEF Unfinished
      <4> QED BY <2>1, <3>1, <4>2 DEF CommittedIsShown, SentIsShown, Alone
    <3>2. CASE y # "lock"
      BY <1>1, <1>2, <1>3, <2>1, <2>2, <2>3, <3>2, EndKeepsOthers DEF homeVars
    <3> QED BY <3>1, <3>2
  <2>6. HalfIsOfTheCopy' /\ OnlyTheLockHasTwo' /\ OwedIsKnown'
    BY <1>1, <1>2, <1>3, <2>1, <2>2
       DEF HalfIsOfTheCopy, OnlyTheLockHasTwo, OwedIsKnown, NotPushing, outsideVars
  <2> QED BY <2>4, <2>5, <2>6 DEF IInv
<1> QED BY <1>4, <1>5

LEMMA CommitKeeps ==
  ASSUME IInv, NEW t \in Tasks, CommitCopy(t)
  PROVE  IInv'
<1>1. TypeOK /\ PushesHold /\ HalfIsOfTheCopy /\ OnlyTheLockHasTwo /\ OwedIsKnown
  BY DEF IInv
<1>2. PICK x \in Kinds, v \in Readings :
        /\ push[t].at = "commit" /\ push[t].kind = x /\ push[t].value = v
  BY <1>1, PushType DEF CommitCopy
<1>3. /\ UNCHANGED <<outsideVars, homeVars, last, queue, written>>
      /\ push' = [push EXCEPT ![t] = NotPushing]
      /\ copy' = [copy EXCEPT ![x] = v]
      /\ collided' = IF Both(x) THEN collided \cup {x} ELSE collided
      /\ half_from' = IF x = "lock" THEN Unknown ELSE half_from
  BY <1>2 DEF CommitCopy, Stops
<1>4. /\ push' \in [Tasks -> Pushes \cup {NotPushing}] /\ push'[t] = NotPushing
      /\ \A u \in Tasks \ {t} : push'[u] = push[u]
  BY <1>1, <1>3 DEF TypeOK
<1>5. /\ copy' \in [Kinds -> Readings \cup {Unknown}] /\ copy'[x] = v
      /\ \A y \in Kinds \ {x} : copy'[y] = copy[y]
  BY <1>1, <1>3 DEF TypeOK
<1>6. /\ half_from' \in Readings \cup {Unknown}
      /\ collided' \subseteq Kinds /\ collided \subseteq collided'
  BY <1>1, <1>3 DEF TypeOK
<1>7. TypeOK'
  BY <1>1, <1>3, <1>4, <1>5, <1>6 DEF TypeOK, outsideVars, homeVars
<1>8. PushesHold'
  <2> SUFFICES ASSUME NEW y \in Kinds \ collided', y = "learn" => learn_supported
               PROVE  CommittedIsShown(y)' /\ SentIsShown(y)'
    BY <1>3 DEF PushesHold, homeVars
  <2>1. CASE y = x
    <3>1. ~Both(x) /\ x \notin collided
      BY <1>3, <1>6, <2>1
    <3>2. (\A u \in Tasks : ~Unfinished(u, x)') /\ Alone(t, x)
      BY <1>1, <1>2, <1>4, <3>1, EndLeavesNone DEF Unfinished
    <3>3. WillShow(x, FirstOf(x), v) /\ WillShow(x, x, v)
      BY <1>1, <1>2, <2>1, <3>1, <3>2 DEF PushesHold, SentIsShown
    <3>4. WillShow(x, FirstOf(x), v)' /\ WillShow(x, x, v)'
      BY <1>3, <3>3, SameShows DEF homeVars
    <3>5. CommittedIsShown(y)'
      BY <1>5, <2>1, <3>4 DEF CommittedIsShown, CharacteristicsOf
    <3> QED BY <2>1, <3>2, <3>5 DEF SentIsShown, Alone
  <2>2. CASE y # x
    BY <1>1, <1>2, <1>3, <1>4, <1>5, <1>6, <2>2, EndKeepsOthers DEF homeVars
  <2> QED BY <2>1, <2>2
<1>9. HalfIsOfTheCopy' /\ OnlyTheLockHasTwo' /\ OwedIsKnown'
  BY <1>1, <1>3, <1>4, <1>5
     DEF HalfIsOfTheCopy, OnlyTheLockHasTwo, OwedIsKnown, NotPushing, outsideVars
<1> QED BY <1>7, <1>8, <1>9 DEF IInv

LEMMA WriteReturnsKeeps ==
  ASSUME IInv, WriteReturns
  PROVE  IInv'
<1>1. TypeOK /\ PushesHold /\ HalfIsOfTheCopy /\ OnlyTheLockHasTwo /\ OwedIsKnown
  BY DEF IInv
<1>2. write \in Writes
  BY <1>1 DEF WriteReturns, TypeOK
<1>3. PICK k \in Kinds, w \in Readings : write.kind = k /\ write.value = w
  BY <1>2 DEF Writes, Writable
<1>4. /\ write' = NoWrite /\ hap' = [hap EXCEPT ![WrittenBy(k)] = w]
      /\ written' = written \cup {k}
      /\ UNCHANGED <<outsideVars, pushVars, learn_supported, consuming, collided, half_from>>
  BY <1>3 DEF WriteReturns
<1>5. WrittenBy(k) \in Characteristics
  BY Names DEF WrittenBy
<1>6. hap' \in [Characteristics -> Readings]
      /\ \A c \in Characteristics : c # WrittenBy(k) => hap'[c] = hap[c]
  BY <1>1, <1>4, <1>5 DEF TypeOK
<1>7. TypeOK'
  BY <1>1, <1>4, <1>6 DEF TypeOK, outsideVars, pushVars
<1>8. PushesHold'
  <2>1. ASSUME NEW x \in Kinds, NEW c \in CharacteristicsOf(x), NEW v, WillShow(x, c, v)
        PROVE  WillShow(x, c, v)'
    <3>1. LastCarried(c, v)' /\ (Carried(c)' <=> Carried(c))
      BY <1>4, <2>1 DEF WillShow, LastCarried, Carried, pushVars
    <3>2. CASE c = WrittenBy(k)
      <4>1. x = k /\ x \in written'
        BY <1>4, <3>2, WrittenNames
      <4> QED BY <3>1, <3>2, <4>1 DEF WillShow
    <3>3. CASE c # WrittenBy(k)
      <4>1. hap'[c] = hap[c] /\ (x \in written => x \in written')
        BY <1>4, <1>6, <3>3, Names
      <4> QED BY <2>1, <3>1, <4>1 DEF WillShow
    <3> QED BY <3>2, <3>3
  <2> QED BY <1>1, <1>4, <2>1, KeepingPushes DEF pushVars
<1>9. HalfIsOfTheCopy' /\ OnlyTheLockHasTwo' /\ OwedIsKnown'
  BY <1>1, <1>4
     DEF HalfIsOfTheCopy, OnlyTheLockHasTwo, OwedIsKnown, outsideVars, pushVars
<1> QED BY <1>7, <1>8, <1>9 DEF IInv

LEMMA HomeKitKeeps ==
  ASSUME IInv, HomeKitStep
  PROVE  IInv'
<1>1. CASE WriteReturns
  BY <1>1, WriteReturnsKeeps
<1>2. CASE HomeKitStarts \/ HideLearn \/ \E x \in Writable : Write(x)
  <2>1. TypeOK /\ PushesHold /\ HalfIsOfTheCopy /\ OnlyTheLockHasTwo /\ OwedIsKnown
    BY DEF IInv
  <2>2. /\ UNCHANGED <<status, owed, hap, pushVars, historyVars>>
        /\ learn_supported' \in BOOLEAN /\ (learn_supported' => learn_supported)
        /\ consuming' \in BOOLEAN
    <3>1. CASE HomeKitStarts
      BY <2>1, <3>1 DEF HomeKitStarts, TypeOK, outsideVars
    <3>2. CASE HideLearn
      BY <2>1, <3>2 DEF HideLearn, TypeOK, outsideVars
    <3>3. CASE \E x \in Writable : Write(x)
      BY <2>1, <3>3 DEF Write, TypeOK
    <3> QED BY <1>2, <3>1, <3>2, <3>3
  <2>3. /\ write' \in Writes \cup {NoWrite}
        /\ commanded' \in [Kinds -> Readings \cup {Unknown}] /\ inputs' \in 0..MaxInputs
    BY <1>2, <2>1, AccessoryAssumption
       DEF HomeKitStarts, HideLearn, Write, TypeOK, outsideVars, Writes, Writable
  <2>4. TypeOK'
    BY <2>1, <2>2, <2>3 DEF TypeOK, pushVars, historyVars
  <2>5. PushesHold'
    BY <2>1, <2>2, SameShows, KeepingPushes DEF pushVars, historyVars
  <2>6. HalfIsOfTheCopy' /\ OnlyTheLockHasTwo' /\ OwedIsKnown'
    BY <2>1, <2>2
       DEF HalfIsOfTheCopy, OnlyTheLockHasTwo, OwedIsKnown, pushVars, historyVars
  <2> QED BY <2>4, <2>5, <2>6 DEF IInv
<1> QED BY <1>1, <1>2 DEF HomeKitStep

LEMMA DeliverKeeps ==
  ASSUME IInv, Deliver
  PROVE  IInv'
<1>1. TypeOK /\ PushesHold /\ HalfIsOfTheCopy /\ OnlyTheLockHasTwo /\ OwedIsKnown
  BY DEF IInv
<1>2. /\ queue # <<>> /\ queue' = Tail(queue)
      /\ UNCHANGED <<outsideVars, learn_supported, consuming, write, last, copy, push,
                     collided, half_from>>
  BY DEF Deliver
<1>3. queue' \in Seq(Messages) /\ Len(queue') <= Capacity
  BY <1>1, <1>2, QueueType, AccessoryAssumption DEF TypeOK
<1>4. hap' \in [Characteristics -> Readings] /\ written' \subseteq Kinds
  <2>1. Head(queue).dest \in Characteristics /\ Head(queue).value \in Readings
    <3>1. Head(queue) = queue[1] /\ 1 \in DOMAIN queue
      BY <1>1, <1>2, QueueType
    <3> QED BY <1>1, <3>1, QueueType
  <2> QED BY <1>1, <2>1 DEF Deliver, TypeOK
<1>5. TypeOK'
  BY <1>1, <1>2, <1>3, <1>4 DEF TypeOK, outsideVars
<1>6. PushesHold'
  <2>1. ASSUME NEW x \in Kinds, x = "learn" => learn_supported,
               NEW c \in CharacteristicsOf(x), NEW v, WillShow(x, c, v)
        PROVE  WillShow(x, c, v)'
    BY <1>1, <2>1, DeliveryShows
  <2> QED BY <1>1, <1>2, <2>1, KeepingPushes
<1>7. HalfIsOfTheCopy' /\ OnlyTheLockHasTwo' /\ OwedIsKnown'
  BY <1>1, <1>2 DEF HalfIsOfTheCopy, OnlyTheLockHasTwo, OwedIsKnown, outsideVars
<1> QED BY <1>5, <1>6, <1>7 DEF IInv

LEMMA StutterKeeps ==
  ASSUME IInv, UNCHANGED vars
  PROVE  IInv'
<1>1. /\ UNCHANGED <<outsideVars, homeVars, pushVars, historyVars>>
      /\ TypeOK /\ PushesHold /\ HalfIsOfTheCopy /\ OnlyTheLockHasTwo /\ OwedIsKnown
  BY DEF vars, IInv
<1>2. TypeOK'
  BY <1>1 DEF TypeOK, outsideVars, homeVars, pushVars, historyVars
<1>3. PushesHold'
  BY <1>1, SameShows, KeepingPushes DEF homeVars, pushVars, historyVars
<1>4. HalfIsOfTheCopy' /\ OnlyTheLockHasTwo' /\ OwedIsKnown'
  BY <1>1
     DEF HalfIsOfTheCopy, OnlyTheLockHasTwo, OwedIsKnown, outsideVars, pushVars, historyVars
<1> QED BY <1>2, <1>3, <1>4 DEF IInv

LEMMA NextIInv == IInv /\ [Next]_vars => IInv'
<1> SUFFICES ASSUME IInv, [Next]_vars PROVE IInv'
  OBVIOUS
<1>1. ASSUME NEW t \in Tasks, PushStep(t) PROVE IInv'
  BY <1>1, OfferKeeps, SecondKeeps, CommitKeeps DEF PushStep
<1>2. CASE OpenerStep
  BY <1>2, OpenerKeeps
<1>3. CASE HandlerStep
  BY <1>1, <1>3, DoorEventKeeps, EventKeeps DEF HandlerStep, Tasks
<1>4. CASE WatchdogStep
  BY <1>1, <1>4, ResendKeeps DEF WatchdogStep, Tasks
<1>5. CASE HomeKitStep
  BY <1>5, HomeKitKeeps
<1>6. CASE Deliver
  BY <1>6, DeliverKeeps
<1>7. CASE UNCHANGED vars
  BY <1>7, StutterKeeps
<1> QED BY <1>2, <1>3, <1>4, <1>5, <1>6, <1>7 DEF Next

THEOREM Invariance == Spec => []IInv
  BY InitIInv, NextIInv, PTL DEF Spec

-----------------------------------------------------------------------------
(* The properties of Accessories.                                          *)

\* Every variable keeps its type, and the notification queue its length.
THEOREM TypeCorrect == Spec => []TypeOK
<1>1. IInv => TypeOK
  BY DEF IInv
<1> QED BY <1>1, Invariance, PTL

\* Once nothing is under way HomeKit shows each accessory as it was last heard of,
\* whatever the queue dropped, the watchdog offered and HomeKit wrote.
THEOREM QuietIsShown == Spec => []QuietShowsAccessories
<1>1. IInv => QuietShowsAccessories
  <2> SUFFICES ASSUME IInv, Quiet, NEW x \in Kinds \ (written \cup collided),
                      last[x] # Unknown, copy[x] = last[x], x = "lock" => ~Stranded,
                      x = "learn" => learn_supported
               PROVE  Shows(x) = {last[x]}
    BY DEF QuietShowsAccessories
  <2>1. \A t \in Tasks : ~Unfinished(t, x)
    BY DEF Quiet, Unfinished, NotPushing
  <2>2. x = "lock" => half_from = Unknown
    BY DEF IInv, HalfIsOfTheCopy, Stranded
  <2>3. \A c \in CharacteristicsOf(x) : WillShow(x, c, copy[x])
    BY <2>1, <2>2 DEF IInv, PushesHold, CommittedIsShown
  <2>4. \A c : ~Carried(c)
    BY DEF Quiet, Carried
  <2>5. \A c \in CharacteristicsOf(x) : hap[c] = last[x]
    BY <2>3, <2>4 DEF WillShow
  <2> QED BY <2>5 DEF Shows, CharacteristicsOf, FirstOf
<1> QED BY <1>1, Invariance, PTL
=============================================================================
