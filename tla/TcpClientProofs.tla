--------------------------- MODULE TcpClientProofs ---------------------------
(* Proofs about the requests: the mutex of the clients is only ever unlocked *)
(* by its holder, the list of replies keeps within its size, and a driver    *)
(* only takes the reply to its own request.                                  *)
EXTENDS TcpClient, FiniteSetTheorems, SequenceTheorems, TLAPS

\* Where a thread holds the mutex.
Inside == {"claim", "compose", "write", "unlock"}

\* The part of the type the proof needs.
LockTypes ==
  /\ pc \in [Threads -> {"idle", "lock", "claim", "compose", "write", "unlock", "poll"}]
  /\ client \in [Threads -> Clients]
  /\ soft \in [Clients -> BOOLEAN]

InsideHolds == \A t \in Threads : pc[t] \in Inside => lck = t

\* The interface of a client is busy only while a thread writes to it.
BusyWrites ==
  \A c \in Clients : soft[c] => \E t \in Threads : pc[t] = "write" /\ client[t] = c

LockInv == LockTypes /\ InsideHolds /\ BusyWrites

LEMMA LockInit == Init => LockInv
BY DEF Init, LockInv, LockTypes, InsideHolds, BusyWrites, Inside

\* A thread that looks at the interface finds it free: whoever keeps it busy
\* would hold the mutex too.
LEMMA FoundFree ==
  ASSUME LockInv, NEW t \in Threads, pc[t] = "claim"
  PROVE  ~soft[client[t]]
<1>1. client[t] \in Clients
  BY DEF LockInv, LockTypes
<1>2. lck = t
  BY DEF LockInv, InsideHolds, Inside
<1>3. ASSUME soft[client[t]] PROVE FALSE
  <2>1. PICK s \in Threads : pc[s] = "write"
    BY <1>1, <1>3 DEF LockInv, BusyWrites
  <2>2. lck = s
    BY <2>1 DEF LockInv, InsideHolds, Inside
  <2>. QED
    BY <1>2, <2>1, <2>2
<1>. QED
  BY <1>3

\* A thread that leaves no pc behind but its own, and moves to a place without
\* the mutex or stays inside with it, keeps the mutex in order.
LEMMA ThreadStep ==
  ASSUME LockInv, NEW t \in Threads, Continue(t)
  PROVE  LockInv'
<1>. USE DEF LockInv, LockTypes, InsideHolds, BusyWrites, Inside, Goto
<1>1. CASE Lock(t)
  BY <1>1, FreeAssumption DEF Lock
<1>2. CASE Claim(t)
  <2>1. ~soft[client[t]]
    BY <1>2, FoundFree DEF Claim
  <2>. QED
    BY <1>2, <2>1 DEF Claim
<1>3. CASE Compose(t)
  <2>1. /\ pc[t] = "compose" /\ pc' = [pc EXCEPT ![t] = "write"]
        /\ client' = client /\ lck' = lck
        /\ soft' = [soft EXCEPT ![client[t]] = TRUE]
    BY <1>3 DEF Compose
  <2>2. LockTypes' /\ InsideHolds'
    BY <2>1
  <2>3. ASSUME NEW c \in Clients, soft'[c]
        PROVE  \E s \in Threads : pc'[s] = "write" /\ client'[s] = c
    <3>1. CASE c = client[t]
      BY <2>1, <3>1
    <3>2. CASE c # client[t]
      <4>1. PICK s \in Threads : pc[s] = "write" /\ client[s] = c
        BY <2>1, <2>3, <3>2
      <4>. QED
        BY <2>1, <4>1
    <3>. QED
      BY <3>1, <3>2
  <2>. QED
    BY <2>2, <2>3
<1>4. CASE Write(t)
  <2>1. /\ pc[t] = "write" /\ pc' = [pc EXCEPT ![t] = "unlock"]
        /\ client' = client /\ lck' = lck
        /\ soft' = [soft EXCEPT ![client[t]] = FALSE]
    BY <1>4 DEF Write
  <2>2. LockTypes' /\ InsideHolds'
    BY <2>1
  <2>3. ASSUME NEW c \in Clients, soft'[c]
        PROVE  \E s \in Threads : pc'[s] = "write" /\ client'[s] = c
    <3>1. c # client[t] /\ soft[c]
      BY <2>1, <2>3
    <3>2. PICK s \in Threads : pc[s] = "write" /\ client[s] = c
      BY <3>1
    <3>. QED
      BY <2>1, <3>1, <3>2
  <2>. QED
    BY <2>2, <2>3
<1>5. CASE Unlock(t)
  BY <1>5, FreeAssumption DEF Unlock
<1>6. CASE TakeReply(t)
  <2>1. pc' = [pc EXCEPT ![t] = "idle"] /\ pc[t] = "poll" /\ UNCHANGED <<client, lck, soft>>
    BY <1>6 DEF TakeReply
  <2>. QED
    BY <2>1
<1>7. CASE KeepWaiting(t)
  <2>1. /\ pc[t] = "poll" /\ UNCHANGED <<client, lck, soft>>
        /\ \E w \in {"idle", "poll"} : pc' = [pc EXCEPT ![t] = w]
    BY <1>7 DEF KeepWaiting
  <2>. QED
    BY <2>1
<1>. QED
  BY <1>1, <1>2, <1>3, <1>4, <1>5, <1>6, <1>7 DEF Continue

\* A new request starts outside the mutex.
LEMMA RequestStep ==
  ASSUME LockInv, NEW t \in Threads, NEW c \in Clients, Request(t, c)
  PROVE  LockInv'
<1>1. /\ pc[t] = "idle" /\ pc' = [pc EXCEPT ![t] = "lock"]
      /\ client' = [client EXCEPT ![t] = c] /\ UNCHANGED <<lck, soft>>
  BY DEF Request, Goto
<1>. QED
  BY <1>1 DEF LockInv, LockTypes, InsideHolds, BusyWrites, Inside

\* Nothing that happens on the connection touches the mutex.
LEMMA LinkStep ==
  ASSUME LockInv, NEW c \in Clients, Link(c)
  PROVE  LockInv'
<1>1. UNCHANGED <<pc, client, lck, soft>>
  BY DEF Link, Receive, Disconnect, Connect, TcpClose, TcpOpen, threadVars
<1>. QED
  BY <1>1 DEF LockInv, LockTypes, InsideHolds, BusyWrites

LEMMA LockNext == LockInv /\ [Next]_vars => LockInv'
<1>. SUFFICES ASSUME LockInv, [Next]_vars PROVE LockInv'
  OBVIOUS
<1>1. CASE Next
  BY <1>1, ThreadStep, RequestStep, LinkStep DEF Next
<1>2. CASE UNCHANGED vars
  BY <1>2 DEF vars, threadVars, LockInv, LockTypes, InsideHolds, BusyWrites
<1>. QED
  BY <1>1, <1>2

\* A thread never unlocks the mutex while another holds it (TcpClient::request
\* unlocks a second time after a failed TF_Send), for any number of threads
\* and clients.
THEOREM AlwaysUnlockedByHolder == Spec => []UnlockedByHolder
<1>1. LockInv => UnlockedByHolder
  BY DEF LockInv, InsideHolds, UnlockedByHolder, Inside
<1>. QED
  BY <1>1, LockInit, LockNext, PTL DEF Spec

-----------------------------------------------------------------------------
(* Types.                                                                    *)

\* A thread in request has a number, and a round of looking left.
Started ==
  \A t \in Threads : pc[t] # "idle" => req[t] # 0 /\ polls[t] # 0

TypeInv == TypeOK /\ Started

\* What may come out of the list and into it.
LEMMA Removed ==
  ASSUME NEW list \in Seq(Message), NEW i \in DOMAIN list
  PROVE  /\ RemoveAt(list, i) \in Seq(Message)
         /\ Len(RemoveAt(list, i)) = Len(list) - 1
         /\ \A j \in DOMAIN RemoveAt(list, i) :
              \E k \in DOMAIN list : RemoveAt(list, i)[j] = list[k]
         /\ \A j \in 1 .. Len(list) - 1 :
              RemoveAt(list, i)[j] = list[IF j <= i - 1 THEN j ELSE j + 1]
<1>. DEFINE before == SubSeq(list, 1, i - 1)
            after == SubSeq(list, i + 1, Len(list))
<1>1. Len(list) \in Nat /\ i \in 1 .. Len(list)
  BY LenProperties
<1>2. /\ before \in Seq(Message) /\ Len(before) = i - 1
      /\ \A j \in 1 .. i - 1 : before[j] = list[j]
  BY <1>1, SubSeqProperties, ElementOfSeq
<1>3. /\ after \in Seq(Message) /\ Len(after) = Len(list) - i
      /\ \A j \in 1 .. Len(list) - i : after[j] = list[i + j]
  BY <1>1, SubSeqProperties, ElementOfSeq
<1>4. RemoveAt(list, i) = before \o after
  BY DEF RemoveAt
<1>. HIDE DEF before, after
<1>5. /\ before \o after \in Seq(Message)
      /\ Len(before \o after) = Len(before) + Len(after)
      /\ \A j \in 1 .. Len(before) + Len(after) : (before \o after)[j] =
           IF j <= Len(before) THEN before[j] ELSE after[j - Len(before)]
  BY <1>2, <1>3, ConcatProperties
<1>6. Len(before) + Len(after) = Len(list) - 1
  BY <1>1, <1>2, <1>3
<1>7. DOMAIN list = 1 .. Len(list) /\ DOMAIN (before \o after) = 1 .. Len(list) - 1
  BY <1>5, <1>6, LenProperties
<1>8. ASSUME NEW j \in 1 .. Len(list) - 1
      PROVE  /\ \E k \in DOMAIN list : (before \o after)[j] = list[k]
             /\ (before \o after)[j] = list[IF j <= i - 1 THEN j ELSE j + 1]
  <2>1. CASE j <= i - 1
    <3>1. (before \o after)[j] = before[j] /\ before[j] = list[j]
      BY <1>1, <1>2, <1>5, <1>6, <2>1
    <3>2. j \in 1 .. Len(list)
      BY <1>1
    <3>3. j \in DOMAIN list
      BY <1>7, <3>2
    <3>. QED
      BY <2>1, <3>1, <3>3
  <2>2. CASE ~(j <= i - 1)
    <3>1. (before \o after)[j] = after[j - (i - 1)]
      BY <1>1, <1>2, <1>5, <1>6, <2>2
    <3>2. j - (i - 1) \in 1 .. Len(list) - i /\ i + (j - (i - 1)) = j + 1
      BY <1>1, <2>2
    <3>3. after[j - (i - 1)] = list[j + 1]
      BY <1>3, <3>2
    <3>4. j + 1 \in 1 .. Len(list)
      BY <1>1
    <3>5. j + 1 \in DOMAIN list
      BY <1>7, <3>4
    <3>. QED
      BY <2>2, <3>1, <3>3, <3>5
  <2>. QED
    BY <2>1, <2>2
<1>. QED
  BY <1>4, <1>5, <1>6, <1>7, <1>8

LEMMA Pushed ==
  ASSUME NEW list \in Seq(Message), Len(list) <= MaxMsgs,
         NEW m \in Message, NEW old \in BOOLEAN
  PROVE  /\ Push(list, m, old) \in Seq(Message)
         /\ Len(Push(list, m, old)) <= MaxMsgs
         /\ \A j \in DOMAIN Push(list, m, old) :
              \/ Push(list, m, old)[j] = m
              \/ \E k \in DOMAIN list : Push(list, m, old)[j] = list[k]
<1>. DEFINE kept == IF list # <<>> /\ (old \/ Len(list) >= MaxMsgs) THEN Tail(list) ELSE list
<1>1. Len(list) \in Nat /\ DOMAIN list = 1 .. Len(list)
  BY LenProperties
<1>2. /\ kept \in Seq(Message) /\ Len(kept) < MaxMsgs
      /\ \A j \in 1 .. Len(kept) : \E k \in DOMAIN list : kept[j] = list[k]
  <2>1. CASE list # <<>> /\ (old \/ Len(list) >= MaxMsgs)
    <3>1. /\ Tail(list) \in Seq(Message) /\ Len(Tail(list)) = Len(list) - 1
          /\ \A j \in 1 .. Len(Tail(list)) : Tail(list)[j] = list[j + 1]
      BY <2>1, HeadTailProperties
    <3>. QED
      BY <1>1, <2>1, <3>1, MsgsAssumption
  <2>2. CASE ~(list # <<>> /\ (old \/ Len(list) >= MaxMsgs))
    BY <1>1, <2>2, MsgsAssumption, EmptySeq
  <2>. QED
    BY <2>1, <2>2
<1>3. Push(list, m, old) = Append(kept, m)
  BY DEF Push
<1>. HIDE DEF kept
<1>4. /\ Append(kept, m) \in Seq(Message) /\ Len(Append(kept, m)) = Len(kept) + 1
      /\ \A j \in 1 .. Len(kept) : Append(kept, m)[j] = kept[j]
      /\ Append(kept, m)[Len(kept) + 1] = m
  BY <1>2, AppendProperties
<1>5. DOMAIN Append(kept, m) = 1 .. Len(kept) + 1 /\ Len(kept) \in Nat
  BY <1>2, <1>4, LenProperties
<1>. QED
  BY <1>2, <1>3, <1>4, <1>5, MsgsAssumption

LEMMA NextIdentifier ==
  ASSUME NEW n \in 0 .. IdMod - 1
  PROVE  /\ (n + 1) % IdMod \in 0 .. IdMod - 1
         /\ (n + 1) % IdMod = IF n = IdMod - 1 THEN 0 ELSE n + 1
BY IdAssumption

LEMMA TypeInit == Init => TypeInv
<1>. USE IdAssumption, CountsAssumption, MsgsAssumption
<1>1. <<>> \in Seq(Message) /\ Len(<<>>) = 0
  BY EmptySeq
<1>. QED
  BY <1>1 DEF Init, TypeInv, TypeOK, Started

LEMMA TypeThread ==
  ASSUME TypeInv, LockInv, NEW t \in Threads, Continue(t)
  PROVE  TypeInv'
<1>. USE IdAssumption, CountsAssumption, MsgsAssumption
     DEF TypeInv, TypeOK, Started, Goto, linkVars
<1>1. CASE Lock(t)
  BY <1>1 DEF Lock
<1>2. CASE Claim(t)
  <2>1. ~soft[client[t]]
    BY <1>2, FoundFree DEF Claim
  <2>. QED
    BY <1>2, <2>1 DEF Claim
<1>3. CASE Compose(t)
  BY <1>3 DEF Compose
<1>4. CASE Write(t)
  <2>1. [id |-> frame[t], req |-> req[t]] \in Message
    <3>1. frame[t] \in 0 .. IdMod - 1 /\ req[t] \in 0 .. MaxRequests /\ req[t] # 0
      BY <1>4 DEF Write
    <3>. HIDE DEF TypeInv, TypeOK, Started
    <3>2. req[t] \in 1 .. MaxRequests
      BY <3>1, CountsAssumption
    <3>. QED
      BY <3>1, <3>2 DEF Message
  <2>2. (frame[t] + 1) % IdMod \in 0 .. IdMod - 1
    BY NextIdentifier
  <2>3. client[t] \in Clients
    OBVIOUS
  <2>4. pending' \in [Clients -> SUBSET Message]
    BY <1>4, <2>1, <2>3 DEF Write
  <2>5. nextId' \in [Clients -> 0 .. IdMod - 1] /\ soft' \in [Clients -> BOOLEAN]
    BY <1>4, <2>2, <2>3 DEF Write
  <2>. QED
    BY <1>4, <2>4, <2>5 DEF Write
<1>5. CASE Unlock(t)
  BY <1>5 DEF Unlock
<1>6. CASE TakeReply(t)
  <2>1. PICK i \in DOMAIN msgs[client[t]] :
          /\ msgs' = [msgs EXCEPT ![client[t]] = RemoveAt(msgs[client[t]], i)]
          /\ got' = [got EXCEPT ![t] =
                       IF t \in Checking /\ msgs[client[t]][i].req # req[t]
                       THEN 0 ELSE msgs[client[t]][i].req]
    BY <1>6 DEF TakeReply
  <2>2. client[t] \in Clients /\ msgs[client[t]] \in Seq(Message)
    OBVIOUS
  <2>3. /\ RemoveAt(msgs[client[t]], i) \in Seq(Message)
        /\ Len(RemoveAt(msgs[client[t]], i)) = Len(msgs[client[t]]) - 1
    BY <2>2, Removed
  <2>4. msgs[client[t]][i] \in Message
    BY <2>2
  <2>5. msgs' \in [Clients -> Seq(Message)] /\ \A c \in Clients : Len(msgs'[c]) <= MaxMsgs
    <3>1. Len(msgs[client[t]]) \in Nat
      BY <2>2, LenProperties
    <3>2. msgs' \in [Clients -> Seq(Message)]
      BY <2>1, <2>2, <2>3
    <3>3. ASSUME NEW c \in Clients PROVE Len(msgs'[c]) <= MaxMsgs
      BY <2>1, <2>2, <2>3, <3>1
    <3>. QED
      BY <3>2, <3>3
  <2>6. got' \in [Threads -> 0 .. MaxRequests]
    <3>1. msgs[client[t]][i].req \in 0 .. MaxRequests
      BY <2>4 DEF Message
    <3>. DEFINE g == IF t \in Checking /\ msgs[client[t]][i].req # req[t]
                     THEN 0 ELSE msgs[client[t]][i].req
    <3>2. g \in 0 .. MaxRequests /\ got \in [Threads -> 0 .. MaxRequests]
      BY <3>1
    <3>3. got' = [got EXCEPT ![t] = g]
      BY <2>1
    <3>. HIDE DEF g, TypeInv, TypeOK, Started
    <3>. QED
      BY <3>2, <3>3
  <2>. QED
    BY <1>6, <2>5, <2>6 DEF TakeReply
<1>7. CASE KeepWaiting(t)
  <2>1. polls[t] \in 1 .. Polls /\ req[t] # 0
    BY <1>7 DEF KeepWaiting
  <2>2. /\ polls' = [polls EXCEPT ![t] = @ - 1]
        /\ pc' = [pc EXCEPT ![t] = IF polls[t] = 1 THEN "idle" ELSE "poll"]
        /\ UNCHANGED <<client, req, tries, frame, got, lck, soft, nextId, linkVars, made>>
    BY <1>7 DEF KeepWaiting
  <2>3. polls' \in [Threads -> 0 .. Polls] /\ polls'[t] = polls[t] - 1
    <3>1. polls \in [Threads -> 0 .. Polls]
      OBVIOUS
    <3>. HIDE DEF TypeInv, TypeOK, Started
    <3>2. polls[t] - 1 \in 0 .. Polls
      BY <2>1, CountsAssumption
    <3>. QED
      BY <2>2, <3>1, <3>2
  <2>4. Started'
    <3>1. ASSUME NEW s \in Threads, pc'[s] # "idle" PROVE req'[s] # 0 /\ polls'[s] # 0
      <4>1. pc \in [Threads -> {"idle", "lock", "claim", "compose", "write", "unlock", "poll"}]
            /\ polls \in [Threads -> 0 .. Polls]
            /\ (pc[s] # "idle" => req[s] # 0 /\ polls[s] # 0)
        OBVIOUS
      <4>. HIDE DEF TypeInv, TypeOK, Started
      <4>. QED
        BY <2>1, <2>2, <2>3, <3>1, <4>1
    <3>. QED
      BY <3>1
  <2>5. pc' \in [Threads -> {"idle", "lock", "claim", "compose", "write", "unlock", "poll"}]
    BY <2>2
  <2>. QED
    BY <2>2, <2>3, <2>4, <2>5
<1>. QED
  BY <1>1, <1>2, <1>3, <1>4, <1>5, <1>6, <1>7 DEF Continue

LEMMA TypeRequest ==
  ASSUME TypeInv, NEW t \in Threads, NEW c \in Clients, Request(t, c)
  PROVE  TypeInv'
<1>. DEFINE Places == {"idle", "lock", "claim", "compose", "write", "unlock", "poll"}
<1>1. /\ made' = made + 1 /\ made < MaxRequests
      /\ client' = [client EXCEPT ![t] = c] /\ req' = [req EXCEPT ![t] = made + 1]
      /\ tries' = [tries EXCEPT ![t] = Tries] /\ polls' = [polls EXCEPT ![t] = Polls]
      /\ frame' = [frame EXCEPT ![t] = 0] /\ got' = [got EXCEPT ![t] = 0]
      /\ pc' = [pc EXCEPT ![t] = "lock"]
      /\ UNCHANGED <<lck, soft, nextId, linkVars>>
  BY DEF Request, Goto
<1>2. /\ made \in 0 .. MaxRequests /\ MaxRequests \in Nat
      /\ 0 \in 0 .. IdMod - 1 /\ Tries \in 0 .. Tries
      /\ Polls \in 1 .. Polls /\ Polls \in 0 .. Polls
  BY IdAssumption, CountsAssumption DEF TypeInv, TypeOK
<1>3. made' \in 1 .. MaxRequests /\ made + 1 \in 1 .. MaxRequests /\ 0 \in 0 .. MaxRequests
  BY <1>1, <1>2
<1>4. pc' \in [Threads -> Places] /\ client' \in [Threads -> Clients]
  BY <1>1 DEF TypeInv, TypeOK
<1>5. req' \in [Threads -> 0 .. MaxRequests] /\ got' \in [Threads -> 0 .. MaxRequests]
  <2>1. req \in [Threads -> 0 .. MaxRequests] /\ got \in [Threads -> 0 .. MaxRequests]
    BY DEF TypeInv, TypeOK
  <2>2. made + 1 \in 0 .. MaxRequests /\ 0 \in 0 .. MaxRequests
    BY <1>2, <1>3
  <2>3. req' = [req EXCEPT ![t] = made + 1] /\ got' = [got EXCEPT ![t] = 0]
    BY <1>1
  <2>. QED
    BY <2>1, <2>2, <2>3
<1>6. tries' \in [Threads -> 0 .. Tries] /\ polls' \in [Threads -> 0 .. Polls]
  BY <1>1, <1>2 DEF TypeInv, TypeOK
<1>7. frame' \in [Threads -> 0 .. IdMod - 1]
  BY <1>1, <1>2 DEF TypeInv, TypeOK
<1>8. TypeOK'
  <2>1. /\ lck \in Threads \cup {Free} /\ soft \in [Clients -> BOOLEAN]
        /\ nextId \in [Clients -> 0 .. IdMod - 1]
        /\ msgs \in [Clients -> Seq(Message)] /\ \A b \in Clients : Len(msgs[b]) <= MaxMsgs
        /\ up \in [Clients -> BOOLEAN] /\ enabled \in [Clients -> BOOLEAN]
        /\ pending \in [Clients -> SUBSET Message]
    BY DEF TypeInv, TypeOK
  <2>2. UNCHANGED <<lck, soft, nextId, msgs, up, enabled, pending>>
    BY <1>1 DEF linkVars
  <2>3. made' \in 0 .. MaxRequests
    BY <1>3
  <2>. QED
    BY <2>1, <2>2, <2>3, <1>4, <1>5, <1>6, <1>7 DEF TypeOK
<1>9. ASSUME NEW s \in Threads, pc'[s] # "idle"
      PROVE  req'[s] # 0 /\ polls'[s] # 0
  <2>1. CASE s = t
    <3>1. req'[s] = made + 1 /\ polls'[s] = Polls
      BY <1>1, <2>1 DEF TypeInv, TypeOK
    <3>. QED
      BY <1>2, <1>3, <3>1
  <2>2. CASE s # t
    BY <1>1, <1>9, <2>2 DEF TypeInv, TypeOK, Started
  <2>. QED
    BY <2>1, <2>2
<1>. QED
  BY <1>8, <1>9 DEF TypeInv, Started

LEMMA TypeLink ==
  ASSUME TypeInv, NEW c \in Clients, Link(c)
  PROVE  TypeInv'
<1>. USE DEF TypeInv, TypeOK, Started, threadVars
<1>1. ASSUME NEW m \in pending[c], NEW old \in BOOLEAN, Receive(c, m, old)
      PROVE  TypeInv'
  <2>1. m \in Message /\ msgs[c] \in Seq(Message) /\ Len(msgs[c]) <= MaxMsgs
    OBVIOUS
  <2>2. Push(msgs[c], m, old) \in Seq(Message) /\ Len(Push(msgs[c], m, old)) <= MaxMsgs
    BY <2>1, Pushed
  <2>3. /\ msgs' = [msgs EXCEPT ![c] = Push(msgs[c], m, old)]
        /\ pending' = [pending EXCEPT ![c] = @ \ {m}]
        /\ UNCHANGED <<threadVars, lck, soft, nextId, up, enabled, made>>
    BY <1>1 DEF Receive
  <2>. QED
    BY <2>2, <2>3
<1>2. CASE Disconnect(c)
  BY <1>2 DEF Disconnect
<1>3. CASE Connect(c)
  BY <1>3 DEF Connect
<1>4. CASE TcpClose(c)
  BY <1>4 DEF TcpClose
<1>5. CASE TcpOpen(c)
  BY <1>5 DEF TcpOpen
<1>. QED
  BY <1>1, <1>2, <1>3, <1>4, <1>5 DEF Link

LEMMA TypeNext == TypeInv /\ LockInv /\ [Next]_vars => TypeInv'
<1>. SUFFICES ASSUME TypeInv, LockInv, [Next]_vars PROVE TypeInv'
  OBVIOUS
<1>1. CASE Next
  BY <1>1, TypeThread, TypeRequest, TypeLink DEF Next
<1>2. CASE UNCHANGED vars
  BY <1>2 DEF vars, threadVars, linkVars, TypeInv, TypeOK, Started
<1>. QED
  BY <1>1, <1>2

\* The types, and with them that the list of replies never grows past its
\* size (replyListener takes one off for each it puts in) and that no round of
\* a request is counted below zero, for any numbers of threads and rounds.
THEOREM TypeCorrect == Spec => []TypeOK
<1>1. TypeInv => TypeOK
  BY DEF TypeInv
<1>. QED
  BY <1>1, LockInit, LockNext, TypeInit, TypeNext, PTL DEF Spec


-----------------------------------------------------------------------------
(* Own replies.  As long as no more requests were made than there are        *)
(* identifiers, each identifier of a client was given to one request only.   *)

\* Threads whose request has not been given its identifier for good.
Ahead == { t \in Threads : pc[t] \in {"lock", "claim", "compose", "write"} }

\* Threads that look for a reply, or are about to.
Sent(t) == pc[t] \in {"unlock", "poll"}

\* What the board may still send to client c, and what it has sent.
Replies(c) == pending[c] \cup { msgs[c][i] : i \in DOMAIN msgs[c] }

\* All identifiers were given away, and the next request is one too many.
Spent == made = IdMod /\ Ahead = {}

\* The identifiers given away do not outnumber the requests.
Counted ==
  /\ IsFiniteSet(Ahead)
  /\ \A c \in Clients : nextId[c] + Cardinality(Ahead) <= made

\* A thread writes the frame it composed.
Composed ==
  \A t \in Threads : pc[t] = "write" => frame[t] = nextId[client[t]]

\* The next identifier is new.
NextIsNew ==
  ~Spent =>
    \A c \in Clients :
      /\ \A m \in Replies(c) : m.id < nextId[c]
      /\ \A t \in Threads : Sent(t) /\ client[t] = c => frame[t] < nextId[c]

\* A reply with the identifier a thread looks for answers its request.
Matching ==
  \A t \in Threads : Sent(t) =>
    \A m \in Replies(client[t]) : m.id = frame[t] => m.req = req[t]

ReplyInv ==
  /\ Composed
  /\ made <= IdMod => Counted /\ NextIsNew /\ Matching
  /\ OwnReply

LEMMA ReplyInit == Init => ReplyInv
<1>. SUFFICES ASSUME Init PROVE ReplyInv
  OBVIOUS
<1>1. Ahead = {}
  BY DEF Init, Ahead
<1>2. \A c \in Clients : Replies(c) = {}
  BY DEF Init, Replies
<1>3. Counted
  BY <1>1, FS_EmptySet DEF Init, Counted
<1>4. NextIsNew /\ Matching /\ Composed /\ OwnReply
  BY <1>2 DEF Init, NextIsNew, Matching, Sent, Composed, OwnReply
<1>. QED
  BY <1>3, <1>4 DEF ReplyInv

\* A step that gives no identifier away, begins no request and brings no new
\* replies leaves everything as it was.
LEMMA Quiet ==
  ASSUME TypeInv, ReplyInv,
         UNCHANGED <<client, req, nextId, made>>,
         Ahead' = Ahead,
         \A c \in Clients : Replies(c)' \subseteq Replies(c),
         \A t \in Threads : Sent(t)' => Sent(t) /\ frame'[t] = frame[t],
         Composed', OwnReply'
  PROVE  ReplyInv'
<1>. SUFFICES ASSUME made <= IdMod PROVE (Counted /\ NextIsNew /\ Matching)'
  BY DEF ReplyInv
<1>1. Counted'
  BY DEF ReplyInv, Counted
<1>2. Spent' = Spent
  BY DEF Spent
<1>3. NextIsNew'
  BY <1>2 DEF ReplyInv, NextIsNew
<1>4. Matching'
  <2>1. \A t \in Threads : client[t] \in Clients
    BY DEF TypeInv, TypeOK
  <2>. QED
    BY <2>1 DEF ReplyInv, Matching
<1>. QED
  BY <1>1, <1>3, <1>4

\* The threads that have not written yet: no identifier is to spare for them.
LEMMA AheadIsNew ==
  ASSUME TypeInv, ReplyInv, made <= IdMod, NEW t \in Ahead
  PROVE  /\ ~Spent
         /\ IsFiniteSet(Ahead \ {t})
         /\ Cardinality(Ahead \ {t}) = Cardinality(Ahead) - 1
         /\ Cardinality(Ahead) \in Nat
         /\ Cardinality(Ahead) # 0
<1>1. IsFiniteSet(Ahead)
  BY DEF ReplyInv, Counted
<1>. QED
  BY <1>1, FS_RemoveElement, FS_CardinalityType, FS_EmptySet DEF Spent

LEMMA WrittenMatches ==
  ASSUME TypeInv, LockInv, ReplyInv, NEW t \in Threads, Write(t)
  PROVE  ReplyInv'
<1>. DEFINE c == client[t]
            m == [id |-> frame[t], req |-> req[t]]
<1>1. /\ pc[t] = "write" /\ pc' = [pc EXCEPT ![t] = "unlock"]
      /\ nextId' = [nextId EXCEPT ![c] = (frame[t] + 1) % IdMod]
      /\ \/ pending' = [pending EXCEPT ![c] = @ \cup {m}]
         \/ pending' = pending
      /\ UNCHANGED <<client, req, frame, got, msgs, made>>
  BY DEF Write, Goto
<1>2. c \in Clients /\ frame[t] = nextId[c] /\ nextId[c] \in 0 .. IdMod - 1
  BY <1>1 DEF TypeInv, TypeOK, ReplyInv, Composed
<1>3. /\ nextId'[c] = IF nextId[c] = IdMod - 1 THEN 0 ELSE nextId[c] + 1
      /\ \A d \in Clients \ {c} : nextId'[d] = nextId[d]
  BY <1>1, <1>2, NextIdentifier DEF TypeInv, TypeOK
<1>4. ASSUME NEW d \in Clients, NEW r \in Replies(d)'
      PROVE  r \in Replies(d) \/ (d = c /\ r = m)
  <2>1. r \in pending'[d] \/ \E i \in DOMAIN msgs'[d] : r = msgs'[d][i]
    BY <1>4 DEF Replies
  <2>2. pending \in [Clients -> SUBSET Message]
    BY DEF TypeInv, TypeOK
  <2>. HIDE DEF c, m
  <2>3. pending'[d] \subseteq pending[d] \cup (IF d = c THEN {m} ELSE {})
    BY <1>1, <1>2, <2>2
  <2>. QED
    BY <1>1, <2>1, <2>3 DEF Replies
<1>5. ASSUME NEW d \in Clients, NEW r \in Replies(d) PROVE r \in Message
  BY <1>5 DEF Replies, TypeInv, TypeOK
<1>6. pc \in [Threads -> {"idle", "lock", "claim", "compose", "write", "unlock", "poll"}]
  BY DEF TypeInv, TypeOK
<1>7. t \in Ahead /\ Ahead' = Ahead \ {t}
  BY <1>1, <1>6 DEF Ahead
<1>8. \A s \in Threads \ {t} : pc'[s] = pc[s]
  BY <1>1, <1>6
<1>9. Composed'
  <2>1. ASSUME NEW s \in Threads, pc'[s] = "write" PROVE FALSE
    <3>1. s # t /\ pc[s] = "write"
      BY <1>1, <1>6, <2>1
    <3>2. lck = s /\ lck = t
      BY <1>1, <3>1 DEF LockInv, InsideHolds, Inside
    <3>. QED
      BY <3>1, <3>2
  <2>. QED
    BY <2>1 DEF Composed
<1>10. OwnReply'
  BY <1>1 DEF ReplyInv, OwnReply
<1>11. ASSUME made <= IdMod PROVE (Counted /\ NextIsNew /\ Matching)'
  <2>. USE <1>11
  <2>1. /\ ~Spent /\ IsFiniteSet(Ahead')
        /\ Cardinality(Ahead') = Cardinality(Ahead) - 1
        /\ Cardinality(Ahead) \in Nat /\ Cardinality(Ahead) # 0
    BY <1>7, AheadIsNew
  <2>2. made \in Nat /\ IdMod \in Nat \ {0} /\ \A d \in Clients : nextId[d] \in Nat
    BY IdAssumption DEF TypeInv, TypeOK
  <2>3. \A d \in Clients : nextId[d] + Cardinality(Ahead) <= made
    BY DEF ReplyInv, Counted
  <2>4. Counted'
    <3>1. ASSUME NEW d \in Clients PROVE nextId'[d] + Cardinality(Ahead') <= made
      <4>1. nextId'[d] <= nextId[d] + 1 /\ nextId'[d] \in Nat
        BY <1>3, <2>2
      <4>. QED
        BY <2>1, <2>2, <2>3, <4>1
    <3>. QED
      BY <1>1, <2>1, <3>1 DEF Counted
  <2>5. /\ \A d \in Clients : \A r \in Replies(d) : r.id < nextId[d]
        /\ \A s \in Threads : Sent(s) => frame[s] < nextId[client[s]]
    <3>1. \A s \in Threads : client[s] \in Clients
      BY DEF TypeInv, TypeOK
    <3>. QED
      BY <2>1, <3>1 DEF ReplyInv, NextIsNew
  \* The identifiers start again only with the last request.
  <2>6. ASSUME nextId[c] = IdMod - 1 PROVE NextIsNew'
    <3>1. made = IdMod /\ Cardinality(Ahead') = 0
      BY <1>2, <2>1, <2>2, <2>3, <2>6
    <3>2. Spent'
      BY <1>1, <2>1, <3>1, FS_EmptySet DEF Spent
    <3>. QED
      BY <3>2 DEF NextIsNew
  <2>7. ASSUME nextId[c] # IdMod - 1 PROVE NextIsNew'
    <3>1. nextId'[c] = nextId[c] + 1
      BY <1>3, <2>7
    <3>2. ASSUME NEW d \in Clients, NEW r \in Replies(d)' PROVE r.id < nextId'[d]
      <4>1. CASE d = c /\ r = m
        BY <1>2, <2>2, <3>1, <4>1
      <4>2. CASE r \in Replies(d)
        <5>1. r.id < nextId[d] /\ r.id \in Int
          BY <1>5, <2>5, <4>2 DEF Message
        <5>2. nextId[d] <= nextId'[d] /\ nextId'[d] \in Int
          BY <1>3, <2>2, <3>1
        <5>. QED
          BY <2>2, <5>1, <5>2
      <4>. QED
        BY <1>4, <3>2, <4>1, <4>2
    <3>3. ASSUME NEW s \in Threads, Sent(s)' PROVE frame'[s] < nextId'[client'[s]]
      <4>1. CASE s = t
        BY <1>1, <1>2, <2>2, <3>1, <4>1
      <4>2. CASE s # t
        <5>1. frame[s] < nextId[client[s]] /\ client[s] \in Clients /\ frame[s] \in Int
          BY <1>8, <2>5, <3>3, <4>2 DEF Sent, TypeInv, TypeOK
        <5>2. nextId[client[s]] <= nextId'[client[s]] /\ nextId'[client[s]] \in Int
          BY <1>2, <1>3, <2>2, <3>1, <5>1
        <5>. QED
          BY <1>1, <2>2, <5>1, <5>2
      <4>. QED
        BY <4>1, <4>2
    <3>. QED
      BY <3>2, <3>3 DEF NextIsNew
  <2>8. NextIsNew'
    BY <2>6, <2>7
  <2>9. ASSUME NEW s \in Threads, Sent(s)', NEW d \in Clients, d = client[s],
               NEW r \in Replies(d)', r.id = frame[s]
        PROVE  r.req = req[s]
    <3>1. CASE s = t
      <4>1. CASE r = m
        BY <3>1, <4>1
      <4>2. CASE r \in Replies(d)
        <5>1. r.id < nextId[c] /\ r.id \in Int
          BY <1>5, <2>5, <2>9, <3>1, <4>2 DEF Message
        <5>. QED
          BY <1>2, <2>2, <2>9, <3>1, <5>1
      <4>. QED
        BY <1>2, <1>4, <2>9, <3>1, <4>1, <4>2
    <3>2. CASE s # t
      <4>1. Sent(s) /\ client[s] \in Clients /\ frame[s] \in Int
        BY <1>8, <2>9, <3>2 DEF Sent, TypeInv, TypeOK
      <4>2. d = c => frame[s] < frame[t]
        BY <1>2, <2>5, <2>9, <4>1
      <4>3. d = c => r # m
        BY <1>2, <2>2, <2>9, <4>1, <4>2
      <4>4. r \in Replies(d)
        BY <1>4, <4>3
      <4>. QED
        BY <2>9, <4>1, <4>4 DEF ReplyInv, Matching
    <3>. QED
      BY <3>1, <3>2
  <2>10. Matching'
    <3>1. \A s \in Threads : client'[s] = client[s] /\ client[s] \in Clients
      BY <1>1 DEF TypeInv, TypeOK
    <3>. QED
      BY <1>1, <2>9, <3>1 DEF Matching
  <2>. QED
    BY <2>4, <2>8, <2>10
<1>. QED
  BY <1>1, <1>9, <1>10, <1>11 DEF ReplyInv

LEMMA RequestedMatches ==
  ASSUME TypeInv, ReplyInv, NEW t \in Threads, NEW d \in Clients, Request(t, d)
  PROVE  ReplyInv'
<1>1. /\ pc[t] = "idle" /\ pc' = [pc EXCEPT ![t] = "lock"]
      /\ made' = made + 1
      /\ client' = [client EXCEPT ![t] = d] /\ req' = [req EXCEPT ![t] = made + 1]
      /\ frame' = [frame EXCEPT ![t] = 0] /\ got' = [got EXCEPT ![t] = 0]
      /\ UNCHANGED <<nextId, pending, msgs>>
  BY DEF Request, Goto, linkVars
<1>2. pc \in [Threads -> {"idle", "lock", "claim", "compose", "write", "unlock", "poll"}]
  BY DEF TypeInv, TypeOK
<1>3. made \in Nat /\ IdMod \in Nat \ {0} /\ \A c \in Clients : nextId[c] \in Nat
  BY IdAssumption DEF TypeInv, TypeOK
<1>4. \A s \in Threads \ {t} :
        /\ pc'[s] = pc[s] /\ frame'[s] = frame[s] /\ got'[s] = got[s]
        /\ client'[s] = client[s] /\ req'[s] = req[s]
  BY <1>1 DEF TypeInv, TypeOK
<1>5. pc'[t] = "lock" /\ got'[t] = 0
  BY <1>1 DEF TypeInv, TypeOK
<1>6. \A c : Replies(c)' = Replies(c)
  BY <1>1 DEF Replies
<1>7. t \notin Ahead /\ Ahead' = Ahead \cup {t}
  BY <1>1, <1>2 DEF Ahead
<1>8. Composed'
  BY <1>1, <1>4, <1>5 DEF ReplyInv, Composed
<1>9. OwnReply'
  <2>1. made' <= IdMod => made <= IdMod
    BY <1>1, <1>3
  <2>. QED
    BY <1>4, <1>5, <2>1 DEF ReplyInv, OwnReply
<1>10. ASSUME made' <= IdMod PROVE (Counted /\ NextIsNew /\ Matching)'
  <2>1. made <= IdMod /\ ~Spent
    BY <1>1, <1>3, <1>10 DEF Spent
  <2>2. Counted'
    <3>1. IsFiniteSet(Ahead)
      BY <2>1 DEF ReplyInv, Counted
    <3>2. IsFiniteSet(Ahead') /\ Cardinality(Ahead') = Cardinality(Ahead) + 1
          /\ Cardinality(Ahead) \in Nat
      BY <1>7, <3>1, FS_AddElement, FS_CardinalityType
    <3>3. \A c \in Clients : nextId[c] + Cardinality(Ahead) <= made
      BY <2>1 DEF ReplyInv, Counted
    <3>. QED
      BY <1>1, <1>3, <3>2, <3>3 DEF Counted
  <2>3. NextIsNew'
    BY <1>1, <1>4, <1>5, <1>6, <2>1 DEF ReplyInv, NextIsNew, Sent
  <2>4. Matching'
    BY <1>1, <1>4, <1>5, <1>6, <2>1 DEF ReplyInv, Matching, Sent
  <2>. QED
    BY <2>2, <2>3, <2>4
<1>. QED
  BY <1>8, <1>9, <1>10 DEF ReplyInv

LEMMA ThreadMatches ==
  ASSUME TypeInv, LockInv, ReplyInv, NEW t \in Threads, Continue(t)
  PROVE  ReplyInv'
<1>1. pc \in [Threads -> {"idle", "lock", "claim", "compose", "write", "unlock", "poll"}]
  BY DEF TypeInv, TypeOK
<1>2. CASE Lock(t)
  <2>1. /\ pc[t] = "lock" /\ pc' = [pc EXCEPT ![t] = "claim"]
        /\ UNCHANGED <<client, req, nextId, made, frame, got, pending, msgs>>
    BY <1>2 DEF Lock, Goto, linkVars
  <2>. QED
    BY <1>1, <2>1, Quiet DEF Ahead, Replies, Sent, ReplyInv, Composed, OwnReply
<1>3. CASE Claim(t)
  <2>1. /\ pc[t] = "claim" /\ pc' = [pc EXCEPT ![t] = "compose"]
        /\ UNCHANGED <<client, req, nextId, made, frame, got, pending, msgs>>
    BY <1>3, FoundFree DEF Claim, Goto, linkVars
  <2>. QED
    BY <1>1, <2>1, Quiet DEF Ahead, Replies, Sent, ReplyInv, Composed, OwnReply
<1>4. CASE Compose(t)
  <2>1. /\ pc[t] = "compose" /\ pc' = [pc EXCEPT ![t] = "write"]
        /\ frame' = [frame EXCEPT ![t] = nextId[client[t]]]
        /\ UNCHANGED <<client, req, nextId, made, got, pending, msgs>>
    BY <1>4 DEF Compose, Goto, linkVars
  <2>2. Composed'
    BY <1>1, <2>1 DEF ReplyInv, Composed, TypeInv, TypeOK
  <2>3. \A s \in Threads : Sent(s)' => Sent(s) /\ frame'[s] = frame[s]
    BY <1>1, <2>1 DEF Sent, TypeInv, TypeOK
  <2>4. Ahead' = Ahead
    BY <1>1, <2>1 DEF Ahead
  <2>. QED
    BY <2>1, <2>2, <2>3, <2>4, Quiet DEF Replies, ReplyInv, OwnReply
<1>5. CASE Write(t)
  BY <1>5, WrittenMatches
<1>6. CASE Unlock(t)
  <2>1. /\ pc[t] = "unlock" /\ pc' = [pc EXCEPT ![t] = "poll"]
        /\ UNCHANGED <<client, req, nextId, made, frame, got, pending, msgs>>
    BY <1>6 DEF Unlock, Goto, linkVars
  <2>. QED
    BY <1>1, <2>1, Quiet DEF Ahead, Replies, Sent, ReplyInv, Composed, OwnReply
<1>7. CASE TakeReply(t)
  <2>. DEFINE list == msgs[client[t]]
  <2>1. PICK i \in DOMAIN list :
          /\ list[i].id = frame[t]
          /\ msgs' = [msgs EXCEPT ![client[t]] = RemoveAt(list, i)]
          /\ got' = [got EXCEPT ![t] =
                       IF t \in Checking /\ list[i].req # req[t] THEN 0 ELSE list[i].req]
    BY <1>7 DEF TakeReply, Answers
  <2>2. /\ pc[t] = "poll" /\ pc' = [pc EXCEPT ![t] = "idle"]
        /\ UNCHANGED <<client, req, nextId, made, frame, pending>>
    BY <1>7 DEF TakeReply, Goto
  <2>3. client[t] \in Clients /\ list \in Seq(Message)
    BY DEF TypeInv, TypeOK
  <2>4. \A c \in Clients : Replies(c)' \subseteq Replies(c)
    <3>1. \A j \in DOMAIN RemoveAt(list, i) :
            \E k \in DOMAIN list : RemoveAt(list, i)[j] = list[k]
      BY <2>3, Removed
    <3>2. \A c \in Clients : msgs'[c] = IF c = client[t] THEN RemoveAt(list, i) ELSE msgs[c]
      BY <2>1, <2>3 DEF TypeInv, TypeOK
    <3>. QED
      BY <2>2, <3>1, <3>2 DEF Replies
  <2>5. OwnReply'
    <3>1. list[i] \in Replies(client[t])
      BY DEF Replies
    <3>2. made <= IdMod => list[i].req = req[t]
      BY <2>1, <2>2, <3>1 DEF ReplyInv, Matching, Sent
    <3>3. got'[t] # 0 /\ (t \in Checking \/ made <= IdMod) => got'[t] = req[t]
      BY <2>1, <3>2 DEF TypeInv, TypeOK
    <3>4. \A s \in Threads \ {t} : got'[s] = got[s]
      BY <2>1 DEF TypeInv, TypeOK
    <3>. QED
      BY <2>2, <3>3, <3>4 DEF ReplyInv, OwnReply
  <2>6. Ahead' = Ahead /\ \A s \in Threads : Sent(s)' => Sent(s)
    BY <1>1, <2>2 DEF Ahead, Sent
  <2>7. Composed'
    BY <1>1, <2>2 DEF ReplyInv, Composed
  <2>. QED
    BY <2>2, <2>4, <2>5, <2>6, <2>7, Quiet
<1>8. CASE KeepWaiting(t)
  <2>1. /\ pc[t] = "poll" /\ \E w \in {"idle", "poll"} : pc' = [pc EXCEPT ![t] = w]
        /\ UNCHANGED <<client, req, nextId, made, frame, got, pending, msgs>>
    BY <1>8 DEF KeepWaiting, Goto, linkVars
  <2>. QED
    BY <1>1, <2>1, Quiet DEF Ahead, Replies, Sent, ReplyInv, Composed, OwnReply
<1>. QED
  BY <1>2, <1>3, <1>4, <1>5, <1>6, <1>7, <1>8 DEF Continue

\* The board answers a frame once, and a reply moves to the list or is lost.
LEMMA LinkMatches ==
  ASSUME TypeInv, ReplyInv, NEW c \in Clients, Link(c)
  PROVE  ReplyInv'
<1>1. UNCHANGED <<pc, client, req, nextId, made, frame, got>>
  BY DEF Link, Receive, Disconnect, Connect, TcpClose, TcpOpen, threadVars
<1>2. ASSUME NEW d \in Clients PROVE Replies(d)' \subseteq Replies(d)
  <2>1. ASSUME NEW m \in pending[c], NEW old \in BOOLEAN, Receive(c, m, old)
        PROVE  Replies(d)' \subseteq Replies(d)
    <3>1. msgs[c] \in Seq(Message) /\ Len(msgs[c]) <= MaxMsgs /\ m \in Message
      BY DEF TypeInv, TypeOK
    <3>2. \A j \in DOMAIN Push(msgs[c], m, old) :
            \/ Push(msgs[c], m, old)[j] = m
            \/ \E k \in DOMAIN msgs[c] : Push(msgs[c], m, old)[j] = msgs[c][k]
      BY <3>1, Pushed
    <3>3. /\ msgs'[d] = IF d = c THEN Push(msgs[c], m, old) ELSE msgs[d]
          /\ pending'[d] = IF d = c THEN pending[c] \ {m} ELSE pending[d]
      BY <2>1 DEF Receive, TypeInv, TypeOK
    <3>. QED
      BY <3>2, <3>3 DEF Replies
  <2>2. CASE Disconnect(c) \/ Connect(c) \/ TcpClose(c) \/ TcpOpen(c)
    <3>1. msgs' = msgs /\ pending'[d] \subseteq pending[d]
      BY <2>2 DEF Disconnect, Connect, TcpClose, TcpOpen, TypeInv, TypeOK
    <3>. QED
      BY <3>1 DEF Replies
  <2>. QED
    BY <2>1, <2>2 DEF Link
<1>. QED
  BY <1>1, <1>2, Quiet DEF Ahead, Sent, ReplyInv, Composed, OwnReply

LEMMA ReplyNext == TypeInv /\ LockInv /\ ReplyInv /\ [Next]_vars => ReplyInv'
<1>. SUFFICES ASSUME TypeInv, LockInv, ReplyInv, [Next]_vars PROVE ReplyInv'
  OBVIOUS
<1>1. CASE Next
  BY <1>1, ThreadMatches, RequestedMatches, LinkMatches DEF Next
<1>2. CASE UNCHANGED vars
  <2>1. UNCHANGED <<pc, client, req, nextId, made, frame, got, pending, msgs>>
    BY <1>2 DEF vars, threadVars, linkVars
  <2>. QED
    BY <2>1, Quiet DEF Ahead, Replies, Sent, ReplyInv, Composed, OwnReply
<1>. QED
  BY <1>1, <1>2

\* A driver only ever takes the reply to its own request (TcpClient::request
\* looks for the identifier of its frame among replies that may be late),
\* however often it compares the number of the request as well: always if it
\* does, and without it as long as the identifiers have not run out.
THEOREM AlwaysOwnReply == Spec => []OwnReply
<1>1. ReplyInv => OwnReply
  BY DEF ReplyInv
<1>. QED
  BY <1>1, LockInit, LockNext, TypeInit, TypeNext, ReplyInit, ReplyNext, PTL DEF Spec

-----------------------------------------------------------------------------
(* The exchange of requests and replies, as RequestReply promises it.        *)

\* The requests that the replies of a list, and the frames of a set, are about.
Listed(list) == { list[i].req : i \in DOMAIN list }
Asked(frames) == { m.req : m \in frames }

\* The requests whose threads have not written them yet.
InHands == { req[t] : t \in Ahead }

\* No list holds two replies to a request.
Distinct(list) ==
  \A i, j \in DOMAIN list : list[i].req = list[j].req => i = j

\* A request has one thread.
Numbered ==
  /\ \A t \in Threads : req[t] <= made
  /\ \A s, t \in Threads : req[s] = req[t] /\ req[t] # 0 => s = t

\* A request is in one place at most.
Apart ==
  \A c, d \in Clients :
    /\ Asked(pending[c]) \subseteq 1 .. made
    /\ Listed(msgs[c]) \subseteq 1 .. made
    /\ InHands \cap (Asked(pending[c]) \cup Listed(msgs[c])) = {}
    /\ Asked(pending[c]) \cap Listed(msgs[d]) = {}
    /\ c # d => /\ Asked(pending[c]) \cap Asked(pending[d]) = {}
               /\ Listed(msgs[c]) \cap Listed(msgs[d]) = {}

\* It is there once.
Once ==
  \A c \in Clients :
    /\ Distinct(msgs[c])
    /\ \A m, n \in pending[c] : m.req = n.req => m = n

PlaceInv == Numbered /\ Apart /\ Once

LEMMA RemovedOnce ==
  ASSUME NEW list \in Seq(Message), NEW i \in DOMAIN list, Distinct(list)
  PROVE  /\ Distinct(RemoveAt(list, i))
         /\ Listed(RemoveAt(list, i)) = Listed(list) \ {list[i].req}
<1>. DEFINE rest == RemoveAt(list, i)
            From(j) == IF j <= i - 1 THEN j ELSE j + 1
<1>1. /\ Len(list) \in Nat /\ i \in 1 .. Len(list) /\ DOMAIN list = 1 .. Len(list)
      /\ DOMAIN rest = 1 .. Len(list) - 1
      /\ \A j \in 1 .. Len(list) - 1 : rest[j] = list[From(j)]
  BY Removed, LenProperties
<1>. HIDE DEF rest
<1>2. \A j \in 1 .. Len(list) - 1 : From(j) \in 1 .. Len(list) /\ From(j) # i
  BY <1>1
<1>3. \A j, k \in 1 .. Len(list) - 1 : From(j) = From(k) => j = k
  BY <1>1
<1>4. ASSUME NEW k \in 1 .. Len(list), k # i
      PROVE  \E j \in 1 .. Len(list) - 1 : k = From(j)
  <2>1. CASE k < i
    BY <1>1, <1>4, <2>1
  <2>2. CASE k > i
    <3>1. k - 1 \in 1 .. Len(list) - 1 /\ k = From(k - 1)
      BY <1>1, <1>4, <2>2
    <3>. QED
      BY <3>1
  <2>. QED
    BY <1>1, <1>4, <2>1, <2>2
<1>. HIDE DEF From
<1>5. Distinct(rest)
  BY <1>1, <1>2, <1>3 DEF Distinct
<1>6. Listed(rest) \subseteq Listed(list) \ {list[i].req}
  BY <1>1, <1>2 DEF Listed, Distinct
<1>7. ASSUME NEW r \in Listed(list), r # list[i].req PROVE r \in Listed(rest)
  <2>1. PICK k \in 1 .. Len(list) : r = list[k].req
    BY <1>1 DEF Listed
  <2>2. PICK j \in 1 .. Len(list) - 1 : k = From(j)
    BY <1>4, <1>7, <2>1
  <2>3. r = rest[j].req /\ j \in DOMAIN rest
    BY <1>1, <2>1, <2>2
  <2>. QED
    BY <2>3 DEF Listed
<1>. QED
  BY <1>5, <1>6, <1>7 DEF rest

\* One reply comes to the list, and the oldest goes if it has to.
LEMMA PushedOnce ==
  ASSUME NEW list \in Seq(Message), Len(list) <= MaxMsgs, Distinct(list),
         NEW m \in Message, m.req \notin Listed(list), NEW old \in BOOLEAN
  PROVE  /\ Distinct(Push(list, m, old))
         /\ \/ Listed(Push(list, m, old)) = Listed(list) \cup {m.req}
            \/ \E q \in Listed(list) :
                 Listed(Push(list, m, old)) = (Listed(list) \ {q}) \cup {m.req}
<1>. DEFINE kept == IF list # <<>> /\ (old \/ Len(list) >= MaxMsgs) THEN Tail(list) ELSE list
<1>1. Len(list) \in Nat /\ DOMAIN list = 1 .. Len(list)
  BY LenProperties
<1>2. /\ kept \in Seq(Message) /\ Distinct(kept)
      /\ \/ Listed(kept) = Listed(list)
         \/ \E q \in Listed(list) : Listed(kept) = Listed(list) \ {q}
  <2>1. CASE list # <<>> /\ (old \/ Len(list) >= MaxMsgs)
    <3>1. 1 \in DOMAIN list /\ Tail(list) = RemoveAt(list, 1)
      <4>1. 1 \in 1 .. Len(list)
        BY <1>1, <2>1, EmptySeq
      <4>2. /\ SubSeq(list, 1, 0) = <<>> /\ Tail(list) = SubSeq(list, 2, Len(list))
        BY <2>1, <4>1, <1>1
      <4>3. SubSeq(list, 2, Len(list)) \in Seq(Message)
        BY <2>1, <4>2, HeadTailProperties
      <4>4. RemoveAt(list, 1) = <<>> \o SubSeq(list, 2, Len(list))
        BY <4>2 DEF RemoveAt
      <4>. QED
        BY <1>1, <4>1, <4>2, <4>3, <4>4
    <3>2. kept = RemoveAt(list, 1) /\ list[1].req \in Listed(list)
      BY <2>1, <3>1 DEF Listed
    <3>3. RemoveAt(list, 1) \in Seq(Message)
      BY <3>1, Removed
    <3>4. /\ Distinct(RemoveAt(list, 1))
          /\ Listed(RemoveAt(list, 1)) = Listed(list) \ {list[1].req}
      BY <3>1, RemovedOnce
    <3>. HIDE DEF kept
    <3>. QED
      BY <3>2, <3>3, <3>4
  <2>2. CASE ~(list # <<>> /\ (old \/ Len(list) >= MaxMsgs))
    BY <2>2
  <2>. QED
    BY <2>1, <2>2
<1>3. Push(list, m, old) = Append(kept, m)
  BY DEF Push
<1>. HIDE DEF kept
<1>4. /\ Len(kept) \in Nat /\ DOMAIN kept = 1 .. Len(kept)
      /\ DOMAIN Append(kept, m) = 1 .. Len(kept) + 1
      /\ \A j \in 1 .. Len(kept) : Append(kept, m)[j] = kept[j]
      /\ Append(kept, m)[Len(kept) + 1] = m
  BY <1>2, AppendProperties, LenProperties
<1>5. m.req \notin Listed(kept)
  BY <1>2
<1>6. Distinct(Append(kept, m))
  <2>1. ASSUME NEW j \in 1 .. Len(kept) + 1, NEW k \in 1 .. Len(kept) + 1,
               Append(kept, m)[j].req = Append(kept, m)[k].req
        PROVE  j = k
    <3>1. \A l \in 1 .. Len(kept) : Append(kept, m)[l].req # m.req
      BY <1>4, <1>5 DEF Listed
    <3>2. CASE j \in 1 .. Len(kept) /\ k \in 1 .. Len(kept)
      BY <1>2, <1>4, <2>1, <3>2 DEF Distinct
    <3>3. CASE j = Len(kept) + 1 \/ k = Len(kept) + 1
      BY <1>4, <2>1, <3>1, <3>3
    <3>. QED
      BY <1>4, <3>2, <3>3
  <2>. QED
    BY <1>4, <2>1 DEF Distinct
<1>7. Listed(Append(kept, m)) = Listed(kept) \cup {m.req}
  <2>1. ASSUME NEW r \in Listed(Append(kept, m)) PROVE r \in Listed(kept) \cup {m.req}
    <3>1. PICK j \in 1 .. Len(kept) + 1 : r = Append(kept, m)[j].req
      BY <1>4 DEF Listed
    <3>. QED
      BY <1>4, <3>1 DEF Listed
  <2>2. ASSUME NEW r \in Listed(kept) PROVE r \in Listed(Append(kept, m))
    BY <1>4 DEF Listed
  <2>3. m.req \in Listed(Append(kept, m))
    <3>1. Len(kept) + 1 \in 1 .. Len(kept) + 1
      BY <1>4
    <3>. QED
      BY <1>4, <3>1 DEF Listed
  <2>. QED
    BY <2>1, <2>2, <2>3
<1>. QED
  BY <1>2, <1>3, <1>6, <1>7

\* The requests that are with the boards, and those whose replies are listed.
AtBoards == UNION { Asked(pending[c]) : c \in Clients }
InLists == UNION { Listed(msgs[c]) : c \in Clients }

LEMMA PlaceInit == Init => PlaceInv
<1>. SUFFICES ASSUME Init PROVE PlaceInv
  OBVIOUS
<1>1. InHands = {}
  BY DEF Init, InHands, Ahead
<1>2. \A c \in Clients : Asked(pending[c]) = {} /\ Listed(msgs[c]) = {}
  BY DEF Init, Asked, Listed
<1>3. Numbered
  BY DEF Init, Numbered
<1>4. Apart
  BY <1>1, <1>2 DEF Apart
<1>5. Once
  BY DEF Init, Once, Distinct
<1>. QED
  BY <1>3, <1>4, <1>5 DEF PlaceInv

\* Where no request appears that was not there, nothing comes to be twice.
LEMMA PlaceQuiet ==
  ASSUME PlaceInv, UNCHANGED <<req, made>>, InHands' \subseteq InHands, Once',
         \A c \in Clients : /\ Asked(pending[c])' \subseteq Asked(pending[c])
                            /\ Listed(msgs[c])' \subseteq Listed(msgs[c])
  PROVE  PlaceInv'
<1>1. Numbered'
  BY DEF PlaceInv, Numbered
<1>2. Apart'
  <2>1. ASSUME NEW c \in Clients, NEW d \in Clients
        PROVE  /\ Asked(pending[c])' \subseteq 1 .. made /\ Listed(msgs[c])' \subseteq 1 .. made
               /\ InHands' \cap (Asked(pending[c])' \cup Listed(msgs[c])') = {}
               /\ Asked(pending[c])' \cap Listed(msgs[d])' = {}
               /\ c # d => /\ Asked(pending[c])' \cap Asked(pending[d])' = {}
                          /\ Listed(msgs[c])' \cap Listed(msgs[d])' = {}
    BY DEF PlaceInv, Apart
  <2>. QED
    BY <2>1 DEF Apart
<1>. QED
  BY <1>1, <1>2 DEF PlaceInv

\* A thread moves on without sending.
LEMMA PlaceMoves ==
  ASSUME PlaceInv, UNCHANGED <<req, made, pending, msgs>>, Ahead' \subseteq Ahead
  PROVE  PlaceInv' /\ InHands' \subseteq InHands /\ AtBoards' = AtBoards /\ InLists' = InLists
<1>1. InHands' \subseteq InHands
  BY DEF InHands
<1>2. Once'
  BY DEF PlaceInv, Once
<1>3. \A c \in Clients : Asked(pending[c])' = Asked(pending[c]) /\ Listed(msgs[c])' = Listed(msgs[c])
  BY DEF Asked, Listed
<1>. QED
  BY <1>1, <1>2, <1>3, PlaceQuiet DEF AtBoards, InLists

\* A request has a thread as soon as it has a number.
LEMMA PlaceRequest ==
  ASSUME TypeInv, PlaceInv, NEW t \in Threads, NEW c \in Clients, Request(t, c)
  PROVE  /\ PlaceInv'
         /\ InHands' = InHands \cup {made + 1} /\ AtBoards' = AtBoards /\ InLists' = InLists
<1>1. /\ pc[t] = "idle" /\ pc' = [pc EXCEPT ![t] = "lock"]
      /\ made' = made + 1 /\ req' = [req EXCEPT ![t] = made + 1]
      /\ UNCHANGED <<pending, msgs>>
  BY DEF Request, Goto, linkVars
<1>2. made \in Nat /\ \A s \in Threads : req[s] \in Nat /\ req[s] <= made
  BY DEF TypeInv, TypeOK, PlaceInv, Numbered
<1>3. /\ t \notin Ahead /\ Ahead' = Ahead \cup {t}
      /\ req'[t] = made + 1 /\ \A s \in Threads \ {t} : req'[s] = req[s]
  BY <1>1 DEF Ahead, TypeInv, TypeOK
<1>4. InHands' = InHands \cup {made + 1}
  BY <1>3 DEF InHands, Ahead
<1>5. \A d \in Clients : Asked(pending[d])' = Asked(pending[d]) /\ Listed(msgs[d])' = Listed(msgs[d])
  BY <1>1 DEF Asked, Listed
<1>6. Numbered'
  <2>1. \A s \in Threads : req'[s] <= made'
    BY <1>1, <1>2, <1>3
  <2>2. ASSUME NEW s \in Threads, NEW u \in Threads, req'[s] = req'[u], req'[u] # 0
        PROVE  s = u
    BY <1>2, <1>3, <2>2 DEF PlaceInv, Numbered
  <2>. QED
    BY <2>1, <2>2 DEF Numbered
<1>7. Apart'
  <2>1. 1 .. made \subseteq 1 .. made' /\ made + 1 \notin 1 .. made
    BY <1>1, <1>2
  <2>2. ASSUME NEW d \in Clients, NEW e \in Clients
        PROVE  /\ Asked(pending[d])' \subseteq 1 .. made' /\ Listed(msgs[d])' \subseteq 1 .. made'
               /\ InHands' \cap (Asked(pending[d])' \cup Listed(msgs[d])') = {}
               /\ Asked(pending[d])' \cap Listed(msgs[e])' = {}
               /\ d # e => /\ Asked(pending[d])' \cap Asked(pending[e])' = {}
                          /\ Listed(msgs[d])' \cap Listed(msgs[e])' = {}
    BY <1>4, <1>5, <2>1 DEF PlaceInv, Apart
  <2>. QED
    BY <2>2 DEF Apart
<1>8. Once'
  BY <1>1 DEF PlaceInv, Once
<1>. QED
  BY <1>4, <1>5, <1>6, <1>7, <1>8 DEF PlaceInv, AtBoards, InLists

\* It leaves its thread for the board, or is lost.
LEMMA PlaceWrite ==
  ASSUME TypeInv, PlaceInv, NEW t \in Threads, Write(t)
  PROVE  /\ PlaceInv'
         /\ req[t] \in InHands /\ InHands' = InHands \ {req[t]} /\ InLists' = InLists
         /\ AtBoards' = AtBoards \/ AtBoards' = AtBoards \cup {req[t]}
<1>. DEFINE c == client[t]
            r == req[t]
            m == [id |-> frame[t], req |-> req[t]]
<1>1. /\ pc[t] = "write" /\ pc' = [pc EXCEPT ![t] = "unlock"]
      /\ pending' = [pending EXCEPT ![c] = @ \cup {m}] \/ pending' = pending
      /\ UNCHANGED <<req, msgs, made>>
  BY DEF Write, Goto
<1>2. c \in Clients /\ r \in Nat /\ r # 0 /\ r <= made /\ made \in Nat
  BY <1>1 DEF TypeInv, TypeOK, Started, PlaceInv, Numbered
<1>3. t \in Ahead /\ Ahead' = Ahead \ {t}
  BY <1>1 DEF Ahead, TypeInv, TypeOK
<1>4. r \in InHands /\ InHands' = InHands \ {r}
  <2>1. \A s \in Ahead : req[s] = r <=> s = t
    BY <1>2 DEF Ahead, PlaceInv, Numbered
  <2>. HIDE DEF r
  <2>2. r = req[t]
    BY DEF r
  <2>. QED
    BY <1>1, <1>3, <2>1, <2>2 DEF InHands
<1>5. \A d \in Clients : r \notin Asked(pending[d]) /\ r \notin Listed(msgs[d])
  BY <1>4 DEF PlaceInv, Apart
<1>. HIDE DEF c, r
<1>6. \A d \in Clients : Listed(msgs[d])' = Listed(msgs[d])
  BY <1>1 DEF Listed
<1>7. /\ InLists' = InLists
      /\ \A d \in Clients : Listed(msgs[d])' = Listed(msgs[d]) /\ Distinct(msgs[d])'
  BY <1>1, <1>6 DEF InLists, PlaceInv, Once
<1>8. CASE pending' = pending
  <2>1. \A d \in Clients : Asked(pending[d])' = Asked(pending[d])
    BY <1>8 DEF Asked
  <2>2. Once'
    BY <1>1, <1>8 DEF PlaceInv, Once
  <2>3. PlaceInv'
    BY <1>1, <1>4, <1>7, <2>1, <2>2, PlaceQuiet
  <2>. QED
    BY <1>4, <1>7, <2>1, <2>3 DEF AtBoards, r
<1>9. CASE pending' = [pending EXCEPT ![c] = @ \cup {m}]
  <2>. HIDE DEF m
  <2>1. \A d \in Clients : pending'[d] = IF d = c THEN pending[d] \cup {m} ELSE pending[d]
    BY <1>2, <1>9 DEF TypeInv, TypeOK
  <2>2. m.req = r
    BY DEF m, r
  <2>3. \A d \in Clients : Asked(pending[d])' =
                             IF d = c THEN Asked(pending[d]) \cup {r} ELSE Asked(pending[d])
    BY <2>1, <2>2 DEF Asked
  <2>4. Once'
    <3>1. ASSUME NEW d \in Clients, NEW n \in pending'[d], NEW k \in pending'[d], n.req = k.req
          PROVE  n = k
      <4>1. \A x \in pending[d] : x.req # r
        BY <1>5 DEF Asked
      <4>2. \A x, y \in pending[d] : x.req = y.req => x = y
        BY DEF PlaceInv, Once
      <4>3. (n \in pending[d] \/ n = m) /\ (k \in pending[d] \/ k = m)
        BY <2>1, <3>1
      <4>. QED
        BY <2>2, <3>1, <4>1, <4>2, <4>3
    <3>. QED
      BY <1>7, <3>1 DEF Once
  <2>5. Numbered'
    BY <1>1 DEF PlaceInv, Numbered
  <2>6. Apart'
    <3>1. r \in 1 .. made
      BY <1>2
    <3>2. ASSUME NEW d \in Clients, NEW e \in Clients
          PROVE  /\ Asked(pending[d])' \subseteq 1 .. made' /\ Listed(msgs[d])' \subseteq 1 .. made'
                 /\ InHands' \cap (Asked(pending[d])' \cup Listed(msgs[d])') = {}
                 /\ Asked(pending[d])' \cap Listed(msgs[e])' = {}
                 /\ d # e => /\ Asked(pending[d])' \cap Asked(pending[e])' = {}
                            /\ Listed(msgs[d])' \cap Listed(msgs[e])' = {}
      <4>1. /\ Asked(pending[d]) \subseteq 1 .. made /\ Listed(msgs[d]) \subseteq 1 .. made
            /\ InHands \cap (Asked(pending[d]) \cup Listed(msgs[d])) = {}
            /\ Asked(pending[d]) \cap Listed(msgs[e]) = {}
            /\ d # e => /\ Asked(pending[d]) \cap Asked(pending[e]) = {}
                       /\ Listed(msgs[d]) \cap Listed(msgs[e]) = {}
        BY DEF PlaceInv, Apart
      <4>2. Listed(msgs[d])' = Listed(msgs[d]) /\ Listed(msgs[e])' = Listed(msgs[e]) /\ made' = made
        BY <1>1, <1>7
      <4>3. /\ Asked(pending[d])' = IF d = c THEN Asked(pending[d]) \cup {r} ELSE Asked(pending[d])
            /\ Asked(pending[e])' = IF e = c THEN Asked(pending[e]) \cup {r} ELSE Asked(pending[e])
            /\ r \notin Asked(pending[d]) /\ r \notin Asked(pending[e])
            /\ r \notin Listed(msgs[d]) /\ r \notin Listed(msgs[e])
        BY <1>5, <2>3
      <4>. QED
        BY <1>4, <3>1, <4>1, <4>2, <4>3
    <3>. QED
      BY <3>2 DEF Apart
  <2>7. AtBoards' = AtBoards \cup {r}
    BY <1>2, <2>3 DEF AtBoards
  <2>. QED
    BY <1>4, <1>7, <2>4, <2>5, <2>6, <2>7 DEF PlaceInv, r
<1>. QED
  BY <1>1, <1>8, <1>9

\* Its reply goes from the board to the list, where another may have to go.
LEMMA PlaceReceive ==
  ASSUME TypeInv, PlaceInv, NEW c \in Clients, NEW m \in pending[c], NEW old \in BOOLEAN,
         Receive(c, m, old)
  PROVE  /\ PlaceInv'
         /\ m.req \in AtBoards /\ AtBoards' = AtBoards \ {m.req} /\ InHands' = InHands
         /\ \/ InLists' = InLists \cup {m.req}
            \/ \E q \in InLists : InLists' = (InLists \ {q}) \cup {m.req}
<1>. DEFINE r == m.req
<1>1. /\ pending' = [pending EXCEPT ![c] = @ \ {m}]
      /\ msgs' = [msgs EXCEPT ![c] = Push(msgs[c], m, old)]
      /\ UNCHANGED <<req, pc, made>>
  BY DEF Receive, threadVars
<1>2. /\ m \in Message /\ msgs[c] \in Seq(Message) /\ Len(msgs[c]) <= MaxMsgs
      /\ Distinct(msgs[c])
  BY DEF TypeInv, TypeOK, PlaceInv, Once
<1>3. r \in Asked(pending[c]) /\ r \in 1 .. made
  BY DEF Asked, PlaceInv, Apart
<1>. HIDE DEF r
<1>4. /\ \A d \in Clients : r \notin Listed(msgs[d])
      /\ \A d \in Clients : d # c => r \notin Asked(pending[d])
      /\ r \notin InHands
  BY <1>3 DEF PlaceInv, Apart
<1>5. /\ Distinct(Push(msgs[c], m, old))
      /\ \/ Listed(Push(msgs[c], m, old)) = Listed(msgs[c]) \cup {r}
         \/ \E q \in Listed(msgs[c]) :
              Listed(Push(msgs[c], m, old)) = (Listed(msgs[c]) \ {q}) \cup {r}
  BY <1>2, <1>4, PushedOnce DEF r
<1>6. /\ \A d \in Clients : pending'[d] = IF d = c THEN pending[c] \ {m} ELSE pending[d]
      /\ \A d \in Clients : msgs'[d] = IF d = c THEN Push(msgs[c], m, old) ELSE msgs[d]
  BY <1>1 DEF TypeInv, TypeOK
<1>7. \A d \in Clients : Asked(pending[d])' =
                           IF d = c THEN Asked(pending[c]) \ {r} ELSE Asked(pending[d])
  <2>1. \A x \in pending[c] : x # m => x.req # r
    BY DEF PlaceInv, Once, r
  <2>2. Asked(pending[c] \ {m}) = Asked(pending[c]) \ {r}
    BY <2>1 DEF Asked, r
  <2>3. \A d \in Clients : Asked(pending[d])' = Asked(pending'[d])
    BY DEF Asked
  <2>. QED
    BY <1>6, <2>2, <2>3
<1>8. \A d \in Clients : Listed(msgs[d])' =
                           IF d = c THEN Listed(Push(msgs[c], m, old)) ELSE Listed(msgs[d])
  <2>1. \A d \in Clients : Listed(msgs[d])' = Listed(msgs'[d])
    BY DEF Listed
  <2>. QED
    BY <1>6, <2>1
<1>9. \A d \in Clients : Listed(msgs[d])' \subseteq Listed(msgs[d]) \cup (IF d = c THEN {r} ELSE {})
  BY <1>5, <1>8
<1>10. InHands' = InHands
  BY <1>1 DEF InHands, Ahead
<1>11. Numbered'
  BY <1>1 DEF PlaceInv, Numbered
<1>12. Apart'
  <2>1. ASSUME NEW d \in Clients, NEW e \in Clients
        PROVE  /\ Asked(pending[d])' \subseteq 1 .. made' /\ Listed(msgs[d])' \subseteq 1 .. made'
               /\ InHands' \cap (Asked(pending[d])' \cup Listed(msgs[d])') = {}
               /\ Asked(pending[d])' \cap Listed(msgs[e])' = {}
               /\ d # e => /\ Asked(pending[d])' \cap Asked(pending[e])' = {}
                          /\ Listed(msgs[d])' \cap Listed(msgs[e])' = {}
    <3>1. /\ Asked(pending[d]) \subseteq 1 .. made /\ Listed(msgs[d]) \subseteq 1 .. made
          /\ InHands \cap (Asked(pending[d]) \cup Listed(msgs[d])) = {}
          /\ Asked(pending[d]) \cap Listed(msgs[e]) = {}
          /\ d # e => /\ Asked(pending[d]) \cap Asked(pending[e]) = {}
                     /\ Listed(msgs[d]) \cap Listed(msgs[e]) = {}
      BY DEF PlaceInv, Apart
    <3>2. /\ Asked(pending[d])' \subseteq Asked(pending[d]) /\ r \notin Asked(pending[d])'
          /\ Asked(pending[e])' \subseteq Asked(pending[e]) /\ r \notin Asked(pending[e])'
      BY <1>4, <1>7
    <3>3. /\ Listed(msgs[d])' \subseteq Listed(msgs[d]) \cup (IF d = c THEN {r} ELSE {})
          /\ Listed(msgs[e])' \subseteq Listed(msgs[e]) \cup (IF e = c THEN {r} ELSE {})
          /\ r \notin Listed(msgs[d]) /\ r \notin Listed(msgs[e])
      BY <1>4, <1>9
    <3>4. made' = made
      BY <1>1
    <3>. QED
      BY <1>3, <1>4, <1>10, <3>1, <3>2, <3>3, <3>4
  <2>. QED
    BY <2>1 DEF Apart
<1>13. Once'
  <2>1. \A d \in Clients : pending'[d] \subseteq pending[d]
    BY <1>6
  <2>2. \A d \in Clients : Distinct(msgs[d])'
    <3>1. \A d \in Clients : Distinct(msgs[d])' = Distinct(msgs'[d])
      BY DEF Distinct
    <3>2. \A d \in Clients : Distinct(msgs[d])
      BY DEF PlaceInv, Once
    <3>. QED
      BY <1>5, <1>6, <3>1, <3>2
  <2>. QED
    BY <2>1, <2>2 DEF PlaceInv, Once
<1>14. r \in AtBoards /\ AtBoards' = AtBoards \ {r}
  BY <1>3, <1>4, <1>7 DEF AtBoards
<1>15. \/ InLists' = InLists \cup {r}
       \/ \E q \in InLists : InLists' = (InLists \ {q}) \cup {r}
  <2>1. CASE Listed(Push(msgs[c], m, old)) = Listed(msgs[c]) \cup {r}
    BY <1>8, <2>1 DEF InLists
  <2>2. ASSUME NEW q \in Listed(msgs[c]),
               Listed(Push(msgs[c], m, old)) = (Listed(msgs[c]) \ {q}) \cup {r}
        PROVE  q \in InLists /\ InLists' = (InLists \ {q}) \cup {r}
    <3>1. \A d \in Clients : d # c => q \notin Listed(msgs[d])
      BY <2>2 DEF PlaceInv, Apart
    <3>. QED
      BY <1>8, <2>2, <3>1 DEF InLists
  <2>. QED
    BY <1>5, <2>1, <2>2
<1>. QED
  BY <1>10, <1>11, <1>12, <1>13, <1>14, <1>15 DEF PlaceInv, r

\* A thread takes the reply to request q.
LEMMA PlaceTake ==
  ASSUME TypeInv, PlaceInv, NEW t \in Threads, TakeReply(t),
         NEW i \in DOMAIN msgs[client[t]],
         msgs' = [msgs EXCEPT ![client[t]] = RemoveAt(msgs[client[t]], i)]
  PROVE  /\ PlaceInv'
         /\ msgs[client[t]][i].req \in InLists /\ InLists' = InLists \ {msgs[client[t]][i].req}
         /\ InHands' = InHands /\ AtBoards' = AtBoards
<1>. DEFINE c == client[t]
            list == msgs[client[t]]
            q == msgs[client[t]][i].req
<1>1. /\ pc[t] = "poll" /\ pc' = [pc EXCEPT ![t] = "idle"]
      /\ UNCHANGED <<req, made, pending>>
  BY DEF TakeReply, Goto
<1>2. c \in Clients /\ list \in Seq(Message) /\ Distinct(list)
  BY DEF TypeInv, TypeOK, PlaceInv, Once
<1>3. /\ Distinct(RemoveAt(list, i)) /\ Listed(RemoveAt(list, i)) = Listed(list) \ {q}
      /\ q \in Listed(list)
  BY <1>2, RemovedOnce DEF Listed
<1>4. \A d \in Clients : msgs'[d] = IF d = c THEN RemoveAt(list, i) ELSE msgs[d]
  BY <1>2 DEF TypeInv, TypeOK
<1>. HIDE DEF c, q
<1>5. \A d \in Clients : Listed(msgs[d])' = IF d = c THEN Listed(msgs[d]) \ {q} ELSE Listed(msgs[d])
  <2>1. \A d \in Clients : Listed(msgs[d])' = Listed(msgs'[d])
    BY DEF Listed
  <2>. QED
    BY <1>3, <1>4, <2>1 DEF c
<1>6. \A d \in Clients : Asked(pending[d])' = Asked(pending[d])
  BY <1>1 DEF Asked
<1>7. InHands' = InHands
  BY <1>1 DEF InHands, Ahead, TypeInv, TypeOK
<1>8. Once'
  <2>1. \A d \in Clients : Distinct(msgs[d])' = Distinct(msgs'[d])
    BY DEF Distinct
  <2>2. \A d \in Clients : Distinct(msgs[d])
    BY DEF PlaceInv, Once
  <2>. QED
    BY <1>1, <1>3, <1>4, <2>1, <2>2 DEF PlaceInv, Once
<1>9. PlaceInv'
  <2>1. ASSUME NEW d \in Clients
        PROVE  /\ Asked(pending[d])' \subseteq Asked(pending[d])
               /\ Listed(msgs[d])' \subseteq Listed(msgs[d])
    <3>1. Listed(msgs[d])' = Listed(msgs[d]) \ {q} \/ Listed(msgs[d])' = Listed(msgs[d])
      BY <1>5, Zenon
    <3>. QED
      BY <1>6, <3>1, Zenon
  <2>2. UNCHANGED <<req, made>> /\ InHands' \subseteq InHands
    BY <1>1, <1>7
  <2>. QED
    BY <1>8, <2>1, <2>2, PlaceQuiet
<1>10. q \in InLists /\ InLists' = InLists \ {q}
  <2>1. q \in Listed(msgs[c])
    BY <1>3 DEF c
  <2>2. \A d \in Clients : d # c => q \notin Listed(msgs[d])
    BY <1>2, <2>1 DEF PlaceInv, Apart
  <2>3. c \in Clients
    BY <1>2
  <2>4. \A d \in Clients : Listed(msgs[d])' = Listed(msgs[d]) \ {q}
    BY <1>5, <2>2
  <2>. QED
    BY <2>1, <2>3, <2>4 DEF InLists
<1>. QED
  BY <1>6, <1>7, <1>9, <1>10 DEF AtBoards, q

\* What a connection takes with it is lost.
LEMMA PlaceDisconnect ==
  ASSUME TypeInv, PlaceInv, NEW c \in Clients, Disconnect(c)
  PROVE  /\ PlaceInv'
         /\ Asked(pending[c]) \subseteq AtBoards /\ AtBoards' = AtBoards \ Asked(pending[c])
         /\ InHands' = InHands /\ InLists' = InLists
<1>1. pending' = [pending EXCEPT ![c] = {}] /\ UNCHANGED <<pc, req, made, msgs>>
  BY DEF Disconnect, threadVars
<1>2. \A d \in Clients : pending'[d] = IF d = c THEN {} ELSE pending[d]
  BY <1>1 DEF TypeInv, TypeOK
<1>3. \A d \in Clients : /\ Asked(pending[d])' = IF d = c THEN {} ELSE Asked(pending[d])
                         /\ Listed(msgs[d])' = Listed(msgs[d])
  BY <1>1, <1>2 DEF Asked, Listed
<1>4. InHands' = InHands
  BY <1>1 DEF InHands, Ahead
<1>5. Once'
  BY <1>1, <1>2 DEF PlaceInv, Once
<1>6. PlaceInv'
  BY <1>1, <1>3, <1>4, <1>5, PlaceQuiet
<1>7. AtBoards' = AtBoards \ Asked(pending[c])
  <2>1. \A d \in Clients : d # c => Asked(pending[d]) \cap Asked(pending[c]) = {}
    BY DEF PlaceInv, Apart
  <2>. QED
    BY <1>3, <2>1 DEF AtBoards
<1>. QED
  BY <1>3, <1>4, <1>6, <1>7 DEF AtBoards, InLists

\* A thread in request has no reply yet.
Empty == \A t \in Threads : pc[t] # "idle" => got[t] = 0

\* All that the exchange rests on.
ExchangeInv == TypeInv /\ LockInv /\ ReplyInv /\ PlaceInv /\ Empty

\* The fate of request r when n were made, from where the requests are.
FateOf(r, n, hands, boards, lists) ==
  IF r > n THEN "new"
  ELSE IF r \in hands THEN "made"
  ELSE IF r \in boards THEN "sent"
  ELSE IF r \in lists THEN "answered"
  ELSE "gone"

LEMMA FateIs ==
  TypeInv /\ PlaceInv =>
    \A r \in 1 .. MaxRequests : Fate(r) = FateOf(r, made, InHands, AtBoards, InLists)
<1>. SUFFICES ASSUME TypeInv, PlaceInv, NEW r \in 1 .. MaxRequests
              PROVE  Fate(r) = FateOf(r, made, InHands, AtBoards, InLists)
  OBVIOUS
<1>1. (\E t \in Threads : req[t] = r /\ pc[t] \in {"lock", "claim", "compose", "write"})
        <=> r \in InHands
  BY DEF InHands, Ahead
<1>2. (\E c \in Clients : \E m \in pending[c] : m.req = r) <=> r \in AtBoards
  BY DEF AtBoards, Asked
<1>3. (\E c \in Clients : \E i \in DOMAIN msgs[c] : msgs[c][i].req = r) <=> r \in InLists
  BY DEF InLists, Listed
<1>4. /\ r \in InHands => ~(r > made) /\ r \notin AtBoards /\ r \notin InLists
      /\ r \in AtBoards => ~(r > made) /\ r \notin InLists
      /\ r \in InLists => ~(r > made)
  <2>1. made \in Nat /\ \A t \in Threads : req[t] \in Nat
    BY DEF TypeInv, TypeOK
  <2>2. \A c, d \in Clients :
          /\ r \in Asked(pending[c]) => r \in 1 .. made /\ r \notin InHands /\ r \notin Listed(msgs[d])
          /\ r \in Listed(msgs[c]) => r \in 1 .. made /\ r \notin InHands
    BY DEF PlaceInv, Apart
  <2>3. r \in AtBoards => \E c \in Clients : r \in Asked(pending[c])
    BY DEF AtBoards
  <2>4. r \in InLists => \E c \in Clients : r \in Listed(msgs[c])
    BY DEF InLists
  <2>5. r \in InHands => ~(r > made)
    BY <2>1 DEF InHands, Ahead, PlaceInv, Numbered
  <2>6. r \in 1 .. made => ~(r > made)
    BY <2>1
  <2>. QED
    BY <2>2, <2>3, <2>4, <2>5, <2>6
<1>5. Fate(r) = CASE r > made -> "new"
                  [] r \in InHands -> "made"
                  [] r \in AtBoards -> "sent"
                  [] r \in InLists -> "answered"
                  [] OTHER -> "gone"
  BY <1>1, <1>2, <1>3 DEF Fate
<1>. QED
  BY <1>4, <1>5 DEF FateOf

LEMMA FateIsNext ==
  (TypeInv /\ PlaceInv)' =>
    (\A r \in 1 .. MaxRequests : Fate(r) = FateOf(r, made, InHands, AtBoards, InLists))'
BY FateIs, PTL

\* A request is with its thread exactly as long as that has not written it.
LEMMA HandsOfThread ==
  ASSUME TypeInv, PlaceInv, NEW t \in Threads, pc[t] # "idle"
  PROVE  /\ req[t] \in 1 .. made /\ req[t] \in 1 .. MaxRequests
         /\ req[t] \in InHands <=> t \in Ahead
<1>1. /\ req[t] \in Nat /\ req[t] # 0 /\ req[t] <= made
      /\ made \in Nat /\ made <= MaxRequests /\ MaxRequests \in Nat
  BY CountsAssumption DEF TypeInv, TypeOK, Started, PlaceInv, Numbered
<1>2. \A s \in Threads : req[s] = req[t] => s = t
  BY <1>1 DEF PlaceInv, Numbered
<1>. QED
  BY <1>1, <1>2 DEF InHands, Ahead

LEMMA ExchangeInit == Init => ExchangeInv /\ Exchange!Init
<1>. SUFFICES ASSUME Init PROVE ExchangeInv /\ Exchange!Init
  OBVIOUS
<1>1. ExchangeInv
  <2>1. Empty
    BY DEF Init, Empty
  <2>. QED
    BY <2>1, TypeInit, LockInit, ReplyInit, PlaceInit DEF ExchangeInv
<1>2. \A r \in 1 .. MaxRequests : Fate(r) = "new"
  <2>1. \A r \in 1 .. MaxRequests : r > made
    BY DEF Init
  <2>. QED
    BY <1>1, <2>1, FateIs DEF ExchangeInv, FateOf
<1>3. [t \in Threads |-> IF pc[t] = "idle" THEN 0 ELSE req[t]] = [t \in Threads |-> 0]
  BY DEF Init
<1>4. [r \in 1 .. MaxRequests |-> Fate(r)] = [r \in 1 .. MaxRequests |-> "new"]
  BY <1>2
<1>5. got = [t \in Threads |-> 0]
  BY DEF Init
<1>. QED
  BY <1>1, <1>3, <1>4, <1>5 DEF Exchange!Init, Exchange!None, Exchange!Numbers

\* A thread that goes on without writing or taking a reply.
Moves(t) == Lock(t) \/ Claim(t) \/ Compose(t) \/ Unlock(t) \/ KeepWaiting(t)

\* A connection that neither brings nor loses anything.
Opens(c) == Connect(c) \/ TcpClose(c) \/ TcpOpen(c)

LEMMA MovesQuietly ==
  ASSUME TypeInv, LockInv, PlaceInv, NEW t \in Threads, Moves(t)
  PROVE  /\ PlaceInv' /\ InHands' = InHands /\ AtBoards' = AtBoards /\ InLists' = InLists
         /\ UNCHANGED <<req, made, got>>
<1>1. UNCHANGED <<req, made, got, pending, msgs>>
  BY DEF Moves, Lock, Claim, Compose, Unlock, KeepWaiting, linkVars
<1>2. pc \in [Threads -> {"idle", "lock", "claim", "compose", "write", "unlock", "poll"}]
  BY DEF TypeInv, TypeOK
<1>3. Ahead' = Ahead
  <2>1. CASE Lock(t)
    BY <1>2, <2>1 DEF Lock, Goto, Ahead
  <2>2. CASE Claim(t)
    <3>1. pc[t] = "claim" /\ pc' = [pc EXCEPT ![t] = "compose"]
      BY <2>2, FoundFree DEF Claim, Goto
    <3>. QED
      BY <1>2, <3>1 DEF Ahead
  <2>3. CASE Compose(t)
    BY <1>2, <2>3 DEF Compose, Goto, Ahead
  <2>4. CASE Unlock(t)
    BY <1>2, <2>4 DEF Unlock, Goto, Ahead
  <2>5. CASE KeepWaiting(t)
    <3>1. pc[t] = "poll" /\ \E w \in {"idle", "poll"} : pc' = [pc EXCEPT ![t] = w]
      BY <2>5 DEF KeepWaiting, Goto
    <3>. QED
      BY <1>2, <3>1 DEF Ahead
  <2>. QED
    BY <2>1, <2>2, <2>3, <2>4, <2>5 DEF Moves
<1>4. InHands' = InHands
  BY <1>1, <1>3 DEF InHands
<1>. QED
  BY <1>1, <1>3, <1>4, PlaceMoves

LEMMA OpensQuietly ==
  ASSUME PlaceInv, NEW c \in Clients, Opens(c)
  PROVE  /\ PlaceInv' /\ InHands' = InHands /\ AtBoards' = AtBoards /\ InLists' = InLists
         /\ UNCHANGED <<pc, req, made, got>>
<1>1. UNCHANGED <<pc, req, made, got, pending, msgs>>
  BY DEF Opens, Connect, TcpClose, TcpOpen, threadVars
<1>2. Ahead' = Ahead /\ InHands' = InHands
  BY <1>1 DEF Ahead, InHands
<1>. QED
  BY <1>1, <1>2, PlaceMoves

LEMMA PlaceNext == TypeInv /\ LockInv /\ PlaceInv /\ [Next]_vars => PlaceInv'
<1>. SUFFICES ASSUME TypeInv, LockInv, PlaceInv, [Next]_vars PROVE PlaceInv'
  OBVIOUS
<1>1. ASSUME NEW t \in Threads, Continue(t) PROVE PlaceInv'
  <2>1. CASE Moves(t)
    BY <2>1, MovesQuietly
  <2>2. CASE Write(t)
    BY <2>2, PlaceWrite
  <2>3. CASE TakeReply(t)
    <3>1. PICK i \in DOMAIN msgs[client[t]] :
            msgs' = [msgs EXCEPT ![client[t]] = RemoveAt(msgs[client[t]], i)]
      BY <2>3 DEF TakeReply
    <3>. QED
      BY <2>3, <3>1, PlaceTake
  <2>. QED
    BY <1>1, <2>1, <2>2, <2>3 DEF Continue, Moves
<1>2. ASSUME NEW c \in Clients, Link(c) PROVE PlaceInv'
  BY <1>2, PlaceReceive, PlaceDisconnect, OpensQuietly DEF Link, Opens
<1>3. ASSUME NEW t \in Threads, NEW c \in Clients, Request(t, c) PROVE PlaceInv'
  BY <1>3, PlaceRequest
<1>4. CASE UNCHANGED vars
  <2>1. UNCHANGED <<pc, req, made, pending, msgs>>
    BY <1>4 DEF vars, threadVars, linkVars
  <2>2. Ahead' = Ahead
    BY <2>1 DEF Ahead
  <2>. QED
    BY <2>1, <2>2, PlaceMoves
<1>. QED
  BY <1>1, <1>2, <1>3, <1>4 DEF Next

LEMMA EmptyNext == TypeInv /\ Empty /\ [Next]_vars => Empty'
<1>. SUFFICES ASSUME TypeInv, Empty, [Next]_vars PROVE Empty'
  OBVIOUS
<1>1. /\ pc \in [Threads -> {"idle", "lock", "claim", "compose", "write", "unlock", "poll"}]
      /\ got \in [Threads -> 0 .. MaxRequests]
  BY DEF TypeInv, TypeOK
<1>2. ASSUME NEW t \in Threads, Continue(t) PROVE Empty'
  <2>1. CASE TakeReply(t)
    <3>1. pc' = [pc EXCEPT ![t] = "idle"] /\ \A s \in Threads \ {t} : got'[s] = got[s]
      BY <1>1, <2>1 DEF TakeReply, Goto
    <3>. QED
      BY <1>1, <3>1 DEF Empty
  <2>2. CASE ~TakeReply(t)
    <3>1. /\ pc[t] # "idle" /\ got' = got
          /\ \A s \in Threads \ {t} : pc'[s] = pc[s]
      BY <1>1, <1>2, <2>2
         DEF Continue, Lock, Claim, Compose, Write, Unlock, KeepWaiting, Goto
    <3>. QED
      BY <1>1, <3>1 DEF Empty
  <2>. QED
    BY <2>1, <2>2
<1>3. ASSUME NEW c \in Clients, Link(c) PROVE Empty'
  <2>1. UNCHANGED <<pc, got>>
    BY <1>3 DEF Link, Receive, Disconnect, Connect, TcpClose, TcpOpen, threadVars
  <2>. QED
    BY <2>1 DEF Empty
<1>4. ASSUME NEW t \in Threads, NEW c \in Clients, Request(t, c) PROVE Empty'
  BY <1>1, <1>4 DEF Request, Goto, Empty
<1>5. CASE UNCHANGED vars
  BY <1>5 DEF vars, threadVars, Empty
<1>. QED
  BY <1>2, <1>3, <1>4, <1>5 DEF Next

LEMMA ExchangeNext == ExchangeInv /\ [Next]_vars => ExchangeInv'
BY LockNext, TypeNext, ReplyNext, PlaceNext, EmptyNext DEF ExchangeInv

\* The fates before and after a step.
LEMMA Fates ==
  ASSUME ExchangeInv, ExchangeInv'
  PROVE  \A r \in 1 .. MaxRequests :
           /\ Fate(r) = FateOf(r, made, InHands, AtBoards, InLists)
           /\ Fate(r)' = FateOf(r, made', InHands', AtBoards', InLists')
<1>1. \A r \in 1 .. MaxRequests : Fate(r) = FateOf(r, made, InHands, AtBoards, InLists)
  BY FateIs DEF ExchangeInv
<1>2. (\A r \in 1 .. MaxRequests : Fate(r) = FateOf(r, made, InHands, AtBoards, InLists))'
  BY FateIsNext DEF ExchangeInv
<1>3. \A r \in 1 .. MaxRequests : Fate(r)' = FateOf(r, made', InHands', AtBoards', InLists')
  BY <1>2 DEF FateOf
<1>. QED
  BY <1>1, <1>3

LEMMA AsksAbstractly ==
  ASSUME ExchangeInv, ExchangeInv', NEW t \in Threads, NEW c \in Clients, Request(t, c)
  PROVE  \E r \in Exchange!Numbers : Exchange!Ask(t, r)
<1>. DEFINE asks == [s \in Threads |-> IF pc[s] = "idle" THEN 0 ELSE req[s]]
            fate == [r \in 1 .. MaxRequests |-> Fate(r)]
<1>. PICK n \in Nat : n = made + 1
  BY DEF ExchangeInv, TypeInv, TypeOK
<1>1. /\ pc[t] = "idle" /\ pc' = [pc EXCEPT ![t] = "lock"] /\ made < MaxRequests
      /\ made' = n /\ req' = [req EXCEPT ![t] = n] /\ got' = [got EXCEPT ![t] = 0]
  BY DEF Request, Goto
<1>2. made \in Nat /\ MaxRequests \in Nat /\ n \in 1 .. MaxRequests
  BY <1>1, CountsAssumption DEF ExchangeInv, TypeInv, TypeOK
<1>3. InHands' = InHands \cup {n} /\ AtBoards' = AtBoards /\ InLists' = InLists
  BY PlaceRequest DEF ExchangeInv
<1>4. asks[t] = 0 /\ asks' = [asks EXCEPT ![t] = n]
  <2>1. \A s \in Threads : asks'[s] = IF s = t THEN n ELSE asks[s]
    BY <1>1 DEF ExchangeInv, TypeInv, TypeOK
  <2>. QED
    BY <1>1, <2>1
<1>5. \A r \in 1 .. MaxRequests : /\ fate[r] = FateOf(r, made, InHands, AtBoards, InLists)
                                  /\ fate'[r] = FateOf(r, n, InHands \cup {n}, AtBoards, InLists)
  BY <1>1, <1>3, Fates
<1>. HIDE DEF asks, fate
<1>6. fate[n] = "new" /\ \A q \in 1 .. n - 1 : fate[q] # "new"
  BY <1>2, <1>5 DEF FateOf
<1>7. fate' = [fate EXCEPT ![n] = "made"]
  <2>1. fate'[n] = "made"
    BY <1>2, <1>5 DEF FateOf
  <2>2. ASSUME NEW r \in 1 .. MaxRequests, r # n PROVE fate'[r] = fate[r]
    BY <1>2, <1>5, <2>2 DEF FateOf
  <2>. QED
    BY <1>2, <2>1, <2>2 DEF fate
<1>. QED
  BY <1>1, <1>2, <1>4, <1>6, <1>7
     DEF Exchange!Ask, Exchange!Moves, Exchange!None, Exchange!Numbers, asks, fate

LEMMA SendsAbstractly ==
  ASSUME ExchangeInv, ExchangeInv', NEW t \in Threads, Write(t)
  PROVE  req[t] \in Exchange!Numbers /\ Exchange!Send(req[t])
<1>. DEFINE asks == [s \in Threads |-> IF pc[s] = "idle" THEN 0 ELSE req[s]]
            fate == [r \in 1 .. MaxRequests |-> Fate(r)]
            n == req[t]
<1>1. /\ pc[t] = "write" /\ pc' = [pc EXCEPT ![t] = "unlock"]
      /\ UNCHANGED <<req, got, made>>
  BY DEF Write, Goto
<1>2. made \in Nat /\ n \in 1 .. made /\ n \in 1 .. MaxRequests
  <2>1. made \in Nat
    BY DEF ExchangeInv, TypeInv, TypeOK
  <2>2. pc[t] # "idle"
    BY <1>1
  <2>. QED
    BY <2>1, <2>2, HandsOfThread DEF ExchangeInv
<1>3. /\ n \in InHands /\ InHands' = InHands \ {n} /\ InLists' = InLists
      /\ AtBoards' = AtBoards \/ AtBoards' = AtBoards \cup {n}
  BY PlaceWrite DEF ExchangeInv
<1>4. asks' = asks
  <2>1. \A s \in Threads : pc'[s] = "idle" <=> pc[s] = "idle"
    BY <1>1 DEF ExchangeInv, TypeInv, TypeOK
  <2>. QED
    BY <1>1, <2>1
<1>5. \A r \in 1 .. MaxRequests : /\ fate[r] = FateOf(r, made, InHands, AtBoards, InLists)
                                  /\ fate'[r] = FateOf(r, made, InHands', AtBoards', InLists)
  BY <1>1, <1>3, Fates
<1>. HIDE DEF asks, fate, n
<1>6. n \notin AtBoards /\ n \notin InLists
  BY <1>3 DEF ExchangeInv, PlaceInv, Apart, AtBoards, InLists
<1>7. fate[n] = "made"
  BY <1>2, <1>3, <1>5 DEF FateOf
<1>8. \E to \in {"sent", "gone"} : fate' = [fate EXCEPT ![n] = to]
  <2>1. \A r \in 1 .. MaxRequests : r # n => fate'[r] = fate[r]
    BY <1>3, <1>5 DEF FateOf
  <2>2. fate'[n] \in {"sent", "gone"}
    BY <1>2, <1>3, <1>5, <1>6 DEF FateOf
  <2>3. fate' = [fate EXCEPT ![n] = fate'[n]]
    BY <1>2, <2>1 DEF fate
  <2>. QED
    BY <2>2, <2>3
<1>. QED
  BY <1>1, <1>2, <1>4, <1>7, <1>8
     DEF Exchange!Send, Exchange!Moves, Exchange!Numbers, asks, fate, n

LEMMA AnswersAbstractly ==
  ASSUME ExchangeInv, ExchangeInv', NEW c \in Clients, NEW m \in pending[c], NEW old \in BOOLEAN,
         Receive(c, m, old)
  PROVE  m.req \in Exchange!Numbers /\ Exchange!Answer(m.req)
<1>. DEFINE asks == [s \in Threads |-> IF pc[s] = "idle" THEN 0 ELSE req[s]]
            fate == [r \in 1 .. MaxRequests |-> Fate(r)]
            n == m.req
<1>1. UNCHANGED <<pc, req, got, made>>
  BY DEF Receive, threadVars
<1>2. /\ n \in AtBoards /\ AtBoards' = AtBoards \ {n} /\ InHands' = InHands
      /\ \/ InLists' = InLists \cup {n}
         \/ \E q \in InLists : InLists' = (InLists \ {q}) \cup {n}
  BY PlaceReceive DEF ExchangeInv
<1>3. made \in Nat /\ n \in 1 .. made /\ n \in 1 .. MaxRequests
  <2>1. made \in Nat /\ m \in Message
    BY DEF ExchangeInv, TypeInv, TypeOK
  <2>2. n \in Asked(pending[c])
    BY DEF Asked
  <2>. QED
    BY <2>1, <2>2 DEF ExchangeInv, PlaceInv, Apart, Message
<1>4. asks' = asks
  BY <1>1
<1>5. \A r \in 1 .. MaxRequests : /\ fate[r] = FateOf(r, made, InHands, AtBoards, InLists)
                                  /\ fate'[r] = FateOf(r, made, InHands, AtBoards', InLists')
  BY <1>1, <1>2, Fates
<1>. HIDE DEF asks, fate, n
<1>6. \A r \in AtBoards : r \notin InHands /\ r \notin InLists
  BY DEF ExchangeInv, PlaceInv, Apart, AtBoards, InLists
<1>7. \A r \in InLists : r \in 1 .. made /\ r \notin InHands
  BY DEF ExchangeInv, PlaceInv, Apart, InLists
<1>8. fate[n] = "sent" /\ fate'[n] = "answered"
  BY <1>2, <1>3, <1>5, <1>6 DEF FateOf
<1>9. CASE InLists' = InLists \cup {n}
  <2>1. \A r \in 1 .. MaxRequests : r # n => fate'[r] = fate[r]
    BY <1>2, <1>5, <1>9 DEF FateOf
  <2>2. fate' = [fate EXCEPT ![n] = "answered"]
    BY <1>3, <1>8, <2>1 DEF fate
  <2>. QED
    BY <1>1, <1>3, <1>4, <1>8, <2>2
       DEF Exchange!Answer, Exchange!Moves, Exchange!Numbers, asks, fate, n
<1>10. ASSUME NEW q \in InLists, InLists' = (InLists \ {q}) \cup {n}
       PROVE  n \in Exchange!Numbers /\ Exchange!Answer(n)
  <2>1. q # n /\ q \in 1 .. made /\ q \notin AtBoards /\ q \notin InHands
    BY <1>2, <1>6, <1>7, <1>10
  <2>2. q \in 1 .. MaxRequests
    BY <1>3, <2>1, CountsAssumption DEF ExchangeInv, TypeInv, TypeOK
  <2>3. fate[q] = "answered" /\ fate'[q] = "gone"
    BY <1>2, <1>3, <1>5, <1>10, <2>1, <2>2 DEF FateOf
  <2>4. \A r \in 1 .. MaxRequests : r # n /\ r # q => fate'[r] = fate[r]
    BY <1>2, <1>5, <1>10 DEF FateOf
  <2>5. fate' = [fate EXCEPT ![n] = "answered", ![q] = "gone"]
    BY <1>3, <1>8, <2>1, <2>2, <2>3, <2>4 DEF fate
  <2>. QED
    BY <1>1, <1>3, <1>4, <1>8, <2>2, <2>3, <2>5
       DEF Exchange!Answer, Exchange!Moves, Exchange!Numbers, asks, fate, n
<1>. QED
  BY <1>2, <1>9, <1>10 DEF n

LEMMA LosesAbstractly ==
  ASSUME ExchangeInv, ExchangeInv', NEW c \in Clients, Disconnect(c)
  PROVE  Asked(pending[c]) \in SUBSET Exchange!Numbers /\ Exchange!Lose(Asked(pending[c]))
<1>. DEFINE asks == [s \in Threads |-> IF pc[s] = "idle" THEN 0 ELSE req[s]]
            fate == [r \in 1 .. MaxRequests |-> Fate(r)]
            R == Asked(pending[c])
<1>1. UNCHANGED <<pc, req, got, made>>
  BY DEF Disconnect, threadVars
<1>2. R \subseteq AtBoards /\ AtBoards' = AtBoards \ R /\ InHands' = InHands /\ InLists' = InLists
  BY PlaceDisconnect DEF ExchangeInv
<1>3. made \in Nat /\ R \subseteq 1 .. made /\ R \subseteq 1 .. MaxRequests
  <2>1. made \in 0 .. MaxRequests /\ MaxRequests \in Nat
    BY CountsAssumption DEF ExchangeInv, TypeInv, TypeOK
  <2>2. R \subseteq 1 .. made
    BY DEF ExchangeInv, PlaceInv, Apart
  <2>3. 1 .. made \subseteq 1 .. MaxRequests
    BY <2>1
  <2>. QED
    BY <2>1, <2>2, <2>3
<1>4. asks' = asks
  BY <1>1
<1>5. \A r \in 1 .. MaxRequests : /\ fate[r] = FateOf(r, made, InHands, AtBoards, InLists)
                                  /\ fate'[r] = FateOf(r, made, InHands, AtBoards', InLists)
  BY <1>1, <1>2, Fates
<1>. HIDE DEF asks, fate, R
<1>6. \A r \in AtBoards : r \notin InHands /\ r \notin InLists
  BY DEF ExchangeInv, PlaceInv, Apart, AtBoards, InLists
<1>7. \A r \in R : fate[r] = "sent" /\ fate'[r] = "gone"
  BY <1>2, <1>3, <1>5, <1>6 DEF FateOf
<1>8. \A r \in 1 .. MaxRequests : r \notin R => fate'[r] = fate[r]
  BY <1>2, <1>5 DEF FateOf
<1>9. fate' = [r \in 1 .. MaxRequests |-> IF r \in R THEN "gone" ELSE fate[r]]
  <2>1. \A r \in 1 .. MaxRequests : fate'[r] = IF r \in R THEN "gone" ELSE fate[r]
    BY <1>7, <1>8
  <2>. QED
    BY <2>1 DEF fate
<1>. QED
  BY <1>1, <1>3, <1>4, <1>7, <1>9 DEF Exchange!Lose, Exchange!Numbers, asks, fate, R

\* A thread that looks for a reply is out of hands.
LEMMA WaitsAbstractly ==
  ASSUME ExchangeInv, NEW t \in Threads, pc[t] = "poll"
  PROVE  Exchange!Waiting(t)
<1>1. /\ req[t] \in 1 .. made /\ req[t] \in 1 .. MaxRequests /\ req[t] \notin InHands
      /\ made \in Nat
  <2>1. made \in Nat
    BY DEF ExchangeInv, TypeInv, TypeOK
  <2>2. t \notin Ahead
    BY DEF Ahead
  <2>. QED
    BY <2>1, <2>2, HandsOfThread DEF ExchangeInv
<1>2. Fate(req[t]) = FateOf(req[t], made, InHands, AtBoards, InLists)
  BY <1>1, FateIs DEF ExchangeInv
<1>3. Fate(req[t]) \notin {"new", "made"}
  BY <1>1, <1>2 DEF FateOf
<1>. QED
  BY <1>1, <1>3 DEF Exchange!Waiting, Exchange!None

LEMMA TakesAbstractly ==
  ASSUME ExchangeInv, ExchangeInv', NEW t \in Threads, TakeReply(t)
  PROVE  \E q \in Exchange!Numbers : Exchange!Take(t, q)
<1>. DEFINE asks == [s \in Threads |-> IF pc[s] = "idle" THEN 0 ELSE req[s]]
            fate == [r \in 1 .. MaxRequests |-> Fate(r)]
            list == msgs[client[t]]
<1>1. PICK i \in DOMAIN list :
        /\ list[i].id = frame[t]
        /\ msgs' = [msgs EXCEPT ![client[t]] = RemoveAt(list, i)]
        /\ got' = [got EXCEPT ![t] =
                     IF t \in Checking /\ list[i].req # req[t] THEN 0 ELSE list[i].req]
  BY DEF TakeReply, Answers
<1>. DEFINE q == list[i].req
<1>2. pc[t] = "poll" /\ pc' = [pc EXCEPT ![t] = "idle"] /\ UNCHANGED <<req, made>>
  BY DEF TakeReply, Goto
<1>3. q \in InLists /\ InLists' = InLists \ {q} /\ InHands' = InHands /\ AtBoards' = AtBoards
  BY <1>1, PlaceTake DEF ExchangeInv
<1>4. /\ made \in 0 .. MaxRequests /\ q \in 1 .. made /\ q \in 1 .. MaxRequests
      /\ MaxRequests \in Nat /\ got \in [Threads -> 0 .. MaxRequests]
  <2>1. client[t] \in Clients /\ made \in 0 .. MaxRequests /\ got \in [Threads -> 0 .. MaxRequests]
    BY DEF ExchangeInv, TypeInv, TypeOK
  <2>2. q \in Listed(msgs[client[t]])
    BY DEF Listed
  <2>3. q \in 1 .. made
    BY <2>1, <2>2 DEF ExchangeInv, PlaceInv, Apart
  <2>. QED
    BY <2>1, <2>3, CountsAssumption
<1>5. asks' = [asks EXCEPT ![t] = 0]
  <2>1. \A s \in Threads : asks'[s] = IF s = t THEN 0 ELSE asks[s]
    BY <1>2 DEF ExchangeInv, TypeInv, TypeOK
  <2>. QED
    BY <2>1
<1>6. asks[t] = req[t] /\ got[t] = 0
  BY <1>2 DEF ExchangeInv, Empty
<1>7. \A r \in 1 .. MaxRequests : /\ fate[r] = FateOf(r, made, InHands, AtBoards, InLists)
                                  /\ fate'[r] = FateOf(r, made, InHands, AtBoards, InLists')
  BY <1>2, <1>3, Fates
<1>8. q # req[t] => made > IdMod
  <2>1. list[i] \in Replies(client[t]) /\ client[t] \in Clients
    BY DEF Replies, ExchangeInv, TypeInv, TypeOK
  <2>2. made <= IdMod => q = req[t]
    BY <1>1, <1>2, <2>1 DEF ExchangeInv, ReplyInv, Matching, Sent
  <2>. QED
    BY <1>4, <2>2, IdAssumption
<1>9. Exchange!Waiting(t)
  BY <1>2, WaitsAbstractly
<1>. HIDE DEF asks, fate, q
<1>10. q \notin InHands /\ q \notin AtBoards
  BY <1>3 DEF ExchangeInv, PlaceInv, Apart, AtBoards, InLists
<1>11. fate[q] = "answered" /\ fate' = [fate EXCEPT ![q] = "gone"]
  <2>1. fate[q] = "answered" /\ fate'[q] = "gone"
    BY <1>3, <1>4, <1>7, <1>10 DEF FateOf
  <2>2. \A r \in 1 .. MaxRequests : r # q => fate'[r] = fate[r]
    BY <1>3, <1>7 DEF FateOf
  <2>. QED
    BY <1>4, <2>1, <2>2 DEF fate
<1>12. q # req[t] => Exchange!Reused
  <2>1. SUFFICES ASSUME made > IdMod PROVE Exchange!Reused
    BY <1>8
  <2>2. made \in 1 .. MaxRequests
    BY <1>4, <2>1, IdAssumption
  <2>3. fate[made] # "new"
    BY <1>4, <1>7, <2>2 DEF FateOf
  <2>. QED
    BY <2>1, <2>2, <2>3 DEF Exchange!Reused, Exchange!Numbers, fate
<1>13. got' = [got EXCEPT ![t] = IF t \in Checking /\ q # req[t] THEN 0 ELSE q]
  BY <1>1 DEF q
<1>14. \/ q = asks[t] /\ got' = [got EXCEPT ![t] = q]
       \/ q # asks[t] /\ Exchange!Reused /\ t \in Checking /\ UNCHANGED got
       \/ q # asks[t] /\ Exchange!Reused /\ t \notin Checking /\ got' = [got EXCEPT ![t] = q]
  <2>1. CASE q = req[t]
    BY <1>6, <1>13, <2>1
  <2>2. CASE q # req[t] /\ t \notin Checking
    BY <1>6, <1>12, <1>13, <2>2
  <2>3. CASE q # req[t] /\ t \in Checking
    <3>1. got' = [got EXCEPT ![t] = 0]
      BY <1>13, <2>3
    <3>2. got' = got
      BY <1>4, <1>6, <3>1
    <3>. QED
      BY <1>6, <1>12, <2>3, <3>2
  <2>. QED
    BY <2>1, <2>2, <2>3
<1>. QED
  BY <1>4, <1>5, <1>9, <1>11, <1>14
     DEF Exchange!Take, Exchange!Moves, Exchange!None, Exchange!Numbers, asks, fate

\* The last round without a reply, and every other step that moves no request.
LEMMA WaitsOrNothing ==
  ASSUME ExchangeInv, ExchangeInv', NEW t \in Threads, Moves(t)
  PROVE  Exchange!GiveUp(t) \/ UNCHANGED Exchange!vars
<1>. DEFINE asks == [s \in Threads |-> IF pc[s] = "idle" THEN 0 ELSE req[s]]
            fate == [r \in 1 .. MaxRequests |-> Fate(r)]
<1>1. /\ InHands' = InHands /\ AtBoards' = AtBoards /\ InLists' = InLists
      /\ UNCHANGED <<req, made, got>>
  BY MovesQuietly DEF ExchangeInv
<1>2. fate' = fate
  <2>1. \A r \in 1 .. MaxRequests : fate'[r] = fate[r]
    BY <1>1, Fates
  <2>. QED
    BY <2>1
<1>3. pc \in [Threads -> {"idle", "lock", "claim", "compose", "write", "unlock", "poll"}]
  BY DEF ExchangeInv, TypeInv, TypeOK
<1>4. \/ pc[t] = "poll" /\ pc' = [pc EXCEPT ![t] = "idle"]
      \/ \A s \in Threads : pc'[s] = "idle" <=> pc[s] = "idle"
  BY <1>3 DEF Moves, Lock, Claim, Compose, Unlock, KeepWaiting, Goto
<1>. HIDE DEF fate
<1>5. CASE pc[t] = "poll" /\ pc' = [pc EXCEPT ![t] = "idle"]
  <2>1. \A s \in Threads : asks'[s] = IF s = t THEN 0 ELSE asks[s]
    BY <1>1, <1>3, <1>5
  <2>2. asks' = [asks EXCEPT ![t] = 0]
    BY <2>1
  <2>3. Exchange!Waiting(t)
    BY <1>5, WaitsAbstractly
  <2>. QED
    BY <1>1, <1>2, <2>2, <2>3 DEF Exchange!GiveUp, Exchange!None, fate
<1>6. CASE \A s \in Threads : pc'[s] = "idle" <=> pc[s] = "idle"
  <2>1. asks' = asks
    BY <1>1, <1>6
  <2>. QED
    BY <1>1, <1>2, <2>1 DEF Exchange!vars, fate
<1>. QED
  BY <1>4, <1>5, <1>6

LEMMA ExchangeStep ==
  ExchangeInv /\ ExchangeInv' /\ [Next]_vars => [Exchange!Next]_(Exchange!vars)
<1>. SUFFICES ASSUME ExchangeInv, ExchangeInv', [Next]_vars
              PROVE  [Exchange!Next]_(Exchange!vars)
  OBVIOUS
<1>1. ASSUME NEW t \in Threads, Continue(t) PROVE [Exchange!Next]_(Exchange!vars)
  <2>1. CASE Moves(t)
    BY <2>1, WaitsOrNothing DEF Exchange!Next
  <2>2. CASE Write(t)
    BY <2>2, SendsAbstractly DEF Exchange!Next
  <2>3. CASE TakeReply(t)
    BY <2>3, TakesAbstractly DEF Exchange!Next
  <2>. QED
    BY <1>1, <2>1, <2>2, <2>3 DEF Continue, Moves
<1>2. ASSUME NEW t \in Threads, NEW c \in Clients, Request(t, c)
      PROVE  [Exchange!Next]_(Exchange!vars)
  BY <1>2, AsksAbstractly DEF Exchange!Next
<1>3. ASSUME NEW c \in Clients, Link(c) PROVE [Exchange!Next]_(Exchange!vars)
  <2>1. ASSUME NEW m \in pending[c], NEW old \in BOOLEAN, Receive(c, m, old)
        PROVE  [Exchange!Next]_(Exchange!vars)
    BY <2>1, AnswersAbstractly DEF Exchange!Next
  <2>2. CASE Disconnect(c)
    BY <2>2, LosesAbstractly DEF Exchange!Next
  <2>3. CASE Opens(c)
    <3>1. /\ InHands' = InHands /\ AtBoards' = AtBoards /\ InLists' = InLists
          /\ UNCHANGED <<pc, req, made, got>>
      BY <2>3, OpensQuietly DEF ExchangeInv
    <3>2. \A r \in 1 .. MaxRequests : Fate(r)' = Fate(r)
      BY <3>1, Fates
    <3>. QED
      BY <3>1, <3>2 DEF Exchange!vars
  <2>. QED
    BY <1>3, <2>1, <2>2, <2>3 DEF Link, Opens
<1>4. CASE UNCHANGED vars
  <2>1. UNCHANGED <<pc, req, made, got, pending, msgs>>
    BY <1>4 DEF vars, threadVars, linkVars
  <2>2. \A r \in 1 .. MaxRequests : Fate(r)' = Fate(r)
    BY <2>1 DEF Fate
  <2>. QED
    BY <2>1, <2>2 DEF Exchange!vars
<1>. QED
  BY <1>1, <1>2, <1>3, <1>4 DEF Next

\* TcpClient::request, the frame layer, the receiving thread and the list of
\* replies together keep the promise of RequestReply, for any numbers of
\* threads, clients, requests and identifiers: however a request is tried,
\* delayed or lost, it goes out once, its reply is taken once, and by its own
\* thread unless the identifiers have run out.
THEOREM ExchangeImplemented == Spec => ImplementsExchange
BY ExchangeInit, ExchangeNext, ExchangeStep, PTL DEF Spec, ImplementsExchange, Exchange!Spec

=============================================================================
