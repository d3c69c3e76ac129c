----------------------------- MODULE TcpClient -----------------------------
(* The client the drivers of the boards share: threads of the robot send a  *)
(* request as a TinyFrame frame and look through a list for the reply with  *)
(* the identifier of that frame, which the receiving thread puts there.     *)
(* The board may answer late, in another order or not at all; the           *)
(* connection may be lost and made again at any time.                       *)
EXTENDS Integers, Sequences, SequencesExt, FiniteSets

CONSTANTS
  Threads,      \* threads of the robot that send requests
  Checking,     \* those whose driver compares transId with that of the reply
  Clients,      \* the clients, one per board
  IdMod,        \* number of frame identifiers, TF_ID_MASK + 1
  Tries,        \* tryCnt of TF_Send: 5 in the code
  Polls,        \* rounds a request waits: 20 for each second of m_waitTime
  MaxMsgs,      \* MAX_MSG_SIZE: 128 in the code
  MaxRequests   \* bound: requests of a behaviour

ASSUME CheckingAssumption == Checking \subseteq Threads
ASSUME IdAssumption == IdMod \in Nat \ {0}
ASSUME CountsAssumption == Tries \in Nat /\ Polls \in Nat \ {0} /\ MaxRequests \in Nat
ASSUME MsgsAssumption == MaxMsgs \in Nat \ {0}

VARIABLES
  pc,         \* where a thread is in request
  client,     \* the client it asks
  req,        \* number of its request, standing for its transId
  tries,      \* tryCnt around TF_Send
  polls,      \* tryCnt of the waiting loop
  frame,      \* tfmsg.frame_id
  got,        \* the request whose reply the driver took, 0 for a failure
  lck,        \* holder of the mutex lck, one for all clients
  soft,       \* TinyFrame::soft_lock of each client
  nextId,     \* TinyFrame::next_id of each client
  msgs,       \* m_tfMsgList: identifier of the frame and request it answers
  up,         \* whether m_socketfd is a connection
  enabled,    \* m_tcpEnable
  pending,    \* external: frames the board has not answered
  made        \* requests made so far

threadVars == <<pc, client, req, tries, polls, frame, got>>
linkVars == <<msgs, up, enabled, pending>>
vars == <<threadVars, lck, soft, nextId, linkVars, made>>

Free == "free"

ASSUME FreeAssumption == Free \notin Threads

Message == [id : 0..(IdMod - 1), req : 1..MaxRequests]

TypeOK ==
  /\ pc \in [Threads -> {"idle", "lock", "claim", "compose", "write", "unlock", "poll"}]
  /\ client \in [Threads -> Clients]
  /\ req \in [Threads -> 0..MaxRequests]
  /\ tries \in [Threads -> 0..Tries]
  /\ polls \in [Threads -> 0..Polls]
  /\ frame \in [Threads -> 0..(IdMod - 1)]
  /\ got \in [Threads -> 0..MaxRequests]
  /\ lck \in Threads \cup {Free}
  /\ soft \in [Clients -> BOOLEAN]
  /\ nextId \in [Clients -> 0..(IdMod - 1)]
  /\ msgs \in [Clients -> Seq(Message)]
  /\ \A c \in Clients : Len(msgs[c]) <= MaxMsgs
  /\ up \in [Clients -> BOOLEAN]
  /\ enabled \in [Clients -> BOOLEAN]
  /\ pending \in [Clients -> SUBSET Message]
  /\ made \in 0..MaxRequests

Init ==
  /\ pc = [t \in Threads |-> "idle"]
  /\ client \in [Threads -> Clients]
  /\ req = [t \in Threads |-> 0]
  /\ tries = [t \in Threads |-> Tries]
  /\ polls = [t \in Threads |-> 0]
  /\ frame = [t \in Threads |-> 0]
  /\ got = [t \in Threads |-> 0]
  /\ lck = Free
  /\ soft = [c \in Clients |-> FALSE]
  /\ nextId = [c \in Clients |-> 0]
  /\ msgs = [c \in Clients |-> <<>>]
  /\ up = [c \in Clients |-> FALSE]
  /\ enabled = [c \in Clients |-> TRUE]
  /\ pending = [c \in Clients |-> {}]
  /\ made = 0

Goto(t, label) == pc' = [pc EXCEPT ![t] = label]

---------------------------------------------------------------------------
(* TcpClient::request.  A client that is closed answers -2 at once, which   *)
(* changes nothing.                                                         *)

Request(t, c) ==
  /\ pc[t] = "idle"
  /\ made < MaxRequests
  /\ enabled[c]
  /\ made' = made + 1
  /\ client' = [client EXCEPT ![t] = c]
  /\ req' = [req EXCEPT ![t] = made + 1]
  /\ tries' = [tries EXCEPT ![t] = Tries]
  /\ polls' = [polls EXCEPT ![t] = Polls]
  /\ frame' = [frame EXCEPT ![t] = 0]
  /\ got' = [got EXCEPT ![t] = 0]
  /\ Goto(t, "lock")
  /\ UNCHANGED <<lck, soft, nextId, linkVars>>

\* Fault: the mutex is one of the call, not one of all calls.
LockNothing(t) ==
  /\ pc[t] = "lock"
  /\ Goto(t, "claim")
  /\ UNCHANGED <<client, req, tries, polls, frame, got, lck, soft, nextId, linkVars, made>>

Lock(t) ==
  /\ pc[t] = "lock"
  /\ lck = Free
  /\ lck' = t
  /\ Goto(t, "claim")
  /\ UNCHANGED <<client, req, tries, polls, frame, got, soft, nextId, linkVars, made>>

\* TF_ClaimTx.  When the interface is busy, TF_Send fails: the mutex is left
\* and the call tries again, or leaves the loop, where it unlocks once more.
Claim(t) ==
  /\ pc[t] = "claim"
  /\ IF ~soft[client[t]]
     THEN /\ Goto(t, "compose")
          /\ UNCHANGED <<tries, lck>>
     ELSE /\ lck' = Free
          /\ IF tries[t] = 0
             THEN Goto(t, "unlock") /\ UNCHANGED tries
             ELSE Goto(t, "lock") /\ tries' = [tries EXCEPT ![t] = @ - 1]
  /\ UNCHANGED <<client, req, polls, frame, got, soft, nextId, linkVars, made>>

\* TF_ClaimTx takes what it tested, and TF_ComposeHead reads next_id.
Compose(t) ==
  /\ pc[t] = "compose"
  /\ soft' = [soft EXCEPT ![client[t]] = TRUE]
  /\ frame' = [frame EXCEPT ![t] = nextId[client[t]]]
  /\ Goto(t, "write")
  /\ UNCHANGED <<client, req, tries, polls, got, lck, nextId, linkVars, made>>

\* Fault: the interface is released only when there is a peer to write to.
WriteKeepsClaim(t) ==
  LET c == client[t]
  IN /\ pc[t] = "write"
     /\ nextId' = [nextId EXCEPT ![c] = (frame[t] + 1) % IdMod]
     /\ pending' = IF up[c]
                   THEN [pending EXCEPT ![c] = @ \cup {[id |-> frame[t], req |-> req[t]]}]
                   ELSE pending
     /\ soft' = [soft EXCEPT ![c] = ~up[c]]
     /\ Goto(t, "unlock")
     /\ UNCHANGED <<client, req, tries, polls, frame, got, lck, msgs, up, enabled, made>>

\* The increment of next_id, TF_WriteImpl, which drops the frame without a
\* connection, and TF_ReleaseTx.
Write(t) ==
  LET c == client[t]
  IN /\ pc[t] = "write"
     /\ nextId' = [nextId EXCEPT ![c] = (frame[t] + 1) % IdMod]
     /\ pending' = IF up[c]
                   THEN [pending EXCEPT ![c] = @ \cup {[id |-> frame[t], req |-> req[t]]}]
                   ELSE pending
     /\ soft' = [soft EXCEPT ![c] = FALSE]
     /\ Goto(t, "unlock")
     /\ UNCHANGED <<client, req, tries, polls, frame, got, lck, msgs, up, enabled, made>>

\* Fault: the mutex is left locked after a frame was sent.
UnlockForgotten(t) ==
  /\ pc[t] = "unlock"
  /\ Goto(t, "poll")
  /\ UNCHANGED <<client, req, tries, polls, frame, got, lck, soft, nextId, linkVars, made>>

\* Unlocking frees the mutex, whoever holds it.
Unlock(t) ==
  /\ pc[t] = "unlock"
  /\ lck' = Free
  /\ Goto(t, "poll")
  /\ UNCHANGED <<client, req, tries, polls, frame, got, soft, nextId, linkVars, made>>

\* Fault: the first reply of the list is taken.
AnswersAny(m, t) == TRUE

Answers(m, t) == m.id = frame[t]

Answered(t) == \E i \in DOMAIN msgs[client[t]] : Answers(msgs[client[t]][i], t)

\* Fault: the reply is looked at and stays in the list.
TakeReplyKeeps(t) ==
  LET list == msgs[client[t]]
  IN /\ pc[t] = "poll"
     /\ \E i \in DOMAIN list :
          /\ Answers(list[i], t)
          /\ \A j \in 1 .. i - 1 : ~Answers(list[j], t)
          /\ got' = [got EXCEPT ![t] =
                       IF t \in Checking /\ list[i].req # req[t] THEN 0 ELSE list[i].req]
     /\ Goto(t, "idle")
     /\ UNCHANGED <<client, req, tries, polls, frame, lck, soft, nextId, linkVars, made>>

\* A reply is in the list: the first is taken off, and the driver looks at it.
TakeReply(t) ==
  LET list == msgs[client[t]]
  IN /\ pc[t] = "poll"
     /\ \E i \in DOMAIN list :
          /\ Answers(list[i], t)
          /\ \A j \in 1 .. i - 1 : ~Answers(list[j], t)
          /\ msgs' = [msgs EXCEPT ![client[t]] = RemoveAt(list, i)]
          /\ got' = [got EXCEPT ![t] =
                       IF t \in Checking /\ list[i].req # req[t] THEN 0 ELSE list[i].req]
     /\ Goto(t, "idle")
     /\ UNCHANGED <<client, req, tries, polls, frame, lck, soft, nextId, up, enabled, pending, made>>

\* No reply in this round: the thread sleeps, or gives up after the last one.
KeepWaiting(t) ==
  /\ pc[t] = "poll"
  /\ ~Answered(t)
  /\ polls' = [polls EXCEPT ![t] = @ - 1]
  /\ Goto(t, IF polls[t] = 1 THEN "idle" ELSE "poll")
  /\ UNCHANGED <<client, req, tries, frame, got, lck, soft, nextId, linkVars, made>>

---------------------------------------------------------------------------
(* RecvThread and replyListener.                                            *)

\* Fault: the oldest reply goes one message too late.
PushWhenOver(list, m, old) ==
  Append(IF list # <<>> /\ (old \/ Len(list) > MaxMsgs) THEN Tail(list) ELSE list, m)

\* One reply at most goes for each that comes: the oldest, when it is older
\* than a minute or the list is full.
Push(list, m, old) ==
  Append(IF list # <<>> /\ (old \/ Len(list) >= MaxMsgs) THEN Tail(list) ELSE list, m)

\* A request waits less than a minute, so its reply cannot be old.
MayBeOld(c) ==
  /\ msgs[c] # <<>>
  /\ \A t \in Threads : pc[t] = "poll" /\ client[t] = c => req[t] # Head(msgs[c]).req

Receive(c, m, old) ==
  /\ up[c]
  /\ m \in pending[c]
  /\ old => MayBeOld(c)
  /\ pending' = [pending EXCEPT ![c] = @ \ {m}]
  /\ msgs' = [msgs EXCEPT ![c] = Push(@, m, old)]
  /\ UNCHANGED <<threadVars, lck, soft, nextId, up, enabled, made>>

\* read fails, also when realcloseSession has closed the descriptor.
Disconnect(c) ==
  /\ up[c]
  /\ up' = [up EXCEPT ![c] = FALSE]
  /\ pending' = [pending EXCEPT ![c] = {}]
  /\ UNCHANGED <<threadVars, lck, soft, nextId, msgs, enabled, made>>

Connect(c) ==
  /\ ~up[c]
  /\ up' = [up EXCEPT ![c] = TRUE]
  /\ UNCHANGED <<threadVars, lck, soft, nextId, msgs, enabled, pending, made>>

\* closeSession and openSession, around the upgrade of a board.
TcpClose(c) ==
  /\ enabled[c]
  /\ enabled' = [enabled EXCEPT ![c] = FALSE]
  /\ UNCHANGED <<threadVars, lck, soft, nextId, msgs, up, pending, made>>

TcpOpen(c) ==
  /\ ~enabled[c]
  /\ enabled' = [enabled EXCEPT ![c] = TRUE]
  /\ UNCHANGED <<threadVars, lck, soft, nextId, msgs, up, pending, made>>

---------------------------------------------------------------------------
Continue(t) ==
  \/ Lock(t)
  \/ Claim(t)
  \/ Compose(t)
  \/ Write(t)
  \/ Unlock(t)
  \/ TakeReply(t)
  \/ KeepWaiting(t)

Link(c) ==
  \/ \E m \in pending[c], old \in BOOLEAN : Receive(c, m, old)
  \/ Disconnect(c)
  \/ Connect(c)
  \/ TcpClose(c)
  \/ TcpOpen(c)

Next ==
  \/ \E t \in Threads, c \in Clients : Request(t, c)
  \/ \E t \in Threads : Continue(t)
  \/ \E c \in Clients : Link(c)

Spec == Init /\ [][Next]_vars

\* A thread inside request goes on.  Nothing is assumed of the board or of the
\* connection.
FairSpec == Spec /\ \A t \in Threads : WF_vars(Continue(t))

---------------------------------------------------------------------------
\* A driver only ever takes the reply to its own request, although late
\* replies to requests that gave up stay in the list: without comparing transId
\* while no identifier has been used twice, and always when it compares it.
OwnReply ==
  \A t \in Threads :
    got[t] # 0 /\ (t \in Checking \/ made <= IdMod) => got[t] = req[t]

\* A thread never unlocks the mutex while another holds it: the second unlock
\* after a failed TF_Send is never reached, since the mutex keeps TF_ClaimTx
\* from finding the interface busy.
UnlockedByHolder ==
  \A t \in Threads : pc[t] = "unlock" => lck = t

\* Every request comes back to its caller, whatever the board and the
\* connection do and however many threads ask at the same time.
RequestReturns ==
  \A t \in Threads : pc[t] # "idle" ~> pc[t] = "idle"

---------------------------------------------------------------------------
(* TcpClient implements RequestReply.                                       *)

\* Where request r is: not made, in the hands of the thread that made it, with
\* the board, in the list of replies, or no longer anywhere.
Fate(r) ==
  CASE r > made -> "new"
    [] \E t \in Threads : req[t] = r /\ pc[t] \in {"lock", "claim", "compose", "write"}
         -> "made"
    [] \E c \in Clients : \E m \in pending[c] : m.req = r -> "sent"
    [] \E c \in Clients : \E i \in DOMAIN msgs[c] : msgs[c][i].req = r -> "answered"
    [] OTHER -> "gone"

Exchange ==
  INSTANCE RequestReply WITH
    Drivers   <- Threads,
    Comparing <- Checking,
    Total     <- MaxRequests,
    Ids       <- IdMod,
    asks      <- [t \in Threads |-> IF pc[t] = "idle" THEN 0 ELSE req[t]],
    took      <- got,
    fate      <- [r \in 1..MaxRequests |-> Fate(r)]

\* However often the frame layer is tried, whatever the connection loses and
\* whoever looks through the list: each request goes out once, and its reply is
\* taken once, by the thread that made it unless identifiers were used again.
ImplementsExchange == Exchange!Spec

=============================================================================
