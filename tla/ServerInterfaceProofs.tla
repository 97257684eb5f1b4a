----------------------- MODULE ServerInterfaceProofs -----------------------
(***************************************************************************)
(* Proofs about ServerInterface. For any number of clients, accept errors  *)
(* and calls, whatever the two threads do to m_deqConnections: its types,  *)
(* where a null pointer can be, who is greeted, and (unless a push_back    *)
(* met a removal) that no open connection is lost, that ids ascend and     *)
(* that a search finds whom it looks for.                                  *)
(*                                                                         *)
(* The first lemmas tell what each step does to a record, a sequence or a  *)
(* function; the "step" lemmas retell every step of the main thread, and   *)
(* IoEffect those of the io_context thread, without records. The invariant *)
(* (DequeInv) is shown conjunct by conjunct from those.                    *)
(***************************************************************************)
EXTENDS ServerInterface, SequenceTheorems, TLAPS

-----------------------------------------------------------------------------
(* What the steps change, field by field.                                  *)

\* std::remove keeps an element: two counters go on.
LEMMA Advance ==
  ASSUME main \in Locals, NEW kept \in Nat,
         main' = [main EXCEPT !.cursor = main.cursor + 1, !.kept = kept]
  PROVE  /\ main' \in Locals
         /\ main'.at = main.at /\ main'.cursor = main.cursor + 1
         /\ main'.end = main.end /\ main'.kept = kept /\ main'.id = main.id
         /\ main'.bInvalidClientExists = main.bInvalidClientExists /\ main'.due = main.due
<1>1. PICK cursor \in Nat : cursor = main.cursor + 1
  BY DEF Locals
<1>2. main' = [main EXCEPT !.cursor = cursor, !.kept = kept]
  BY <1>1
<1>. QED BY <1>1, <1>2 DEF Locals

\* A loop over the deque starts at its first element.
LEMMA Loop ==
  ASSUME main \in Locals, m_deqConnections \in Seq(Listable),
         NEW point \in Points, NEW calls \in Nat
  PROVE  /\ BeginLoop(point, calls) \in Locals
         /\ BeginLoop(point, calls).at = point
         /\ BeginLoop(point, calls).cursor = 1
         /\ BeginLoop(point, calls).end = Len(m_deqConnections)
         /\ BeginLoop(point, calls).kept = 0
<1>1. PICK end \in Nat : end = Len(m_deqConnections)
  OBVIOUS
<1>2. BeginLoop(point, calls)
        = [main EXCEPT !.at = point, !.calls = calls, !.cursor = 1, !.end = end, !.kept = 0]
  BY <1>1 DEF BeginLoop
<1>3. PICK loop : loop = BeginLoop(point, calls)
  OBVIOUS
<1>4. loop = [main EXCEPT !.at = point, !.calls = calls, !.cursor = 1, !.end = end,
                          !.kept = 0]
  BY <1>2, <1>3
<1>5. loop \in Locals
  BY <1>4 DEF Locals
<1>6. loop.at = point /\ loop.cursor = 1 /\ loop.end = end /\ loop.kept = 0
  BY <1>4 DEF Locals
<1>. QED BY <1>1, <1>3, <1>5, <1>6

\* A search or a removal goes on by one element.
LEMMA SearchOnMain ==
  ASSUME main \in Locals, SearchOn \/ RemoveNull
  PROVE  /\ main' \in Locals
         /\ main'.at = main.at /\ main'.cursor = main.cursor + 1
         /\ main'.end = main.end /\ main'.kept = main.kept /\ main'.id = main.id
         /\ main'.due = main.due
<1>1. PICK cursor \in Nat : cursor = main.cursor + 1
  BY DEF Locals
<1>2. main' = [main EXCEPT !.cursor = cursor]
  BY <1>1 DEF SearchOn, RemoveNull
<1>. QED BY <1>1, <1>2 DEF Locals

\* A search ends at the element it was looking for.
LEMMA SearchHitMain ==
  ASSUME main \in Locals, NEW c \in Clients \cup {Null}, 
         main' = [main EXCEPT !.at = "searched", !.found = c]
  PROVE  /\ main' \in Locals
         /\ main'.at = "searched" /\ main'.cursor = main.cursor
         /\ main'.end = main.end /\ main'.kept = main.kept /\ main'.found = c
         /\ main'.due = main.due
<1>1. "searched" \in Points
  BY DEF Points
<1>. QED BY <1>1 DEF Locals

\* A search starts, with what it ought to find.
LEMMA SearchMain ==
  ASSUME main \in Locals, m_deqConnections \in Seq(Listable), NEW n \in Nat, Search(n)
  PROVE  /\ main' \in Locals
         /\ main'.at = "search" /\ main'.cursor = 1 /\ main'.end = Len(m_deqConnections)
         /\ main'.kept = 0 /\ main'.id = n
         /\ main'.due # Null => n # 0 /\ main'.due \in WithId(n)
<1>1. PICK calls \in Nat : calls = main.calls + 1
  BY DEF Locals
<1>2. "search" \in Points
  BY DEF Points
<1>3. PICK due \in Clients \cup {Null} :
        /\ due = IF n = 0 \/ WithId(n) = {} THEN Null ELSE CHOOSE c \in WithId(n) : TRUE
        /\ due # Null => n # 0 /\ due \in WithId(n)
  BY DEF WithId
<1>4. PICK loop : loop = BeginLoop("search", calls)
  OBVIOUS
<1>5. /\ loop \in Locals
      /\ loop.at = "search" /\ loop.cursor = 1 /\ loop.end = Len(m_deqConnections)
      /\ loop.kept = 0
  BY <1>2, <1>4, Loop
<1>6. main' = [loop EXCEPT !.id = n, !.found = Null, !.due = due]
  BY <1>1, <1>3, <1>4 DEF Search
<1>. QED BY <1>3, <1>5, <1>6 DEF Locals

\* The sweep of MessageAllClients goes on by one element.
LEMMA SweepMain ==
  ASSUME main \in Locals, Sweep
  PROVE  /\ main' \in Locals
         /\ main'.at = main.at /\ main'.cursor = main.cursor + 1
         /\ main'.end = main.end /\ main'.kept = main.kept
         /\ main'.bInvalidClientExists = (main.bInvalidClientExists \/ IsInvalid(AtCursor))
<1>1. PICK cursor \in Nat : cursor = main.cursor + 1
  BY DEF Locals
<1>2. CASE IsInvalid(AtCursor)
  <2>1. main' = [main EXCEPT !.cursor = cursor, !.bInvalidClientExists = TRUE]
    BY <1>1, <1>2 DEF Sweep
  <2>. QED BY <1>1, <1>2, <2>1 DEF Locals
<1>3. CASE ~IsInvalid(AtCursor)
  <2>1. main' = [main EXCEPT !.cursor = cursor]
    BY <1>1, <1>3 DEF Sweep
  <2>. QED BY <1>1, <1>3, <2>1 DEF Locals
<1>. QED BY <1>2, <1>3

\* A removal starts.
LEMMA RemovalMain ==
  ASSUME main \in Locals, m_deqConnections \in Seq(Listable),
         NEW calls \in Nat, main' = BeginLoop("remove", calls)
  PROVE  /\ main' \in Locals
         /\ main'.at = "remove" /\ main'.cursor = 1 /\ main'.end = Len(m_deqConnections)
         /\ main'.kept = 0
<1>1. "remove" \in Points
  BY DEF Points
<1>. QED BY <1>1, Loop

\* MessageAllClients starts its sweep.
LEMMA SweepAllMain ==
  ASSUME main \in Locals, m_deqConnections \in Seq(Listable),
         NEW p \in Clients \cup {Null}, MessageAllClients(p)
  PROVE  /\ main' \in Locals
         /\ main'.at = "sweep" /\ main'.cursor = 1 /\ main'.end = Len(m_deqConnections)
         /\ main'.kept = 0
<1>1. PICK calls \in Nat : calls = main.calls + 1
  BY DEF Locals
<1>2. "sweep" \in Points
  BY DEF Points
<1>4. PICK loop : loop = BeginLoop("sweep", calls)
  OBVIOUS
<1>5. /\ loop \in Locals
      /\ loop.at = "sweep" /\ loop.cursor = 1 /\ loop.end = Len(m_deqConnections)
      /\ loop.kept = 0
  BY <1>2, <1>4, Loop
<1>6. main' = [loop EXCEPT !.pIgnoreClient = p, !.bInvalidClientExists = FALSE]
  BY <1>1, <1>4 DEF MessageAllClients
<1>. QED BY <1>5, <1>6 DEF Locals

\* MessageClient sends, or starts a removal.
LEMMA MessageClientMain ==
  ASSUME main \in Locals, m_deqConnections \in Seq(Listable),
         NEW c \in Clients, MessageClient(c)
  PROVE  /\ main' \in Locals
         /\ \/ /\ conn[c].open
               /\ main'.at = main.at /\ main'.cursor = main.cursor
               /\ main'.end = main.end /\ main'.kept = main.kept
            \/ /\ ~conn[c].open
               /\ main'.at = "remove" /\ main'.cursor = 1 /\ main'.end = Len(m_deqConnections)
               /\ main'.kept = 0
<1>1. PICK calls \in Nat : calls = main.calls + 1
  BY DEF Locals
<1>2. CASE conn[c].open
  <2>1. main' = [main EXCEPT !.calls = calls]
    BY <1>1, <1>2 DEF MessageClient
  <2>. QED BY <1>2, <2>1 DEF Locals
<1>3. CASE ~conn[c].open
  BY <1>1, <1>3, RemovalMain DEF MessageClient
<1>. QED BY <1>2, <1>3

\* A step that only leads to another point.
LEMMA TurnMain ==
  ASSUME main \in Locals
  PROVE  /\ \A p \in Points : main' = [main EXCEPT !.at = p] =>
              /\ main' \in Locals
              /\ main'.at = p /\ main'.cursor = main.cursor
              /\ main'.end = main.end /\ main'.kept = main.kept
              /\ main'.found = main.found /\ main'.due = main.due
BY DEF Locals
\* SendTo, for one client.
LEMMA SendToEffect ==
  ASSUME toClient \in [Clients -> Seq(Kinds)], NEW c \in Clients, NEW kind \in Kinds,
         SendTo(c, kind)
  PROVE  /\ toClient' \in [Clients -> Seq(Kinds)]
         /\ \A d \in Clients : d # c => toClient'[d] = toClient[d]
         /\ Len(toClient'[c]) = Len(toClient[c]) + 1
         /\ \A i \in 1 .. Len(toClient[c]) : toClient'[c][i] = toClient[c][i]
         /\ toClient'[c][Len(toClient[c]) + 1] = kind
<1>1. toClient[c] \in Seq(Kinds)
  OBVIOUS
<1>2. toClient' = [toClient EXCEPT ![c] = Append(toClient[c], kind)]
  BY DEF SendTo
<1>3. toClient'[c] = Append(toClient[c], kind)
  BY <1>2
<1>4. Append(toClient[c], kind) \in Seq(Kinds)
  BY <1>1
<1>5. toClient' \in [Clients -> Seq(Kinds)]
  BY <1>2, <1>4
<1>. QED BY <1>1, <1>2, <1>3, <1>5

\* OnClientConnect opens the new connection and no other.
LEMMA ConnectEffect ==
  ASSUME conn \in Objects, newConn \in Clients, OnClientConnect
  PROVE  /\ conn' \in Objects'
         /\ \A d \in Clients : conn'[d].id = conn[d].id
         /\ \A d \in Clients : d # newConn => conn'[d].open = conn[d].open
         /\ conn'[newConn].open
<1>1. Ids' = Ids
  BY DEF OnClientConnect, Ids
<1>2. conn' = [conn EXCEPT ![newConn].open = TRUE]
  BY DEF OnClientConnect
<1>. QED BY <1>1, <1>2 DEF Objects

\* A failed read closes one connection.
LEMMA GoneEffect ==
  ASSUME conn \in Objects, NEW c \in Clients, NoticeClientGone(c)
  PROVE  /\ conn' \in Objects'
         /\ \A d \in Clients : conn'[d].id = conn[d].id
         /\ \A d \in Clients : d # c => conn'[d].open = conn[d].open
         /\ ~conn'[c].open
<1>1. Ids' = Ids
  BY DEF NoticeClientGone, Ids
<1>2. conn' = [conn EXCEPT ![c].open = FALSE]
  BY DEF NoticeClientGone
<1>. QED BY <1>1, <1>2 DEF Objects

\* ConnectToClient gives the connection at the back the next id if it is open.
LEMMA IdentifyEffect ==
  ASSUME conn \in Objects, nIDCounter \in Nat, nIDCounter >= 10000,
         m_deqConnections \in Seq(Listable), Identify
  PROVE  /\ Len(m_deqConnections) \in 1 .. Len(m_deqConnections) /\ Back \in Clients
         /\ nIDCounter' = nIDCounter + 1
         /\ conn' \in Objects'
         /\ \A d \in Clients : conn'[d].open = conn[d].open
         /\ \A d \in Clients : d # Back => conn'[d].id = conn[d].id
         /\ conn[Back].open => conn'[Back].id = nIDCounter
         /\ ~conn[Back].open => conn'[Back].id = conn[Back].id
<1>1. Len(m_deqConnections) \in 1 .. Len(m_deqConnections) /\ Back \in Clients
  BY DEF Identify, ConnectToClient, HasBack, Back, Listable
<1>2. nIDCounter' = nIDCounter + 1
  BY DEF Identify, ConnectToClient
<1>3. Ids \subseteq Ids' /\ nIDCounter \in Ids'
  BY <1>2 DEF Ids
<1>4. CASE conn[Back].open
  <2>1. conn' = [conn EXCEPT ![Back].id = nIDCounter]
    BY <1>4 DEF Identify, ConnectToClient
  <2>. QED BY <1>1, <1>2, <1>3, <1>4, <2>1 DEF Objects
<1>5. CASE ~conn[Back].open
  <2>1. conn' = [conn EXCEPT ![Back].id = conn[Back].id]
    BY <1>5 DEF Identify, ConnectToClient
  <2>2. conn' = conn
    BY <1>1, <2>1 DEF Objects
  <2>3. conn' \in Objects'
    <3>1. ASSUME NEW S, NEW T, S \subseteq T, NEW f \in [Clients -> [id : S, open : BOOLEAN]]
          PROVE  f \in [Clients -> [id : T, open : BOOLEAN]]
      BY ONLY <3>1
    <3>2. conn \in [Clients -> [id : Ids, open : BOOLEAN]]
      BY DEF Objects
    <3>. QED BY ONLY <1>3, <2>2, <3>1, <3>2 DEF Objects
  <2>. QED BY <1>1, <1>2, <1>5, <2>2, <2>3
<1>. QED BY <1>4, <1>5

-----------------------------------------------------------------------------
(* What the steps do to m_deqConnections.                                  *)

\* push_back leaves what is there and adds the new connection.
LEMMA PushBackEffect ==
  ASSUME m_deqConnections \in Seq(Listable), newConn \in Clients, PushBack
  PROVE  /\ m_deqConnections' \in Seq(Listable)
         /\ Len(m_deqConnections') = Len(m_deqConnections) + 1
         /\ \A i \in 1 .. Len(m_deqConnections) : m_deqConnections'[i] = m_deqConnections[i]
         /\ m_deqConnections'[Len(m_deqConnections) + 1] = newConn
<1>1. newConn \in Listable
  BY DEF Listable
<1>2. m_deqConnections' = Append(m_deqConnections, newConn)
  BY DEF PushBack
<1>. QED BY <1>1, <1>2

\* connection.reset() of one element.
LEMMA ResetEffect ==
  ASSUME m_deqConnections \in Seq(Listable), NEW k \in 1 .. Len(m_deqConnections),
         m_deqConnections' = [m_deqConnections EXCEPT ![k] = Null]
  PROVE  /\ m_deqConnections' \in Seq(Listable)
         /\ Len(m_deqConnections') = Len(m_deqConnections)
         /\ m_deqConnections'[k] = Null
         /\ \A i \in 1 .. Len(m_deqConnections) :
              i # k => m_deqConnections'[i] = m_deqConnections[i]
<1>1. Null \in Listable
  BY DEF Listable
<1>. QED BY <1>1

\* std::remove moves one element forward.
LEMMA KeepEffect ==
  ASSUME m_deqConnections \in Seq(Listable), NEW i \in 1 .. Len(m_deqConnections),
         NEW k \in 1 .. Len(m_deqConnections),
         m_deqConnections' = [m_deqConnections EXCEPT ![i] = Null,
                                                     ![k] = m_deqConnections[i]]
  PROVE  /\ m_deqConnections' \in Seq(Listable)
         /\ Len(m_deqConnections') = Len(m_deqConnections)
         /\ m_deqConnections'[k] = m_deqConnections[i]
         /\ i # k => m_deqConnections'[i] = Null
         /\ \A j \in 1 .. Len(m_deqConnections) :
              j # i /\ j # k => m_deqConnections'[j] = m_deqConnections[j]
<1>1. Null \in Listable /\ m_deqConnections[i] \in Listable
  BY DEF Listable
<1>2. PICK s : s = [m_deqConnections EXCEPT ![i] = Null]
  OBVIOUS
<1>5. s \in Seq(Listable)
  BY ONLY <1>1, <1>2, m_deqConnections \in Seq(Listable), i \in 1 .. Len(m_deqConnections)
<1>3. /\ Len(s) = Len(m_deqConnections) /\ s[i] = Null
      /\ \A j \in 1 .. Len(m_deqConnections) : j # i => s[j] = m_deqConnections[j]
  BY ONLY <1>1, <1>2, <1>5, m_deqConnections \in Seq(Listable),
          i \in 1 .. Len(m_deqConnections)
<1>4. m_deqConnections' = [s EXCEPT ![k] = m_deqConnections[i]]
  BY <1>2
<1>. QED BY <1>1, <1>3, <1>4, <1>5

\* What is left of a sequence when a stretch of it is erased.
LEMMA ErasedSequence ==
  ASSUME NEW S, NEW s \in Seq(S), NEW k \in 0 .. Len(s), NEW l \in k .. Len(s),
         NEW r, r = SubSeq(s, 1, k) \o SubSeq(s, l + 1, Len(s))
  PROVE  /\ r \in Seq(S)
         /\ Len(r) = k + (Len(s) - l)
         /\ \A i \in 1 .. k : r[i] = s[i]
         /\ \A i \in k + 1 .. Len(r) : r[i] = s[i - k + l]
<1>1. PICK a : a = SubSeq(s, 1, k)
  OBVIOUS
<1>2. a \in Seq(S) /\ Len(a) = k /\ \A i \in 1 .. k : a[i] = s[i]
  BY <1>1
<1>3. PICK b : b = SubSeq(s, l + 1, Len(s))
  OBVIOUS
<1>4. b \in Seq(S) /\ Len(b) = Len(s) - l /\ \A i \in 1 .. Len(b) : b[i] = s[l + i]
  <2>1. \A i \in l + 1 .. Len(s) : s[i] \in S
    OBVIOUS
  <2>2. l + 1 \in Int /\ Len(s) \in Int /\ l <= Len(s) /\ l \in Nat
    OBVIOUS
  <2>3. /\ b \in Seq(S)
        /\ Len(b) = IF l + 1 <= Len(s) THEN Len(s) - (l + 1) + 1 ELSE 0
        /\ \A i \in 1 .. Len(s) - (l + 1) + 1 : b[i] = s[l + 1 + i - 1]
    BY ONLY <1>3, <2>1, <2>2, SubSeqProperties
  <2>4. Len(b) = Len(s) - l
    BY ONLY <2>2, <2>3
  <2>5. ASSUME NEW i \in 1 .. Len(b) PROVE b[i] = s[l + i]
    <3>1. i \in 1 .. Len(s) - (l + 1) + 1 /\ l + 1 + i - 1 = l + i
      BY ONLY <2>2, <2>4, i \in 1 .. Len(b)
    <3>. QED BY ONLY <2>3, <3>1
  <2>. QED BY ONLY <2>3, <2>4, <2>5
<1>5. r = a \o b
  BY <1>1, <1>3
<1>6. r \in Seq(S) /\ Len(r) = Len(a) + Len(b)
      /\ \A i \in 1 .. Len(a) + Len(b) :
           r[i] = IF i <= Len(a) THEN a[i] ELSE b[i - Len(a)]
  BY ONLY <1>2, <1>4, <1>5, ConcatProperties
<1>7. Len(s) \in Nat /\ k \in Nat /\ l \in Nat /\ k <= l /\ l <= Len(s)
  OBVIOUS
<1>8. Len(r) = k + (Len(s) - l)
  BY <1>2, <1>4, <1>6
<1>9. ASSUME NEW i \in 1 .. k PROVE r[i] = s[i]
  <2>1. i \in 1 .. Len(a) + Len(b) /\ i <= Len(a)
    BY ONLY <1>2, <1>4, <1>7, i \in 1 .. k
  <2>. QED BY <1>2, <1>6, <2>1
<1>10. ASSUME NEW i \in k + 1 .. Len(r) PROVE r[i] = s[i - k + l]
  <2>1. i \in 1 .. Len(a) + Len(b) /\ ~(i <= Len(a))
    BY ONLY <1>2, <1>6, <1>7, i \in k + 1 .. Len(r)
  <2>2. i - k \in 1 .. Len(b)
    BY ONLY <1>2, <1>4, <1>6, <1>7, i \in k + 1 .. Len(r)
  <2>3. r[i] = b[i - k]
    BY ONLY <1>2, <1>6, <2>1
  <2>4. l + (i - k) = i - k + l
    BY ONLY <1>7, i \in k + 1 .. Len(r), <1>6, <1>2, <1>4
  <2>. QED BY ONLY <1>4, <2>2, <2>3, <2>4
<1>. QED BY ONLY <1>6, <1>8, <1>9, <1>10

\* The same of m_deqConnections, for either end().
LEMMA EraseEffect ==
  ASSUME m_deqConnections \in Seq(Listable), Erase,
         main.kept \in 0 .. main.end, main.end \in 0 .. Len(m_deqConnections)
  PROVE  \E last \in {main.end, Len(m_deqConnections)} :
           /\ m_deqConnections' \in Seq(Listable)
           /\ Len(m_deqConnections') = main.kept + (Len(m_deqConnections) - last)
           /\ \A i \in 1 .. main.kept : m_deqConnections'[i] = m_deqConnections[i]
           /\ \A i \in main.kept + 1 .. Len(m_deqConnections') :
                m_deqConnections'[i] = m_deqConnections[i - main.kept + last]
<1>1. PICK last \in {main.end, Len(m_deqConnections)} :
        m_deqConnections' = SubSeq(m_deqConnections, 1, main.kept)
                              \o SubSeq(m_deqConnections, last + 1, Len(m_deqConnections))
  BY DEF Erase
<1>2. PICK k, s, r : k = main.kept /\ s = m_deqConnections /\ r = m_deqConnections'
  OBVIOUS
<1>3. s \in Seq(Listable) /\ k \in 0 .. Len(s) /\ last \in k .. Len(s)
  BY <1>2
<1>4. r = SubSeq(s, 1, k) \o SubSeq(s, last + 1, Len(s))
  BY <1>1, <1>2
<1>5. /\ r \in Seq(Listable)
      /\ Len(r) = k + (Len(s) - last)
      /\ \A i \in 1 .. k : r[i] = s[i]
      /\ \A i \in k + 1 .. Len(r) : r[i] = s[i - k + last]
  BY ONLY <1>3, <1>4, ErasedSequence, SMTT(60)
<1>. QED BY ONLY <1>1, <1>2, <1>5

-----------------------------------------------------------------------------
(* Types, and where the loops over the deque are.                          *)

\* Where the main thread is in a loop over the deque.
Loops == {"search", "sweep", "remove", "erase"}

LoopOK ==
  /\ main.cursor >= 1
  /\ main.kept < main.cursor
  /\ main.at \in Loops => main.cursor <= main.end + 1 /\ main.end <= Len(m_deqConnections)
  /\ main.at \in {"search", "sweep"} => main.kept = 0
  /\ main.at = "erase" => main.cursor = main.end + 1

\* The accept handler is running.
InHandler == acceptor \in {"accepted", "greeted", "pushed"}

AcceptOK == nIDCounter >= 10000 /\ (InHandler => newConn \in Clients)

TypeInv == InterfaceTypeOK /\ LoopOK /\ AcceptOK

\* The types hold at first.
LEMMA TypeInvInit == InterfaceInit => TypeInv
<1> SUFFICES ASSUME InterfaceInit PROVE TypeInv
  OBVIOUS
<1>1. /\ m_threadContext = "none" /\ acceptor = "unarmed" /\ newConn = Null
      /\ nIDCounter = 10000 /\ errors = 0 /\ stopped = FALSE /\ overlapped = FALSE
  BY DEF InterfaceInit
<1>2. conn \in Objects
  BY DEF InterfaceInit, Objects, Ids
<1>3. main = [at |-> "starting", calls |-> 0, cursor |-> 1, end |-> 0, kept |-> 0,
              id |-> 0, pIgnoreClient |-> Null, bInvalidClientExists |-> FALSE,
              found |-> Null, due |-> Null]
  BY DEF InterfaceInit
<1>4. main \in Locals
  BY <1>3 DEF Locals, Points
<1>5. /\ arrival \in [Clients -> {"outside", "backlog", "accepted"}]
      /\ clientOpen \in [Clients -> BOOLEAN]
  BY DEF InterfaceInit
<1>6. m_deqConnections \in Seq(Listable) /\ toClient \in [Clients -> Seq(Kinds)]
  BY DEF InterfaceInit
<1>7. InterfaceTypeOK
  <2>1. /\ m_threadContext \in {"none", "running", "ended"}
        /\ acceptor \in {"unarmed", "armed", "failed", "accepted", "greeted", "pushed", "ended"}
    BY <1>1
  <2>2. newConn \in Clients \cup {Null} /\ nIDCounter \in Nat /\ errors \in Nat
    BY <1>1
  <2>3. stopped \in BOOLEAN /\ overlapped \in BOOLEAN
    <3>1. stopped = FALSE /\ overlapped = FALSE
      BY <1>1
    <3>. QED BY ONLY <3>1, ZenonT(30)
  <2>. QED BY <1>2, <1>4, <1>5, <1>6, <2>1, <2>2, <2>3 DEF InterfaceTypeOK
<1>8. main.at = "starting" /\ main.cursor = 1 /\ main.kept = 0
  BY <1>3
<1>9. LoopOK
  BY <1>8 DEF LoopOK, Loops
<1>10. AcceptOK
  BY <1>1 DEF AcceptOK, InHandler
<1>. QED BY <1>7, <1>9, <1>10 DEF TypeInv

\* The parts of the types that a proof usually needs.
LEMMA TypeFacts ==
  ASSUME TypeInv
  PROVE  /\ conn \in Objects /\ m_deqConnections \in Seq(Listable)
         /\ toClient \in [Clients -> Seq(Kinds)] /\ main \in Locals
         /\ nIDCounter \in Nat /\ nIDCounter >= 10000
         /\ Len(m_deqConnections) \in Nat
         /\ main.at \in Points /\ main.cursor \in Nat /\ main.end \in Nat
         /\ main.kept \in Nat /\ main.id \in Nat /\ main.due \in Listable
         /\ main.bInvalidClientExists \in BOOLEAN
         /\ \A i \in 1 .. Len(m_deqConnections) : m_deqConnections[i] \in Listable
         /\ \A c \in Clients : toClient[c] \in Seq(Kinds)
         /\ \A c \in Clients : conn[c].id \in Nat /\ conn[c].id < nIDCounter
                              /\ conn[c].open \in BOOLEAN
<1>1. /\ conn \in Objects /\ m_deqConnections \in Seq(Listable)
      /\ toClient \in [Clients -> Seq(Kinds)] /\ main \in Locals
      /\ nIDCounter \in Nat /\ nIDCounter >= 10000
  BY DEF TypeInv, InterfaceTypeOK, AcceptOK
<1>2. /\ main.at \in Points /\ main.cursor \in Nat /\ main.end \in Nat
      /\ main.kept \in Nat /\ main.id \in Nat /\ main.due \in Listable
      /\ main.bInvalidClientExists \in BOOLEAN
  BY <1>1 DEF Locals, Listable
<1>3. ASSUME NEW c \in Clients
      PROVE  conn[c].id \in Nat /\ conn[c].id < nIDCounter /\ conn[c].open \in BOOLEAN
  BY <1>1 DEF Objects, Ids
<1>. QED BY <1>1, <1>2, <1>3

\* Steps that leave the main thread's locals and the deque alone.
LEMMA LoopSame ==
  ASSUME LoopOK, UNCHANGED <<main, m_deqConnections>>
  PROVE  LoopOK'
BY DEF LoopOK

\* Connection objects that are left alone keep their type.
LEMMA ObjectsSame == conn \in Objects /\ UNCHANGED <<conn, nIDCounter>> => conn' \in Objects'
BY DEF Objects, Ids

\* A step of a client or of the io_context thread.
IoStep ==
  \/ \E c \in Clients : Arrive(c) \/ Leave(c) \/ NoticeClientGone(c)
  \/ TakeError \/ EndpointThrows \/ AcceptStep

\* The clients and the io_context thread keep the types.
LEMMA IoStepTypes ==
  ASSUME TypeInv, IoStep
  PROVE  TypeInv'
<1> USE DEF clientVars, acceptVars, dequeVars
<1>f. /\ conn \in Objects /\ m_deqConnections \in Seq(Listable)
      /\ toClient \in [Clients -> Seq(Kinds)]
      /\ nIDCounter \in Nat /\ nIDCounter >= 10000
  BY TypeFacts
<1>1. ASSUME NEW c \in Clients, Arrive(c) \/ Leave(c) PROVE TypeInv'
  <2>1. LoopOK' /\ conn' \in Objects'
    BY <1>1, <1>f, LoopSame, ObjectsSame DEF Arrive, Leave, TypeInv
  <2>2. arrival' \in [Clients -> {"outside", "backlog", "accepted"}]
    BY <1>1 DEF Arrive, Leave, TypeInv, InterfaceTypeOK
  <2>3. clientOpen' \in [Clients -> BOOLEAN]
    BY <1>1 DEF Arrive, Leave, TypeInv, InterfaceTypeOK
  <2>. QED BY <1>1, <2>1, <2>2, <2>3
       DEF Arrive, Leave, TypeInv, InterfaceTypeOK, AcceptOK, InHandler
<1>2. ASSUME NEW c \in Clients, NoticeClientGone(c) PROVE TypeInv'
  <2>1. LoopOK'
    BY <1>2, LoopSame DEF NoticeClientGone, Accepting, TypeInv
  <2>2. conn' \in Objects'
    BY <1>2, <1>f, GoneEffect
  <2>3. UNCHANGED <<m_deqConnections, nIDCounter, toClient, arrival, clientOpen, errors,
                    m_threadContext, newConn, stopped, overlapped, main, acceptor>>
    BY <1>2 DEF NoticeClientGone, Accepting
  <2>. QED BY <2>1, <2>2, <2>3 DEF TypeInv, InterfaceTypeOK, AcceptOK, InHandler
<1>3. ASSUME NEW c \in Clients, TakeConnection(c) PROVE TypeInv'
  <2>1. LoopOK' /\ conn' \in Objects'
    BY <1>3, <1>f, LoopSame, ObjectsSame DEF TakeConnection, Accepting, TypeInv
  <2>2. arrival' \in [Clients -> {"outside", "backlog", "accepted"}]
    BY <1>3 DEF TakeConnection, TypeInv, InterfaceTypeOK
  <2>. QED BY <1>3, <2>1, <2>2
       DEF TakeConnection, Accepting, TypeInv, InterfaceTypeOK, AcceptOK, InHandler
<1>4. ASSUME TakeError \/ EndpointThrows \/ ReportError \/ BackIsNothing PROVE TypeInv'
  <2>1. /\ UNCHANGED <<main, m_deqConnections, conn, nIDCounter, toClient, arrival>>
        /\ UNCHANGED <<clientOpen, m_threadContext, newConn, stopped>>
        /\ acceptor' \in {"failed", "armed", "ended"}
        /\ errors' \in {errors, errors + 1}
    BY <1>4 DEF TakeError, EndpointThrows, ReportError, BackIsNothing, Accepting
  <2>2. overlapped' \in BOOLEAN
    BY <1>4 DEF TakeError, EndpointThrows, ReportError, BackIsNothing, TypeInv, InterfaceTypeOK
  <2>3. LoopOK' /\ conn' \in Objects'
    BY <1>f, <2>1, LoopSame, ObjectsSame DEF TypeInv
  <2>. QED BY <2>1, <2>2, <2>3 DEF TypeInv, InterfaceTypeOK, AcceptOK, InHandler
<1>5. CASE OnClientConnect
  <2>1. newConn \in Clients
    BY <1>5 DEF OnClientConnect, Accepting, TypeInv, AcceptOK, InHandler
  <2>2. LoopOK'
    BY <1>5, LoopSame DEF OnClientConnect, Accepting, TypeInv
  <2>3. conn' \in Objects'
    BY <1>5, <1>f, <2>1, ConnectEffect
  <2>4. toClient' \in [Clients -> Seq(Kinds)]
    BY <1>5, <1>f, <2>1, SendToEffect DEF OnClientConnect, Kinds
  <2>. QED BY <1>5, <2>1, <2>2, <2>3, <2>4
       DEF OnClientConnect, Accepting, TypeInv, InterfaceTypeOK, AcceptOK, InHandler
<1>6. CASE PushBack
  <2>1. newConn \in Clients
    BY <1>6 DEF PushBack, Accepting, TypeInv, AcceptOK, InHandler
  <2>2. m_deqConnections' \in Seq(Listable)
        /\ Len(m_deqConnections') = Len(m_deqConnections) + 1
    BY <1>6, <1>f, <2>1, PushBackEffect
  <2>3. LoopOK'
    <3>1. LoopOK /\ main' = main /\ main.end \in Nat /\ Len(m_deqConnections) \in Nat
      BY <1>6, TypeFacts DEF PushBack, Accepting, TypeInv
    <3>. QED BY <2>2, <3>1 DEF LoopOK
  <2>4. conn' \in Objects'
    BY <1>6, <1>f, ObjectsSame DEF PushBack
  <2>. QED BY <1>6, <2>1, <2>2, <2>3, <2>4
       DEF PushBack, Accepting, TypeInv, InterfaceTypeOK, AcceptOK, InHandler
<1>7. CASE Identify
  <2>1. conn' \in Objects' /\ nIDCounter' = nIDCounter + 1
    BY <1>7, <1>f, IdentifyEffect
  <2>2. LoopOK'
    BY <1>7, LoopSame DEF Identify, ConnectToClient, Accepting, TypeInv
  <2>. QED BY <1>7, <2>1, <2>2
       DEF Identify, ConnectToClient, Accepting, TypeInv, InterfaceTypeOK, AcceptOK, InHandler
<1>8. CASE RunReturns
  <2>1. LoopOK' /\ conn' \in Objects'
    BY <1>8, <1>f, LoopSame, ObjectsSame DEF RunReturns, TypeInv
  <2>. QED BY <1>8, <2>1 DEF RunReturns, TypeInv, InterfaceTypeOK, AcceptOK, InHandler
<1>. QED BY <1>1, <1>2, <1>3, <1>4, <1>5, <1>6, <1>7, <1>8
     DEF IoStep, AcceptStep
\* The main thread's steps, but for its locals and the loops.
LEMMA MainStepSimple ==
  ASSUME TypeInv, MainStep \/ MainCall
  PROVE  /\ UNCHANGED <<clientVars, newConn, nIDCounter, errors, overlapped, conn>>
         /\ conn' \in Objects'
         /\ arrival' \in [Clients -> {"outside", "backlog", "accepted"}]
         /\ m_threadContext' \in {"none", "running", "ended"}
         /\ acceptor' = acceptor \/ (Start /\ acceptor' = "armed")
         /\ stopped' \in BOOLEAN
<1> USE DEF At, In, Call, acceptVars, dequeVars
<1> DEFINE Simple ==
      /\ UNCHANGED <<clientVars, newConn, nIDCounter, errors, overlapped, conn>>
      /\ acceptor' = acceptor \/ (Start /\ acceptor' = "armed")
      /\ m_threadContext' \in {"none", "running", m_threadContext}
      /\ stopped' \in {stopped, TRUE}
<1>1. Simple
  <2>1. CASE Start \/ Stop \/ Join
    BY <2>1 DEF Start, Stop, Join
  <2>2. CASE SearchOn \/ SearchHit \/ SearchEnds \/ SearchReturns
    BY <2>2 DEF SearchOn, SearchHit, SearchEnds, SearchReturns
  <2>3. CASE Sweep \/ SweepEnds \/ RemoveNull \/ Keep \/ RemoveEnds \/ Erase
    BY <2>3 DEF Sweep, SweepEnds, RemoveNull, Keep, RemoveEnds, Erase
  <2>4. ASSUME NEW n \in {0} \cup 10000 .. nIDCounter, Search(n) PROVE Simple
    BY <2>4 DEF Search
  <2>5. ASSUME NEW c \in Listable, MessageClient(c) \/ MessageAllClients(c) PROVE Simple
    BY <2>5 DEF MessageClient, MessageAllClients
  <2>. HIDE DEF Simple, At, In, Call, acceptVars, dequeVars
  <2>6. CASE MainStep
    BY <2>1, <2>2, <2>3, <2>6 DEF MainStep
  <2>7. CASE MainCall
    BY <2>1, <2>4, <2>5, <2>7 DEF MainCall, Listable
  <2>. QED BY <2>6, <2>7
<1>. QED BY <1>1, ObjectsSame DEF TypeInv, InterfaceTypeOK, clientVars

-----------------------------------------------------------------------------
(* Each step of the main thread, told without records: where it leads, and *)
(* what it does to the deque.                                              *)

\* The steps that touch neither the deque nor what is sent.
LEMMA QuietStep ==
  ASSUME TypeInv,
         Start \/ Stop \/ SearchEnds \/ SearchReturns \/ Join
           \/ (SweepEnds /\ ~main.bInvalidClientExists)
  PROVE  /\ main' \in Locals /\ main'.at \in {"idle", "joining", "searched", "stopped"}
         /\ main'.cursor = main.cursor /\ main'.kept = main.kept
         /\ main'.found = main.found /\ main'.due = main.due
         /\ main'.at = "searched" => main.at = "search" /\ ~InLoop
         /\ main.at \notin {"remove", "erase"}
         /\ main.at = "sweep" => ~main.bInvalidClientExists
         /\ UNCHANGED <<m_deqConnections, toClient>>
<1>f. main \in Locals /\ m_deqConnections \in Seq(Listable)
  BY TypeFacts
<1>1. PICK p \in {"idle", "joining", "searched", "stopped"} :
        /\ main' = [main EXCEPT !.at = p]
        /\ p = "searched" => SearchEnds
        /\ UNCHANGED <<m_deqConnections, toClient>>
        /\ main.at \notin {"remove", "erase"}
        /\ main.at = "sweep" => ~main.bInvalidClientExists
  BY DEF Start, Stop, SearchEnds, SearchReturns, Join, SweepEnds, dequeVars, In, At
<1>2. p \in Points
  BY DEF Points
<1>3. /\ main' \in Locals /\ main'.at = p /\ main'.cursor = main.cursor
      /\ main'.kept = main.kept /\ main'.found = main.found /\ main'.due = main.due
  BY <1>f, <1>1, <1>2, TurnMain
<1>4. SearchEnds => main.at = "search" /\ ~InLoop
  BY DEF SearchEnds, In, At
<1>. QED BY <1>1, <1>3, <1>4

\* SearchOn and RemoveNull.
LEMMA AdvanceStep ==
  ASSUME TypeInv, SearchOn \/ RemoveNull
  PROVE  /\ main' \in Locals /\ main'.at = main.at /\ main'.cursor = main.cursor + 1
         /\ main'.end = main.end /\ main'.kept = main.kept /\ main'.id = main.id
         /\ main'.due = main.due
         /\ main.cursor <= main.end /\ main.cursor \in 1 .. Len(m_deqConnections)
         /\ \/ main.at = "search" /\ conn[m_deqConnections[main.cursor]].id # main.id
            \/ main.at = "remove" /\ m_deqConnections[main.cursor] = Null
         /\ UNCHANGED <<m_deqConnections, toClient>>
<1>1. /\ UNCHANGED <<m_deqConnections, toClient>> /\ main.cursor <= main.end
      /\ \/ main.at = "search" /\ conn[m_deqConnections[main.cursor]].id # main.id
         \/ main.at = "remove" /\ m_deqConnections[main.cursor] = Null
  BY DEF SearchOn, RemoveNull, In, At, InLoop, AtCursor, dequeVars
<1>2. main.cursor \in 1 .. Len(m_deqConnections)
  BY <1>1, TypeFacts DEF TypeInv, LoopOK, Loops
<1>. QED BY <1>1, <1>2, TypeFacts, SearchOnMain

\* SearchHit.
LEMMA HitStep ==
  ASSUME TypeInv, SearchHit
  PROVE  /\ main' \in Locals /\ main'.at = "searched"
         /\ main'.cursor = main.cursor /\ main'.kept = main.kept
         /\ main'.found = m_deqConnections[main.cursor] /\ main'.due = main.due
         /\ main.at = "search" /\ main.cursor \in 1 .. Len(m_deqConnections)
         /\ conn[m_deqConnections[main.cursor]].id = main.id
         /\ SendTo(m_deqConnections[main.cursor], "Message")
         /\ UNCHANGED m_deqConnections
<1>f. main \in Locals /\ m_deqConnections \in Seq(Listable)
  BY TypeFacts
<1>1. /\ m_deqConnections' = m_deqConnections /\ main.at = "search" /\ main.cursor <= main.end
      /\ main' = [main EXCEPT !.at = "searched", !.found = m_deqConnections[main.cursor]]
      /\ conn[m_deqConnections[main.cursor]].id = main.id
      /\ SendTo(m_deqConnections[main.cursor], "Message")
  BY DEF SearchHit, In, At, InLoop, AtCursor
<1>2. main.cursor \in 1 .. Len(m_deqConnections)
  BY <1>1, TypeFacts DEF TypeInv, LoopOK, Loops
<1>3. m_deqConnections[main.cursor] \in Clients \cup {Null}
  BY <1>2, TypeFacts DEF Listable
<1>4. /\ main' \in Locals /\ main'.at = "searched"
      /\ main'.cursor = main.cursor /\ main'.kept = main.kept
      /\ main'.found = m_deqConnections[main.cursor] /\ main'.due = main.due
  BY <1>f, <1>1, <1>3, SearchHitMain
<1>. QED BY <1>1, <1>2, <1>4

\* Search.
LEMMA SearchStep ==
  ASSUME TypeInv, NEW n \in {0} \cup 10000 .. nIDCounter, Search(n)
  PROVE  /\ main' \in Locals /\ main'.at = "search" /\ main'.cursor = 1
         /\ main'.end = Len(m_deqConnections) /\ main'.kept = 0 /\ main'.id = n
         /\ main'.due # Null => n # 0 /\ main'.due \in WithId(n)
         /\ main.at = "idle" /\ UNCHANGED <<m_deqConnections, toClient>>
<1>1. n \in Nat
  BY TypeFacts
<1>2. main.at = "idle" /\ UNCHANGED <<m_deqConnections, toClient>>
  BY DEF Search, Call, At, dequeVars
<1>. QED BY <1>1, <1>2, TypeFacts, SearchMain

\* MessageClient.
LEMMA MessageStep ==
  ASSUME TypeInv, NEW c \in Clients, MessageClient(c)
  PROVE  /\ main' \in Locals /\ main.at = "idle"
         /\ \/ /\ main'.at = "idle" /\ main'.cursor = main.cursor /\ main'.kept = main.kept
               /\ conn[c].id # 0 /\ SendTo(c, "Message")
            \/ /\ main'.at = "remove" /\ main'.cursor = 1 /\ main'.kept = 0
               /\ main'.end = Len(m_deqConnections) /\ UNCHANGED toClient
         /\ UNCHANGED m_deqConnections
<1>1. /\ UNCHANGED m_deqConnections /\ main.at = "idle" /\ conn[c].id # 0
      /\ \/ conn[c].open /\ SendTo(c, "Message")
         \/ ~conn[c].open /\ UNCHANGED toClient
  BY DEF MessageClient, Call, At
<1>. QED BY <1>1, TypeFacts, MessageClientMain

\* MessageAllClients.
LEMMA SweepAllStep ==
  ASSUME TypeInv, NEW p \in Clients \cup {Null}, MessageAllClients(p)
  PROVE  /\ main' \in Locals /\ main'.at = "sweep" /\ main'.cursor = 1
         /\ main'.end = Len(m_deqConnections) /\ main'.kept = 0
         /\ main.at = "idle" /\ UNCHANGED <<m_deqConnections, toClient>>
<1>1. main.at = "idle" /\ UNCHANGED <<m_deqConnections, toClient>>
  BY DEF MessageAllClients, Call, At, dequeVars
<1>. QED BY <1>1, TypeFacts, SweepAllMain

\* Sweep: an open connection is sent to, a closed one is reset.
LEMMA SweepStep ==
  ASSUME TypeInv, Sweep
  PROVE  /\ main' \in Locals /\ main'.at = "sweep" /\ main'.cursor = main.cursor + 1
         /\ main'.end = main.end /\ main'.kept = main.kept
         /\ main.at = "sweep" /\ main.cursor <= main.end
         /\ main.cursor \in 1 .. Len(m_deqConnections)
         /\ m_deqConnections' \in Seq(Listable)
         /\ Len(m_deqConnections') = Len(m_deqConnections)
         /\ \/ /\ conn[m_deqConnections[main.cursor]].open
               /\ main'.bInvalidClientExists = main.bInvalidClientExists
               /\ UNCHANGED m_deqConnections
               /\ UNCHANGED toClient \/ SendTo(m_deqConnections[main.cursor], "Message")
            \/ /\ ~conn[m_deqConnections[main.cursor]].open
               /\ main'.bInvalidClientExists
               /\ m_deqConnections'[main.cursor] = Null
               /\ \A i \in 1 .. Len(m_deqConnections) :
                    i # main.cursor => m_deqConnections'[i] = m_deqConnections[i]
               /\ UNCHANGED toClient
<1>f. main \in Locals /\ m_deqConnections \in Seq(Listable)
  BY TypeFacts
<1>1. main.at = "sweep" /\ main.cursor <= main.end
  BY DEF Sweep, In, At, InLoop
<1>2. main.cursor \in 1 .. Len(m_deqConnections)
  BY <1>1, TypeFacts DEF TypeInv, LoopOK, Loops
<1>3. /\ main' \in Locals /\ main'.at = "sweep" /\ main'.cursor = main.cursor + 1
      /\ main'.end = main.end /\ main'.kept = main.kept
      /\ main'.bInvalidClientExists = (main.bInvalidClientExists \/ IsInvalid(AtCursor))
  BY <1>1, TypeFacts, SweepMain
<1>4. CASE conn[m_deqConnections[main.cursor]].open
  <2>1. /\ UNCHANGED m_deqConnections
        /\ UNCHANGED toClient \/ SendTo(m_deqConnections[main.cursor], "Message")
    BY <1>4 DEF Sweep, IsInvalid, AtCursor
  <2>2. main'.bInvalidClientExists = main.bInvalidClientExists
    BY <1>3, <1>4, TypeFacts DEF IsInvalid, AtCursor
  <2>. QED BY <1>1, <1>2, <1>3, <1>4, <2>1, <2>2, TypeFacts
<1>5. CASE ~conn[m_deqConnections[main.cursor]].open
  <2>1. /\ m_deqConnections' = [m_deqConnections EXCEPT ![main.cursor] = Null]
        /\ UNCHANGED toClient
    BY <1>5 DEF Sweep, IsInvalid, AtCursor
  <2>2. main'.bInvalidClientExists
    BY <1>3, <1>5 DEF IsInvalid, AtCursor
  <2>3. /\ m_deqConnections' \in Seq(Listable)
        /\ Len(m_deqConnections') = Len(m_deqConnections)
        /\ m_deqConnections'[main.cursor] = Null
        /\ \A i \in 1 .. Len(m_deqConnections) :
             i # main.cursor => m_deqConnections'[i] = m_deqConnections[i]
    BY <1>f, <1>2, <2>1, ResetEffect
  <2>. QED BY <1>1, <1>2, <1>3, <1>5, <2>1, <2>2, <2>3
<1>. QED BY <1>4, <1>5

\* SweepEnds, when there is something to remove.
LEMMA SweepEndsStep ==
  ASSUME TypeInv, SweepEnds, main.bInvalidClientExists
  PROVE  /\ main' \in Locals /\ main'.at = "remove" /\ main'.cursor = 1
         /\ main'.end = Len(m_deqConnections) /\ main'.kept = 0
         /\ main.at = "sweep" /\ UNCHANGED <<m_deqConnections, toClient>>
<1>1. /\ UNCHANGED <<m_deqConnections, toClient>> /\ main.at = "sweep"
      /\ main' = BeginLoop("remove", main.calls)
  BY DEF SweepEnds, In, At, dequeVars
<1>2. main.calls \in Nat
  BY TypeFacts DEF Locals
<1>. QED BY <1>1, <1>2, TypeFacts, RemovalMain

\* Keep.
LEMMA KeepStep ==
  ASSUME TypeInv, Keep
  PROVE  /\ main' \in Locals /\ main'.at = "remove" /\ main'.cursor = main.cursor + 1
         /\ main'.end = main.end /\ main'.kept = main.kept + 1
         /\ main.at = "remove" /\ main.cursor <= main.end
         /\ main.cursor \in 1 .. Len(m_deqConnections)
         /\ main.kept + 1 \in 1 .. Len(m_deqConnections)
         /\ m_deqConnections' \in Seq(Listable)
         /\ Len(m_deqConnections') = Len(m_deqConnections)
         /\ m_deqConnections[main.cursor] # Null
         /\ m_deqConnections'[main.kept + 1] = m_deqConnections[main.cursor]
         /\ main.cursor # main.kept + 1 => m_deqConnections'[main.cursor] = Null
         /\ \A j \in 1 .. Len(m_deqConnections) :
              j # main.cursor /\ j # main.kept + 1
                => m_deqConnections'[j] = m_deqConnections[j]
         /\ UNCHANGED toClient
<1>f. main \in Locals /\ m_deqConnections \in Seq(Listable)
  BY TypeFacts
<1>1. /\ main.at = "remove" /\ main.cursor <= main.end
      /\ m_deqConnections[main.cursor] # Null /\ UNCHANGED toClient
      /\ main' = [main EXCEPT !.cursor = main.cursor + 1, !.kept = main.kept + 1]
      /\ m_deqConnections' = [m_deqConnections EXCEPT
           ![main.cursor] = Null, ![main.kept + 1] = m_deqConnections[main.cursor]]
  BY DEF Keep, In, At, InLoop, AtCursor
<1>2. /\ main.cursor \in 1 .. Len(m_deqConnections)
      /\ main.kept + 1 \in 1 .. Len(m_deqConnections) /\ main.kept + 1 \in Nat
  BY <1>1, TypeFacts DEF TypeInv, LoopOK, Loops
<1>3. /\ main' \in Locals /\ main'.at = "remove" /\ main'.cursor = main.cursor + 1
      /\ main'.end = main.end /\ main'.kept = main.kept + 1
  BY <1>f, <1>1, <1>2, Advance
<1>4. /\ m_deqConnections' \in Seq(Listable)
      /\ Len(m_deqConnections') = Len(m_deqConnections)
      /\ m_deqConnections'[main.kept + 1] = m_deqConnections[main.cursor]
      /\ main.cursor # main.kept + 1 => m_deqConnections'[main.cursor] = Null
      /\ \A j \in 1 .. Len(m_deqConnections) :
           j # main.cursor /\ j # main.kept + 1
             => m_deqConnections'[j] = m_deqConnections[j]
  BY <1>f, <1>1, <1>2, KeepEffect
<1>. QED BY <1>1, <1>2, <1>3, <1>4

\* RemoveEnds.
LEMMA RemoveEndsStep ==
  ASSUME TypeInv, RemoveEnds
  PROVE  /\ main' \in Locals /\ main'.at = "erase" /\ main'.cursor = main.cursor
         /\ main'.end = main.end /\ main'.kept = main.kept
         /\ main.at = "remove" /\ main.cursor = main.end + 1
         /\ UNCHANGED <<m_deqConnections, toClient>>
<1>f. main \in Locals /\ m_deqConnections \in Seq(Listable)
  BY TypeFacts
<1>1. /\ UNCHANGED <<m_deqConnections, toClient>> /\ main' = [main EXCEPT !.at = "erase"]
      /\ main.at = "remove" /\ ~(main.cursor <= main.end)
  BY DEF RemoveEnds, In, At, InLoop, dequeVars
<1>2. "erase" \in Points
  BY DEF Points
<1>3. main.cursor = main.end + 1
  BY <1>1, TypeFacts DEF TypeInv, LoopOK, Loops
<1>4. /\ main' \in Locals /\ main'.at = "erase" /\ main'.cursor = main.cursor
      /\ main'.end = main.end /\ main'.kept = main.kept
  BY <1>f, <1>1, <1>2, TurnMain
<1>. QED BY <1>1, <1>3, <1>4

\* Erase.
LEMMA EraseStep ==
  ASSUME TypeInv, Erase
  PROVE  /\ main' \in Locals /\ main'.at = "idle" /\ main'.cursor = main.cursor
         /\ main'.kept = main.kept
         /\ main.at = "erase" /\ main.kept <= main.end /\ main.end <= Len(m_deqConnections)
         /\ main.cursor = main.end + 1
         /\ UNCHANGED toClient
         /\ \E last \in {main.end, Len(m_deqConnections)} :
              /\ m_deqConnections' \in Seq(Listable)
              /\ Len(m_deqConnections') = main.kept + (Len(m_deqConnections) - last)
              /\ \A i \in 1 .. main.kept : m_deqConnections'[i] = m_deqConnections[i]
              /\ \A i \in main.kept + 1 .. Len(m_deqConnections') :
                   m_deqConnections'[i] = m_deqConnections[i - main.kept + last]
<1>f. main \in Locals /\ m_deqConnections \in Seq(Listable)
  BY TypeFacts
<1>1. main' = [main EXCEPT !.at = "idle"] /\ main.at = "erase" /\ UNCHANGED toClient
  BY DEF Erase, In, At
<1>2. "idle" \in Points
  BY DEF Points
<1>3. /\ main.kept \in 0 .. main.end /\ main.end \in 0 .. Len(m_deqConnections)
      /\ main.cursor = main.end + 1
  BY <1>1, TypeFacts DEF TypeInv, LoopOK, Loops
<1>4. /\ main' \in Locals /\ main'.at = "idle" /\ main'.cursor = main.cursor
      /\ main'.kept = main.kept
  BY <1>f, <1>1, <1>2, TurnMain
<1>5. m_deqConnections \in Seq(Listable)
  BY TypeFacts
<1>. QED BY <1>1, <1>3, <1>4, <1>5, EraseEffect

\* The steps that only lead on.
Quiet ==
  Start \/ Stop \/ SearchEnds \/ SearchReturns \/ Join
    \/ (SweepEnds /\ ~main.bInvalidClientExists)

\* The steps of the main thread, as the lemmas above sort them.
LEMMA MainCases ==
  ASSUME MainStep \/ MainCall
  PROVE  \/ Quiet \/ SearchOn \/ RemoveNull \/ SearchHit \/ Sweep
         \/ (SweepEnds /\ main.bInvalidClientExists) \/ Keep \/ RemoveEnds \/ Erase
         \/ \E n \in {0} \cup 10000 .. nIDCounter : Search(n)
         \/ \E c \in Clients : MessageClient(c)
         \/ \E p \in Clients \cup {Null} : MessageAllClients(p)
BY DEF MainStep, MainCall, Quiet

\* The main thread keeps its locals and the deque well typed.
LEMMA MainStepTypes ==
  ASSUME TypeInv, MainStep \/ MainCall
  PROVE  /\ main' \in Locals /\ LoopOK'
         /\ m_deqConnections' \in Seq(Listable)
<1> DEFINE Goal == main' \in Locals /\ LoopOK' /\ m_deqConnections' \in Seq(Listable)
<1>f. /\ m_deqConnections \in Seq(Listable) /\ LoopOK
      /\ main.at \in Points /\ main.cursor \in Nat /\ main.end \in Nat /\ main.kept \in Nat
      /\ Len(m_deqConnections) \in Nat
  BY TypeFacts DEF TypeInv
<1> USE DEF LoopOK, Loops
<1>1. CASE Quiet
  BY <1>1, <1>f, QuietStep DEF Quiet
<1>2. CASE SearchOn \/ RemoveNull
  BY <1>2, <1>f, AdvanceStep
<1>3. CASE SearchHit
  BY <1>3, <1>f, HitStep
<1>4. ASSUME NEW n \in {0} \cup 10000 .. nIDCounter, Search(n) PROVE Goal
  BY <1>4, <1>f, SearchStep
<1>5. ASSUME NEW c \in Clients, MessageClient(c) PROVE Goal
  BY <1>5, <1>f, MessageStep
<1>6. ASSUME NEW p \in Clients \cup {Null}, MessageAllClients(p) PROVE Goal
  BY <1>6, <1>f, SweepAllStep
<1>7. CASE Sweep
  BY <1>7, <1>f, SweepStep
<1>8. CASE SweepEnds /\ main.bInvalidClientExists
  BY <1>8, <1>f, SweepEndsStep
<1>9. CASE Keep
  BY <1>9, <1>f, KeepStep
<1>10. CASE RemoveEnds
  BY <1>10, <1>f, RemoveEndsStep
<1>11. CASE Erase
  BY <1>11, <1>f, EraseStep
<1>. HIDE DEF Goal
<1>. QED BY <1>1, <1>2, <1>3, <1>4, <1>5, <1>6, <1>7, <1>8, <1>9, <1>10, <1>11,
            MainCases DEF Goal

-----------------------------------------------------------------------------
(* Where the null pointers are.                                            *)

Places == 1 .. Len(m_deqConnections)

NullsOK ==
  \A i \in Places :
    /\ main.at \notin {"sweep", "remove", "erase"} => m_deqConnections[i] # Null
    /\ main.at = "sweep" /\ m_deqConnections[i] = Null
         => i < main.cursor /\ main.bInvalidClientExists
    /\ main.at \in {"remove", "erase"} =>
         /\ i <= main.kept \/ i > main.end => m_deqConnections[i] # Null
         /\ main.kept < i /\ i < main.cursor => m_deqConnections[i] = Null

\* Of the other threads only push_back touches the deque.
LEMMA IoStepQuiet ==
  ASSUME IoStep
  PROVE  main' = main /\ (PushBack \/ UNCHANGED m_deqConnections)
<1> USE DEF acceptVars, dequeVars, Accepting
<1>1. ASSUME NEW c \in Clients,
             Arrive(c) \/ Leave(c) \/ NoticeClientGone(c) \/ TakeConnection(c)
      PROVE  UNCHANGED <<main, m_deqConnections>>
  BY <1>1 DEF Arrive, Leave, NoticeClientGone, TakeConnection
<1>2. CASE TakeError \/ EndpointThrows \/ ReportError \/ OnClientConnect \/ Identify
             \/ BackIsNothing \/ RunReturns
  BY <1>2 DEF TakeError, EndpointThrows, ReportError, OnClientConnect, Identify,
              ConnectToClient, BackIsNothing, RunReturns
<1>3. PushBack => main' = main
  BY DEF PushBack
<1>. QED BY <1>1, <1>2, <1>3 DEF IoStep, AcceptStep

\* They bring no null pointer into it.
LEMMA IoStepNulls ==
  ASSUME TypeInv, NullsOK, IoStep
  PROVE  NullsOK'
<1>1. main' = main
  BY IoStepQuiet
<1>2. CASE UNCHANGED m_deqConnections
  BY <1>1, <1>2 DEF NullsOK, Places
<1>3. CASE PushBack
  <2>1. newConn \in Clients
    BY <1>3 DEF PushBack, Accepting, TypeInv, AcceptOK, InHandler
  <2>2. newConn # Null
    BY <2>1, InterfaceAssumption
  <2>3. /\ Len(m_deqConnections') = Len(m_deqConnections) + 1
        /\ \A i \in Places : m_deqConnections'[i] = m_deqConnections[i]
        /\ m_deqConnections'[Len(m_deqConnections) + 1] = newConn
    BY <1>3, <2>1, TypeFacts, PushBackEffect DEF Places
  <2>4. ASSUME NEW i \in Places'
        PROVE  i \in Places \/ i = Len(m_deqConnections) + 1
    BY <2>3, TypeFacts DEF Places
  <2>5. main.cursor <= Len(m_deqConnections) + 1 \/ main.at \notin Loops
    BY TypeFacts DEF TypeInv, LoopOK
  <2>. QED BY <1>1, <2>2, <2>3, <2>4, <2>5, TypeFacts DEF NullsOK, Places, Loops
<1>. QED BY <1>2, <1>3, IoStepQuiet

\* The main thread leaves null pointers only where it will remove them.
LEMMA MainStepNulls ==
  ASSUME TypeInv, NullsOK, MainStep \/ MainCall
  PROVE  NullsOK'
<1> DEFINE Goal == NullsOK'
<1>f. /\ main.at \in Points /\ main.cursor \in Nat /\ main.end \in Nat /\ main.kept \in Nat
      /\ Len(m_deqConnections) \in Nat /\ main.bInvalidClientExists \in BOOLEAN
  BY TypeFacts
<1>l. LoopOK
  BY DEF TypeInv
<1> USE DEF NullsOK, Places
<1>1. CASE Quiet
  <2>1. /\ main'.at \in {"idle", "joining", "searched", "stopped"}
        /\ main.at \notin {"remove", "erase"}
        /\ main.at = "sweep" => ~main.bInvalidClientExists
        /\ UNCHANGED m_deqConnections
    BY <1>1, QuietStep DEF Quiet
  <2>. QED BY <2>1
<1>2. CASE SearchOn \/ RemoveNull
  BY <1>2, <1>f, <1>l, AdvanceStep DEF LoopOK, Loops
<1>3. CASE SearchHit
  BY <1>3, <1>f, HitStep
<1>4. ASSUME NEW n \in {0} \cup 10000 .. nIDCounter, Search(n) PROVE Goal
  BY <1>4, <1>f, SearchStep
<1>5. ASSUME NEW c \in Clients, MessageClient(c) PROVE Goal
  BY <1>5, <1>f, MessageStep
<1>6. ASSUME NEW p \in Clients \cup {Null}, MessageAllClients(p) PROVE Goal
  BY <1>6, <1>f, SweepAllStep
<1>7. CASE Sweep
  BY <1>7, <1>f, SweepStep
<1>8. CASE SweepEnds /\ main.bInvalidClientExists
  BY <1>8, <1>f, SweepEndsStep
<1>9. CASE Keep
  <2>1. /\ main'.at = "remove" /\ main'.cursor = main.cursor + 1
        /\ main'.end = main.end /\ main'.kept = main.kept + 1
        /\ main.at = "remove" /\ main.cursor <= main.end
        /\ Len(m_deqConnections') = Len(m_deqConnections)
        /\ m_deqConnections'[main.kept + 1] # Null
        /\ main.cursor # main.kept + 1 => m_deqConnections'[main.cursor] = Null
        /\ \A j \in Places : j # main.cursor /\ j # main.kept + 1
                               => m_deqConnections'[j] = m_deqConnections[j]
    BY <1>9, KeepStep
  <2>2. main.kept < main.cursor
    BY <1>l DEF LoopOK
  <2>3. ASSUME NEW i \in Places', i <= main.kept + 1 \/ i > main.end
        PROVE  m_deqConnections'[i] # Null
    BY <1>f, <2>1, <2>2, <2>3, SMTT(60)
  <2>4. ASSUME NEW i \in Places', main.kept + 1 < i, i < main.cursor + 1
        PROVE  m_deqConnections'[i] = Null
    <3>1. i \in Places /\ main.kept < i
      BY <1>f, <2>1, <2>4
    <3>2. CASE i = main.cursor
      BY <2>1, <2>4, <3>2
    <3>3. CASE i # main.cursor
      <4>1. i < main.cursor /\ i # main.kept + 1
        BY <1>f, <2>4, <3>1, <3>3
      <4>2. m_deqConnections[i] = Null
        BY <2>1, <3>1, <4>1
      <4>. QED BY <2>1, <3>1, <3>3, <4>1, <4>2
    <3>. QED BY <3>2, <3>3
  <2>. QED BY <2>1, <2>3, <2>4
<1>10. CASE RemoveEnds
  BY <1>10, <1>f, RemoveEndsStep
<1>11. CASE Erase
  <2>1. /\ main'.at = "idle" /\ main.at = "erase"
        /\ main.kept <= main.end /\ main.end <= Len(m_deqConnections)
    BY <1>11, EraseStep
  <2>2. PICK last \in {main.end, Len(m_deqConnections)} :
          /\ Len(m_deqConnections') = main.kept + (Len(m_deqConnections) - last)
          /\ \A i \in 1 .. main.kept : m_deqConnections'[i] = m_deqConnections[i]
          /\ \A i \in main.kept + 1 .. Len(m_deqConnections') :
               m_deqConnections'[i] = m_deqConnections[i - main.kept + last]
    BY <1>11, EraseStep
  <2>3. ASSUME NEW i \in Places' PROVE m_deqConnections'[i] # Null
    <3>1. CASE i <= main.kept
      BY <1>f, <2>1, <2>2, <3>1, SMTT(60)
    <3>2. CASE i > main.kept
      <4>1. PICK j : j = i - main.kept + last
        OBVIOUS
      <4>2. i \in Nat /\ i <= main.kept + (Len(m_deqConnections) - last)
        BY <1>f, <2>1, <2>2
      <4>3. j \in Places /\ j > main.end
        <5>1. last \in Nat /\ main.end <= last
          BY <1>f, <2>1
        <5>2. j \in Nat /\ j > last /\ j <= Len(m_deqConnections)
          BY <1>f, <3>2, <4>1, <4>2, <5>1, SMTT(60)
        <5>. QED BY <1>f, <5>1, <5>2
      <4>4. i \in main.kept + 1 .. Len(m_deqConnections')
        BY <1>f, <2>1, <2>2, <3>2, <4>2
      <4>5. m_deqConnections'[i] = m_deqConnections[j]
        BY <2>2, <4>1, <4>4
      <4>. QED BY <2>1, <4>3, <4>5
    <3>. QED BY <1>f, <2>1, <2>2, <3>1, <3>2
  <2>. QED BY <2>1, <2>3
<1>. HIDE DEF Goal
<1>. QED BY <1>1, <1>2, <1>3, <1>4, <1>5, <1>6, <1>7, <1>8, <1>9, <1>10, <1>11,
            MainCases DEF Goal

\* Whom the main thread sends to is a client: there is no null pointer at the
\* cursor of a search or a sweep.
LEMMA SendsToClients ==
  ASSUME TypeInv, NullsOK, MainStep \/ MainCall
  PROVE  \/ UNCHANGED toClient
         \/ \E c \in Clients :
              /\ SendTo(c, "Message")
              /\ conn[c].id # 0 \/ \E i \in Places : m_deqConnections[i] = c
<1> DEFINE Goal == \/ UNCHANGED toClient
                   \/ \E c \in Clients :
                        /\ SendTo(c, "Message")
                        /\ conn[c].id # 0 \/ \E i \in Places : m_deqConnections[i] = c
<1>f. \A i \in Places : m_deqConnections[i] \in Clients \/ m_deqConnections[i] = Null
  BY TypeFacts DEF Places, Listable
<1>c. main.cursor \in Nat
  BY TypeFacts
<1>1. CASE Quiet
  BY <1>1, QuietStep DEF Quiet
<1>2. CASE SearchOn \/ RemoveNull
  BY <1>2, AdvanceStep
<1>3. CASE SearchHit
  <2>1. /\ main.cursor \in Places /\ main.at = "search"
        /\ SendTo(m_deqConnections[main.cursor], "Message")
    BY <1>3, HitStep DEF Places
  <2>2. m_deqConnections[main.cursor] \in Clients
    BY <1>f, <2>1 DEF NullsOK
  <2>. QED BY <2>1, <2>2
<1>4. ASSUME NEW n \in {0} \cup 10000 .. nIDCounter, Search(n) PROVE Goal
  BY <1>4, SearchStep
<1>5. ASSUME NEW c \in Clients, MessageClient(c) PROVE Goal
  BY <1>5, MessageStep
<1>6. ASSUME NEW p \in Clients \cup {Null}, MessageAllClients(p) PROVE Goal
  BY <1>6, SweepAllStep
<1>7. CASE Sweep
  <2>1. /\ main.cursor \in Places /\ main.at = "sweep"
        /\ UNCHANGED toClient \/ SendTo(m_deqConnections[main.cursor], "Message")
    BY <1>7, SweepStep DEF Places
  <2>2. m_deqConnections[main.cursor] \in Clients
    BY <1>f, <1>c, <2>1 DEF NullsOK
  <2>. QED BY <2>1, <2>2
<1>8. CASE SweepEnds /\ main.bInvalidClientExists
  BY <1>8, SweepEndsStep
<1>9. CASE Keep
  BY <1>9, KeepStep
<1>10. CASE RemoveEnds
  BY <1>10, RemoveEndsStep
<1>11. CASE Erase
  BY <1>11, EraseStep
<1>. HIDE DEF Goal
<1>. QED BY <1>1, <1>2, <1>3, <1>4, <1>5, <1>6, <1>7, <1>8, <1>9, <1>10, <1>11,
            MainCases DEF Goal

\* Every step keeps the types and the places of null pointers.
LEMMA StepTypes ==
  ASSUME TypeInv, NullsOK, InterfaceNext
  PROVE  TypeInv' /\ NullsOK'
<1>1. CASE IoStep
  BY <1>1, IoStepTypes, IoStepNulls DEF IoStep
<1>2. CASE MainStep \/ MainCall
  <2>1. toClient' \in [Clients -> Seq(Kinds)]
    <3>1. toClient \in [Clients -> Seq(Kinds)] /\ "Message" \in Kinds
      BY TypeFacts DEF Kinds
    <3>. QED BY <1>2, <3>1, SendsToClients, SendToEffect
  <2>2. main' \in Locals /\ LoopOK' /\ m_deqConnections' \in Seq(Listable)
    BY <1>2, MainStepTypes
  <2>3. /\ UNCHANGED <<clientVars, newConn, nIDCounter, errors, overlapped, conn>>
        /\ conn' \in Objects'
        /\ arrival' \in [Clients -> {"outside", "backlog", "accepted"}]
        /\ m_threadContext' \in {"none", "running", "ended"}
        /\ acceptor' = acceptor \/ acceptor' = "armed"
        /\ stopped' \in BOOLEAN
    BY <1>2, MainStepSimple
  <2>4. InterfaceTypeOK'
    BY <2>1, <2>2, <2>3 DEF InterfaceTypeOK, TypeInv, clientVars
  <2>5. AcceptOK'
    BY <2>3 DEF TypeInv, AcceptOK, InHandler
  <2>. QED BY <1>2, <2>2, <2>4, <2>5, MainStepNulls DEF TypeInv
<1>3. IoStep \/ MainStep \/ MainCall
  BY DEF InterfaceNext, IoStep
<1>. QED BY <1>1, <1>2, <1>3

\* So does a step that changes nothing.
LEMMA StutterTypes ==
  ASSUME TypeInv, NullsOK, UNCHANGED interfaceVars
  PROVE  TypeInv' /\ NullsOK'
<1> USE DEF interfaceVars, clientVars, acceptVars, dequeVars
<1>1. LoopOK' /\ conn' \in Objects'
  BY LoopSame, ObjectsSame, TypeFacts DEF TypeInv
<1>2. InterfaceTypeOK'
  BY <1>1 DEF TypeInv, InterfaceTypeOK
<1>3. AcceptOK' /\ NullsOK'
  BY DEF TypeInv, AcceptOK, InHandler, NullsOK, Places
<1>. QED BY <1>1, <1>2, <1>3 DEF TypeInv

-----------------------------------------------------------------------------
(* What the main thread leaves in the deque: the order, and what is open.  *)

\* m says where the elements come from.
Moves(m) ==
  /\ \A i \in Places' : m_deqConnections'[i] # Null =>
       m[i] \in Places /\ m_deqConnections[m[i]] = m_deqConnections'[i]
  /\ \A i, j \in Places' :
       i < j /\ m_deqConnections'[i] # Null /\ m_deqConnections'[j] # Null => m[i] < m[j]

\* A deque left alone: every element is where it was.
LEMMA SamePlaces ==
  ASSUME UNCHANGED m_deqConnections, Len(m_deqConnections) \in Nat
  PROVE  \E m : Moves(m)
<1>1. PICK m : m = [i \in Places |-> i]
  OBVIOUS
<1>2. Moves(m)
  BY <1>1 DEF Moves, Places
<1>. QED BY <1>2

\* Whatever the main thread does, what is left is in the order it was in.
LEMMA MainMoves ==
  ASSUME TypeInv, NullsOK, MainStep \/ MainCall
  PROVE  \E m : Moves(m)
<1> DEFINE Goal == \E m : Moves(m)
<1>f. /\ main.cursor \in Nat /\ main.end \in Nat /\ main.kept \in Nat
      /\ Len(m_deqConnections) \in Nat
  BY TypeFacts
<1>l. LoopOK
  BY DEF TypeInv
<1>1. CASE Quiet
  BY <1>1, <1>f, QuietStep, SamePlaces DEF Quiet
<1>2. CASE SearchOn \/ RemoveNull
  BY <1>2, <1>f, AdvanceStep, SamePlaces
<1>3. CASE SearchHit
  BY <1>3, <1>f, HitStep, SamePlaces
<1>4. ASSUME NEW n \in {0} \cup 10000 .. nIDCounter, Search(n) PROVE Goal
  BY <1>4, <1>f, SearchStep, SamePlaces
<1>5. ASSUME NEW c \in Clients, MessageClient(c) PROVE Goal
  BY <1>5, <1>f, MessageStep, SamePlaces
<1>6. ASSUME NEW p \in Clients \cup {Null}, MessageAllClients(p) PROVE Goal
  BY <1>6, <1>f, SweepAllStep, SamePlaces
<1>7. CASE Sweep
  <2>1. PICK m : m = [i \in Places |-> i]
    OBVIOUS
  <2>2. /\ Places' = Places
        /\ \A i \in Places : m_deqConnections'[i] # Null
                               => m_deqConnections'[i] = m_deqConnections[i]
    BY <1>7, <1>f, SweepStep DEF Places
  <2>3. Moves(m)
    BY <2>1, <2>2 DEF Moves
  <2>. QED BY <2>3
<1>8. CASE SweepEnds /\ main.bInvalidClientExists
  BY <1>8, <1>f, SweepEndsStep, SamePlaces
<1>9. CASE Keep
  <2>1. PICK m : m = [i \in Places |-> IF i = main.kept + 1 THEN main.cursor ELSE i]
    OBVIOUS
  <2>2. /\ main.at = "remove" /\ main.cursor <= main.end
        /\ main.cursor \in Places /\ Places' = Places
        /\ m_deqConnections'[main.kept + 1] = m_deqConnections[main.cursor]
        /\ main.cursor # main.kept + 1 => m_deqConnections'[main.cursor] = Null
        /\ \A j \in Places : j # main.cursor /\ j # main.kept + 1
                               => m_deqConnections'[j] = m_deqConnections[j]
    BY <1>9, KeepStep DEF Places
  <2>3. main.kept < main.cursor
    BY <1>l DEF LoopOK
  <2>4. ASSUME NEW i \in Places', m_deqConnections'[i] # Null
        PROVE  m[i] \in Places /\ m_deqConnections[m[i]] = m_deqConnections'[i]
    BY <2>1, <2>2, <2>4
  <2>5. ASSUME NEW j \in Places', m_deqConnections'[j] # Null, j > main.kept + 1
        PROVE  j > main.cursor
    <3>1. j # main.cursor /\ m_deqConnections[j] # Null
      BY <1>f, <2>2, <2>5
    <3>2. main.kept < j /\ j \in Nat
      BY <1>f, <2>2, <2>5 DEF Places
    <3>. QED BY <1>f, <2>2, <3>1, <3>2 DEF NullsOK
  <2>6. ASSUME NEW i \in Places', NEW j \in Places', i < j,
               m_deqConnections'[i] # Null, m_deqConnections'[j] # Null
        PROVE  m[i] < m[j]
    <3>1. i \in Nat /\ j \in Nat /\ i \in Places /\ j \in Places
      BY <1>f, <2>2 DEF Places
    <3>2. CASE i = main.kept + 1
      BY <1>f, <2>1, <2>5, <2>6, <3>1, <3>2
    <3>3. CASE i # main.kept + 1
      BY <1>f, <2>1, <2>3, <2>6, <3>1, <3>3
    <3>. QED BY <3>2, <3>3
  <2>. QED BY <2>4, <2>6 DEF Moves
<1>10. CASE RemoveEnds
  BY <1>10, <1>f, RemoveEndsStep, SamePlaces
<1>11. CASE Erase
  <2>1. /\ main.kept <= main.end /\ main.end <= Len(m_deqConnections)
    BY <1>11, EraseStep
  <2>2. PICK last \in {main.end, Len(m_deqConnections)} :
          /\ Len(m_deqConnections') = main.kept + (Len(m_deqConnections) - last)
          /\ \A i \in 1 .. main.kept : m_deqConnections'[i] = m_deqConnections[i]
          /\ \A i \in main.kept + 1 .. Len(m_deqConnections') :
               m_deqConnections'[i] = m_deqConnections[i - main.kept + last]
    BY <1>11, EraseStep
  <2>3. last \in Nat /\ main.kept <= last /\ last <= Len(m_deqConnections)
    BY <1>f, <2>1
  <2>4. PICK m : m = [i \in Places' |-> IF i <= main.kept THEN i ELSE i - main.kept + last]
    OBVIOUS
  <2>5. ASSUME NEW i \in Places'
        PROVE  m[i] \in Places /\ m_deqConnections[m[i]] = m_deqConnections'[i]
    <3>1. i \in Nat /\ i >= 1 /\ i <= main.kept + (Len(m_deqConnections) - last)
      BY <1>f, <2>2, <2>3 DEF Places
    <3>2. CASE i <= main.kept
      <4>1. m[i] = i
        BY <2>4, <3>2
      <4>. QED BY <1>f, <2>2, <2>3, <3>1, <3>2, <4>1 DEF Places
    <3>3. CASE ~(i <= main.kept)
      <4>1. m[i] = i - main.kept + last
        BY <2>4, <3>3
      <4>2. m[i] \in Places
        BY <1>f, <2>3, <3>1, <3>3, <4>1, SMTT(60) DEF Places
      <4>3. i \in main.kept + 1 .. Len(m_deqConnections')
        BY <1>f, <2>2, <2>3, <3>1, <3>3
      <4>. QED BY <2>2, <4>1, <4>2, <4>3
    <3>. QED BY <3>2, <3>3
  <2>6. ASSUME NEW i \in Places', NEW j \in Places', i < j PROVE m[i] < m[j]
    <3>1. i \in Nat /\ j \in Nat
      BY DEF Places
    <3>. QED BY <1>f, <2>3, <2>4, <2>6, <3>1
  <2>. QED BY <2>5, <2>6 DEF Moves
<1>. HIDE DEF Goal
<1>. QED BY <1>1, <1>2, <1>3, <1>4, <1>5, <1>6, <1>7, <1>8, <1>9, <1>10, <1>11,
            MainCases DEF Goal

\* What is in the deque survives it, if the removal goes up to the end: all but
\* a closed connection that a sweep meets.
LEMMA ElementStays ==
  ASSUME TypeInv, NullsOK, MainStep \/ MainCall,
         main.at = "erase" => main.end = Len(m_deqConnections),
         NEW i \in Places, m_deqConnections[i] # Null,
         main.at = "sweep" => conn[m_deqConnections[i]].open
  PROVE  \E j \in Places' : m_deqConnections'[j] = m_deqConnections[i]
<1> DEFINE Goal == \E j \in Places' : m_deqConnections'[j] = m_deqConnections[i]
<1>f. /\ main.cursor \in Nat /\ main.end \in Nat /\ main.kept \in Nat
      /\ Len(m_deqConnections) \in Nat
  BY TypeFacts
<1>l. LoopOK
  BY DEF TypeInv
<1>0. UNCHANGED m_deqConnections => Goal
  BY DEF Places
<1>1. CASE Quiet
  BY <1>0, <1>1, QuietStep DEF Quiet
<1>2. CASE SearchOn \/ RemoveNull
  BY <1>0, <1>2, AdvanceStep
<1>3. CASE SearchHit
  BY <1>0, <1>3, HitStep
<1>4. ASSUME NEW n \in {0} \cup 10000 .. nIDCounter, Search(n) PROVE Goal
  BY <1>0, <1>4, SearchStep
<1>5. ASSUME NEW c \in Clients, MessageClient(c) PROVE Goal
  BY <1>0, <1>5, MessageStep
<1>6. ASSUME NEW p \in Clients \cup {Null}, MessageAllClients(p) PROVE Goal
  BY <1>0, <1>6, SweepAllStep
<1>7. CASE Sweep
  <2>1. Places' = Places /\ m_deqConnections'[i] = m_deqConnections[i]
    BY <1>7, <1>f, SweepStep DEF Places
  <2>. QED BY <2>1
<1>8. CASE SweepEnds /\ main.bInvalidClientExists
  BY <1>0, <1>8, SweepEndsStep
<1>9. CASE Keep
  <2>1. /\ main.at = "remove" /\ main.cursor <= main.end /\ Places' = Places
        /\ main.cursor \in Places /\ main.kept + 1 \in Places
        /\ m_deqConnections'[main.kept + 1] = m_deqConnections[main.cursor]
        /\ \A j \in Places : j # main.cursor /\ j # main.kept + 1
                               => m_deqConnections'[j] = m_deqConnections[j]
    BY <1>9, KeepStep DEF Places
  <2>2. CASE i = main.cursor
    BY <2>1, <2>2
  <2>3. CASE i # main.cursor
    <3>1. main.kept < main.cursor
      BY <1>l DEF LoopOK
    <3>2. i # main.kept + 1
      BY <1>f, <2>1, <2>3, <3>1 DEF NullsOK
    <3>. QED BY <2>1, <2>3, <3>2
  <2>. QED BY <2>2, <2>3
<1>10. CASE RemoveEnds
  BY <1>0, <1>10, RemoveEndsStep
<1>11. CASE Erase
  <2>1. /\ main.at = "erase" /\ main.end = Len(m_deqConnections)
        /\ main.cursor = main.end + 1 /\ main.kept <= main.end
    BY <1>11, EraseStep
  <2>2. i \in Nat /\ i >= 1 /\ i <= main.end
    BY <1>f, <2>1 DEF Places
  <2>3. i <= main.kept
    BY <1>f, <2>1, <2>2 DEF NullsOK
  <2>4. /\ Len(m_deqConnections') = main.kept
        /\ \A j \in 1 .. main.kept : m_deqConnections'[j] = m_deqConnections[j]
    BY <1>11, <1>f, <2>1, EraseStep
  <2>5. i \in Places' /\ m_deqConnections'[i] = m_deqConnections[i]
    BY <1>f, <2>2, <2>3, <2>4 DEF Places
  <2>. QED BY <2>5
<1>. HIDE DEF Goal
<1>. QED BY <1>1, <1>2, <1>3, <1>4, <1>5, <1>6, <1>7, <1>8, <1>9, <1>10, <1>11,
            MainCases DEF Goal

\* In particular an open connection survives every step.
LEMMA OpenStays ==
  ASSUME TypeInv, NullsOK, MainStep \/ MainCall,
         main.at = "erase" => main.end = Len(m_deqConnections),
         NEW i \in Places, m_deqConnections[i] # Null, conn[m_deqConnections[i]].open
  PROVE  \E j \in Places' : m_deqConnections'[j] = m_deqConnections[i]
BY ElementStays

-----------------------------------------------------------------------------
(* Who has been greeted.                                                   *)

GreetedOK ==
  /\ \A c \in Clients : arrival[c] # "accepted" => toClient[c] = <<>>
  /\ InHandler => arrival[newConn] = "accepted"
  /\ acceptor = "accepted" => toClient[newConn] = <<>>
  /\ acceptor = "greeted" => toClient[newConn] # <<>>
  /\ \A c \in Clients : conn[c].id # 0 => toClient[c] # <<>>
  /\ \A i \in Places : m_deqConnections[i] # Null => toClient[m_deqConnections[i]] # <<>>
  /\ GreetedFirst

\* Sending keeps the greeting first: it is sent to whom nothing was sent.
LEMMA SendGreets ==
  ASSUME TypeInv, GreetedFirst, NEW c \in Clients, NEW kind \in Kinds, SendTo(c, kind),
         (kind = "ServerAccept") = (toClient[c] = <<>>)
  PROVE  /\ GreetedFirst' /\ toClient'[c] # <<>>
         /\ \A d \in Clients : d # c => toClient'[d] = toClient[d]
<1>1. toClient \in [Clients -> Seq(Kinds)] /\ toClient[c] \in Seq(Kinds)
  BY TypeFacts
<1>2. /\ toClient' \in [Clients -> Seq(Kinds)]
      /\ \A d \in Clients : d # c => toClient'[d] = toClient[d]
      /\ Len(toClient'[c]) = Len(toClient[c]) + 1
      /\ \A i \in 1 .. Len(toClient[c]) : toClient'[c][i] = toClient[c][i]
      /\ toClient'[c][Len(toClient[c]) + 1] = kind
  BY <1>1, SendToEffect
<1>3. toClient'[c] \in Seq(Kinds)
  BY <1>2
<1>4. (toClient[c] = <<>>) = (Len(toClient[c]) = 0) /\ Len(toClient[c]) \in Nat
  BY <1>1, EmptySeq
<1>5. ASSUME NEW d \in Clients, NEW i \in DOMAIN toClient'[d]
      PROVE  (toClient'[d][i] = "ServerAccept") = (i = 1)
  <2>1. CASE d # c
    BY <1>2, <1>5, <2>1 DEF GreetedFirst
  <2>2. CASE d = c
    <3>1. i \in 1 .. Len(toClient[c]) + 1
      BY <1>2, <1>3, <1>5, <2>2
    <3>2. CASE i = Len(toClient[c]) + 1
      BY <1>2, <1>4, <2>2, <3>2
    <3>3. CASE i \in 1 .. Len(toClient[c])
      <4>1. i \in DOMAIN toClient[c]
        BY <1>1, <3>3
      <4>. QED BY <1>2, <2>2, <3>3, <4>1 DEF GreetedFirst
    <3>. QED BY <1>4, <3>1, <3>2, <3>3
  <2>. QED BY <2>1, <2>2
<1>6. GreetedFirst'
  BY <1>5 DEF GreetedFirst
<1>7. toClient'[c] # <<>>
  BY <1>2, <1>3, <1>4
<1>. QED BY <1>2, <1>6, <1>7

\* The main thread sends to nobody who has not been greeted.
LEMMA MainStepGreeted ==
  ASSUME TypeInv, NullsOK, GreetedOK, MainStep \/ MainCall
  PROVE  GreetedOK'
<1>1. /\ UNCHANGED <<arrival, newConn, conn>>
      /\ acceptor' = acceptor \/ acceptor' = "armed"
  BY MainStepSimple DEF clientVars
<1>2. \A i \in Places' : m_deqConnections'[i] # Null
        => \E k \in Places : m_deqConnections[k] = m_deqConnections'[i]
  BY MainMoves DEF Moves
<1>3. \A i \in Places : m_deqConnections[i] \in Listable
  BY TypeFacts DEF Places
<1>4. /\ \A c \in Clients : toClient[c] # <<>> => toClient'[c] # <<>>
      /\ \A c \in Clients : toClient[c] = <<>> => toClient'[c] = <<>>
      /\ GreetedFirst'
  <2>1. CASE UNCHANGED toClient
    BY <2>1 DEF GreetedOK, GreetedFirst
  <2>2. ASSUME NEW c \in Clients, SendTo(c, "Message"),
               conn[c].id # 0 \/ \E i \in Places : m_deqConnections[i] = c
        PROVE  /\ \A d \in Clients : toClient[d] # <<>> => toClient'[d] # <<>>
               /\ \A d \in Clients : toClient[d] = <<>> => toClient'[d] = <<>>
               /\ GreetedFirst'
    <3>1. toClient[c] # <<>>
      BY <2>2, InterfaceAssumption DEF GreetedOK
    <3>2. /\ GreetedFirst' /\ toClient'[c] # <<>>
          /\ \A d \in Clients : d # c => toClient'[d] = toClient[d]
      BY <2>2, <3>1, SendGreets DEF GreetedOK, Kinds
    <3>. QED BY <3>1, <3>2
  <2>. QED BY <2>1, <2>2, SendsToClients
<1>5. InHandler => newConn \in Clients
  BY DEF TypeInv, AcceptOK
<1>. QED BY <1>1, <1>2, <1>3, <1>4, <1>5 DEF GreetedOK, InHandler, Listable

\* The io_context thread greets once, before it pushes.
LEMMA IoStepGreeted ==
  ASSUME TypeInv, NullsOK, GreetedOK, IoStep
  PROVE  GreetedOK'
<1> USE DEF Places
<1>f. /\ conn \in Objects /\ m_deqConnections \in Seq(Listable)
      /\ nIDCounter \in Nat /\ nIDCounter >= 10000
  BY TypeFacts
<1>n. InHandler => newConn \in Clients
  BY DEF TypeInv, AcceptOK
<1>a. arrival \in [Clients -> {"outside", "backlog", "accepted"}]
  BY DEF TypeInv, InterfaceTypeOK
<1>1. ASSUME NEW c \in Clients, Arrive(c) PROVE GreetedOK'
  BY <1>1, <1>a, <1>n DEF Arrive, acceptVars, dequeVars, GreetedOK, GreetedFirst, InHandler
<1>2. ASSUME NEW c \in Clients, Leave(c) PROVE GreetedOK'
  BY <1>2 DEF Leave, acceptVars, dequeVars, GreetedOK, GreetedFirst, InHandler
<1>3. ASSUME NEW c \in Clients, NoticeClientGone(c) PROVE GreetedOK'
  <2>1. \A d \in Clients : conn'[d].id = conn[d].id
    BY <1>3, <1>f, GoneEffect
  <2>. QED BY <1>3, <2>1
       DEF NoticeClientGone, Accepting, GreetedOK, GreetedFirst, InHandler
<1>4. ASSUME NEW c \in Clients, TakeConnection(c) PROVE GreetedOK'
  BY <1>4, <1>a DEF TakeConnection, Accepting, dequeVars, GreetedOK, GreetedFirst, InHandler
<1>5. CASE TakeError \/ EndpointThrows \/ ReportError \/ BackIsNothing \/ RunReturns
  <2>1. /\ UNCHANGED <<arrival, newConn, conn, m_deqConnections, toClient>>
        /\ acceptor' \in {"failed", "armed", "ended"}
    BY <1>5 DEF TakeError, EndpointThrows, ReportError, BackIsNothing, RunReturns,
                Accepting, dequeVars, clientVars
  <2>. QED BY <2>1 DEF GreetedOK, GreetedFirst, InHandler
<1>6. CASE OnClientConnect
  <2>1. /\ acceptor = "accepted" /\ acceptor' = "greeted"
        /\ UNCHANGED <<arrival, newConn, m_deqConnections>>
        /\ SendTo(newConn, "ServerAccept")
    BY <1>6 DEF OnClientConnect, Accepting
  <2>2. newConn \in Clients /\ toClient[newConn] = <<>> /\ arrival[newConn] = "accepted"
    BY <1>n, <2>1 DEF GreetedOK, InHandler
  <2>3. \A d \in Clients : conn'[d].id = conn[d].id
    BY <1>6, <1>f, <2>2, ConnectEffect
  <2>4. /\ GreetedFirst' /\ toClient'[newConn] # <<>>
        /\ \A d \in Clients : d # newConn => toClient'[d] = toClient[d]
    BY <2>1, <2>2, SendGreets DEF GreetedOK, Kinds
  <2>5. \A i \in Places : m_deqConnections[i] \in Listable
    BY TypeFacts
  <2>. QED BY <2>1, <2>2, <2>3, <2>4, <2>5 DEF GreetedOK, InHandler, Listable
<1>7. CASE PushBack
  <2>1. /\ acceptor = "greeted" /\ acceptor' = "pushed"
        /\ UNCHANGED <<arrival, newConn, conn, toClient>>
    BY <1>7 DEF PushBack, Accepting
  <2>2. newConn \in Clients /\ toClient[newConn] # <<>>
    BY <1>n, <2>1 DEF GreetedOK, InHandler
  <2>3. /\ Len(m_deqConnections') = Len(m_deqConnections) + 1
        /\ \A i \in Places : m_deqConnections'[i] = m_deqConnections[i]
        /\ m_deqConnections'[Len(m_deqConnections) + 1] = newConn
    BY <1>7, <1>f, <2>2, PushBackEffect
  <2>4. ASSUME NEW i \in Places' PROVE i \in Places \/ i = Len(m_deqConnections) + 1
    BY <2>3, TypeFacts
  <2>. QED BY <2>1, <2>2, <2>3, <2>4 DEF GreetedOK, GreetedFirst, InHandler
<1>8. CASE Identify
  <2>1. /\ UNCHANGED <<arrival, newConn, m_deqConnections, toClient>>
        /\ acceptor' = "armed"
    BY <1>8 DEF Identify, ConnectToClient, Accepting
  <2>2. /\ Back \in Clients /\ Len(m_deqConnections) \in Places
        /\ \A d \in Clients : d # Back => conn'[d].id = conn[d].id
    BY <1>8, <1>f, IdentifyEffect
  <2>3. toClient[Back] # <<>>
    BY <2>2, InterfaceAssumption DEF GreetedOK, Back
  <2>. QED BY <2>1, <2>2, <2>3 DEF GreetedOK, GreetedFirst, InHandler
<1>. QED BY <1>1, <1>2, <1>3, <1>4, <1>5, <1>6, <1>7, <1>8 DEF IoStep, AcceptStep

-----------------------------------------------------------------------------
(* The order of the deque, and what a search finds.                        *)

\* The connection in the accept handler is new; Start comes first.
NewOK ==
  /\ acceptor # "unarmed" => main.at # "starting"
  /\ acceptor = "greeted" =>
       /\ conn[newConn].id = 0 /\ conn[newConn].open
       /\ \A i \in Places : m_deqConnections[i] # newConn

\* No two connections have the same id, but the one that says none.
IdsDiffer ==
  \A c, d \in Clients : c # d /\ conn[c].id = conn[d].id => conn[c].id = 0

\* What is open is in the deque.
OpenListed ==
  \A c \in Clients :
    conn[c].open /\ ~(acceptor = "greeted" /\ newConn = c)
      => \E i \in Places : m_deqConnections[i] = c

\* No connection is in it twice.
ListedOnce ==
  \A i, j \in Places :
    i < j /\ m_deqConnections[i] # Null => m_deqConnections[i] # m_deqConnections[j]

\* Later connections have higher ids, or none yet.
Ascending ==
  \A i, j \in Places :
    /\ i < j /\ m_deqConnections[i] # Null /\ m_deqConnections[j] # Null
    /\ conn[m_deqConnections[j]].id # 0
    => conn[m_deqConnections[i]].id < conn[m_deqConnections[j]].id

\* A removal goes up to the end of the deque.
WholeRemoval == main.at \in {"remove", "erase"} => main.end = Len(m_deqConnections)

\* The connection just pushed is the last there is, and has no id yet.
PushedLast ==
  acceptor = "pushed" =>
    /\ conn[newConn].open /\ conn[newConn].id = 0
    /\ \E i \in Places : /\ m_deqConnections[i] = newConn
                         /\ \A j \in Places : j > i => m_deqConnections[j] = Null

OrderOK ==
  ~overlapped => WholeRemoval /\ PushedLast /\ OpenListed /\ ListedOnce /\ Ascending

\* A removal goes up to the end it found, and nothing leads back to the start.
LEMMA MainTurns ==
  ASSUME TypeInv, MainStep \/ MainCall
  PROVE  /\ main'.at # "starting"
         /\ main'.at \in {"remove", "erase"} =>
              \/ main'.end = Len(m_deqConnections')
              \/ /\ main.at \in {"remove", "erase"} /\ main'.end = main.end
                 /\ Len(m_deqConnections') = Len(m_deqConnections)
<1> DEFINE Goal ==
      /\ main'.at # "starting"
      /\ main'.at \in {"remove", "erase"} =>
           \/ main'.end = Len(m_deqConnections')
           \/ /\ main.at \in {"remove", "erase"} /\ main'.end = main.end
              /\ Len(m_deqConnections') = Len(m_deqConnections)
<1>1. CASE Quiet
  BY <1>1, QuietStep DEF Quiet
<1>2. CASE SearchOn \/ RemoveNull
  BY <1>2, AdvanceStep
<1>3. CASE SearchHit
  BY <1>3, HitStep
<1>4. ASSUME NEW n \in {0} \cup 10000 .. nIDCounter, Search(n) PROVE Goal
  BY <1>4, SearchStep
<1>5. ASSUME NEW c \in Clients, MessageClient(c) PROVE Goal
  BY <1>5, MessageStep
<1>6. ASSUME NEW p \in Clients \cup {Null}, MessageAllClients(p) PROVE Goal
  BY <1>6, SweepAllStep
<1>7. CASE Sweep
  BY <1>7, SweepStep
<1>8. CASE SweepEnds /\ main.bInvalidClientExists
  BY <1>8, SweepEndsStep
<1>9. CASE Keep
  BY <1>9, KeepStep
<1>10. CASE RemoveEnds
  BY <1>10, RemoveEndsStep
<1>11. CASE Erase
  BY <1>11, EraseStep
<1>. HIDE DEF Goal
<1>. QED BY <1>1, <1>2, <1>3, <1>4, <1>5, <1>6, <1>7, <1>8, <1>9, <1>10, <1>11,
            MainCases DEF Goal

\* The main thread keeps the order, and what is open.
LEMMA MainStepOrder ==
  ASSUME TypeInv, NullsOK, NewOK, IdsDiffer, OrderOK, MainStep \/ MainCall
  PROVE  NewOK' /\ IdsDiffer' /\ OrderOK'
<1>1. /\ UNCHANGED <<newConn, conn, overlapped>>
      /\ acceptor' = acceptor \/ (Start /\ acceptor' = "armed")
  BY MainStepSimple
<1>2. acceptor' = acceptor \/ (acceptor = "unarmed" /\ acceptor' = "armed")
  BY <1>1 DEF Start, At, NewOK
<1>3. PICK m : Moves(m)
  BY MainMoves
<1>4. NewOK'
  <2>1. main'.at # "starting"
    BY MainTurns
  <2>2. ASSUME acceptor' = "greeted"
        PROVE  /\ conn'[newConn'].id = 0 /\ conn'[newConn'].open
               /\ \A i \in Places' : m_deqConnections'[i] # newConn'
    <3>1. /\ conn[newConn].id = 0 /\ conn[newConn].open /\ newConn \in Clients
          /\ \A i \in Places : m_deqConnections[i] # newConn
      BY <1>2, <2>2 DEF NewOK, TypeInv, AcceptOK, InHandler
    <3>2. \A i \in Places' : m_deqConnections'[i] # newConn
      BY <1>3, <3>1, InterfaceAssumption DEF Moves
    <3>. QED BY <1>1, <3>1, <3>2
  <2>. QED BY <2>1, <2>2 DEF NewOK
<1>5. IdsDiffer'
  BY <1>1 DEF IdsDiffer
<1>6. ASSUME ~overlapped'
      PROVE  WholeRemoval' /\ PushedLast' /\ OpenListed' /\ ListedOnce' /\ Ascending'
  <2>1. WholeRemoval /\ PushedLast /\ OpenListed /\ ListedOnce /\ Ascending
    BY <1>1, <1>6 DEF OrderOK
  <2>2. WholeRemoval'
    BY <2>1, MainTurns DEF WholeRemoval
  <2>3. ListedOnce'
    BY <1>3, <2>1 DEF ListedOnce, Moves
  <2>4. Ascending'
    BY <1>1, <1>3, <2>1 DEF Ascending, Moves
  <2>5. ASSUME NEW i \in Places, m_deqConnections[i] # Null, conn[m_deqConnections[i]].open
        PROVE  \E j \in Places' : m_deqConnections'[j] = m_deqConnections[i]
    BY <2>1, <2>5, OpenStays DEF WholeRemoval
  <2>6. OpenListed'
    BY <1>1, <1>2, <2>1, <2>5, InterfaceAssumption DEF OpenListed
  <2>7. ASSUME acceptor' = "pushed"
        PROVE  /\ conn'[newConn'].open /\ conn'[newConn'].id = 0
               /\ \E i \in Places' : /\ m_deqConnections'[i] = newConn'
                                     /\ \A j \in Places' : j > i => m_deqConnections'[j] = Null
    <3>1. acceptor = "pushed" /\ newConn \in Clients
      BY <1>2, <2>7 DEF TypeInv, AcceptOK, InHandler
    <3>2. /\ conn[newConn].open /\ conn[newConn].id = 0
          /\ \E i \in Places : /\ m_deqConnections[i] = newConn
                               /\ \A j \in Places : j > i => m_deqConnections[j] = Null
      BY <2>1, <3>1 DEF PushedLast
    <3>3. PICK i \in Places : /\ m_deqConnections[i] = newConn
                              /\ \A j \in Places : j > i => m_deqConnections[j] = Null
      BY <3>2
    <3>4. PICK k \in Places' : m_deqConnections'[k] = newConn
      BY <2>5, <3>1, <3>2, <3>3, InterfaceAssumption
    <3>5. m[k] \in Places /\ m_deqConnections[m[k]] = newConn
      BY <1>3, <3>1, <3>4, InterfaceAssumption DEF Moves
    <3>6. m[k] = i
      <4>1. ~(m[k] < i) /\ ~(i < m[k])
        BY <2>1, <3>1, <3>3, <3>5, InterfaceAssumption DEF ListedOnce
      <4>. QED BY <3>5, <4>1, TypeFacts DEF Places
    <3>7. ASSUME NEW j \in Places', j > k, m_deqConnections'[j] # Null PROVE FALSE
      <4>1. j \in Int /\ k \in Int /\ k < j
        BY <3>7 DEF Places
      <4>2. m[k] < m[j] /\ m[j] \in Places /\ m_deqConnections[m[j]] # Null
        BY <1>3, <3>1, <3>4, <3>7, <4>1, InterfaceAssumption DEF Moves
      <4>3. m[j] > i
        BY <3>6, <4>2 DEF Places
      <4>. QED BY <3>3, <4>2, <4>3
    <3>. QED BY <1>1, <3>2, <3>4, <3>7
  <2>. QED BY <2>2, <2>3, <2>4, <2>6, <2>7 DEF PushedLast
<1>. QED BY <1>4, <1>5, <1>6 DEF OrderOK

\* What the steps of the io_context thread and of the clients do to the
\* connections and the deque.
IoEffect ==
  /\ main' = main /\ (~overlapped' => ~overlapped)
  /\ \/ /\ UNCHANGED <<acceptor, newConn, m_deqConnections>>
        /\ \A c \in Clients : conn'[c].id = conn[c].id
        /\ \A c \in Clients : conn'[c].open => conn[c].open
        /\ UNCHANGED conn \/ acceptor = "armed"
     \/ /\ acceptor \notin {"unarmed", "greeted"}
        /\ acceptor' \in {"accepted", "failed", "armed", "ended"}
        /\ UNCHANGED <<conn, m_deqConnections>>
     \/ /\ acceptor = "accepted" /\ acceptor' = "greeted" /\ newConn \in Clients
        /\ UNCHANGED <<newConn, m_deqConnections>> /\ conn'[newConn].open
        /\ \A c \in Clients : conn'[c].id = conn[c].id
        /\ \A c \in Clients : c # newConn => conn'[c].open = conn[c].open
     \/ /\ acceptor = "greeted" /\ acceptor' = "pushed" /\ newConn \in Clients
        /\ UNCHANGED <<newConn, conn>>
        /\ ~overlapped' => main.at \notin {"remove", "erase"}
        /\ Len(m_deqConnections') = Len(m_deqConnections) + 1
        /\ \A i \in Places : m_deqConnections'[i] = m_deqConnections[i]
        /\ m_deqConnections'[Len(m_deqConnections) + 1] = newConn
     \/ /\ acceptor = "pushed" /\ acceptor' = "armed"
        /\ UNCHANGED <<newConn, m_deqConnections>>
        /\ Len(m_deqConnections) \in Places /\ Back \in Clients
        /\ \A c \in Clients : conn'[c].open = conn[c].open
        /\ \A c \in Clients : c # Back => conn'[c].id = conn[c].id
        /\ conn'[Back].id \in {conn[Back].id, nIDCounter}

\* Every step of theirs has one of these effects.
LEMMA IoStepEffect ==
  ASSUME TypeInv, IoStep
  PROVE  IoEffect
<1> USE DEF IoEffect
<1>f. /\ conn \in Objects /\ m_deqConnections \in Seq(Listable)
      /\ nIDCounter \in Nat /\ nIDCounter >= 10000
  BY TypeFacts
<1>n. InHandler => newConn \in Clients
  BY DEF TypeInv, AcceptOK
<1>1. ASSUME NEW c \in Clients, Arrive(c) \/ Leave(c) PROVE IoEffect
  BY <1>1 DEF Arrive, Leave, acceptVars, dequeVars
<1>3. ASSUME NEW c \in Clients, NoticeClientGone(c) PROVE IoEffect
  <2>1. /\ \A d \in Clients : conn'[d].id = conn[d].id
        /\ \A d \in Clients : d # c => conn'[d].open = conn[d].open
        /\ ~conn'[c].open
    BY <1>3, <1>f, GoneEffect
  <2>2. acceptor = "armed" /\ UNCHANGED <<acceptor, newConn, m_deqConnections, overlapped, main>>
    BY <1>3 DEF NoticeClientGone, Accepting
  <2>. QED BY <2>1, <2>2
<1>4. ASSUME NEW c \in Clients, TakeConnection(c) PROVE IoEffect
  BY <1>4 DEF TakeConnection, Accepting, dequeVars
<1>5. CASE TakeError \/ EndpointThrows \/ ReportError \/ BackIsNothing \/ RunReturns
  <2>1. /\ UNCHANGED <<conn, m_deqConnections, main>> /\ (~overlapped' => ~overlapped)
        /\ acceptor \notin {"unarmed", "greeted"}
        /\ acceptor' \in {"failed", "armed", "ended"}
    BY <1>5 DEF TakeError, EndpointThrows, ReportError, BackIsNothing, RunReturns,
                Accepting, dequeVars, clientVars
  <2>. QED BY <2>1
<1>6. CASE OnClientConnect
  <2>1. /\ acceptor = "accepted" /\ acceptor' = "greeted"
        /\ UNCHANGED <<newConn, m_deqConnections, main, overlapped>>
    BY <1>6 DEF OnClientConnect, Accepting
  <2>2. newConn \in Clients
    BY <1>n, <2>1 DEF InHandler
  <2>. QED BY <1>6, <1>f, <2>1, <2>2, ConnectEffect
<1>7. CASE PushBack
  <2>1. /\ acceptor = "greeted" /\ acceptor' = "pushed"
        /\ UNCHANGED <<newConn, conn, main>> /\ (~overlapped' => ~overlapped)
        /\ ~overlapped' => main.at \notin {"remove", "erase"}
    BY <1>7 DEF PushBack, Accepting, Removing
  <2>2. newConn \in Clients
    BY <1>n, <2>1 DEF InHandler
  <2>. QED BY <1>7, <1>f, <2>1, <2>2, PushBackEffect DEF Places
<1>8. CASE Identify
  <2>1. /\ acceptor = "pushed" /\ acceptor' = "armed"
        /\ UNCHANGED <<newConn, m_deqConnections, main>> /\ (~overlapped' => ~overlapped)
    BY <1>8 DEF Identify, ConnectToClient, Accepting
  <2>2. /\ Len(m_deqConnections) \in Places /\ Back \in Clients
        /\ \A c \in Clients : conn'[c].open = conn[c].open
        /\ \A c \in Clients : c # Back => conn'[c].id = conn[c].id
        /\ conn'[Back].id \in {conn[Back].id, nIDCounter}
    <3>1. /\ Len(m_deqConnections) \in 1 .. Len(m_deqConnections) /\ Back \in Clients
          /\ \A c \in Clients : conn'[c].open = conn[c].open
          /\ \A c \in Clients : c # Back => conn'[c].id = conn[c].id
          /\ conn[Back].open => conn'[Back].id = nIDCounter
          /\ ~conn[Back].open => conn'[Back].id = conn[Back].id
      BY <1>8, <1>f, IdentifyEffect
    <3>. QED BY <3>1 DEF Places
  <2>. QED BY <2>1, <2>2
<1>. HIDE DEF IoEffect
<1>. QED BY <1>1, <1>3, <1>4, <1>5, <1>6, <1>7, <1>8 DEF IoStep, AcceptStep

\* Ids stay different: the one that is given has never been given.
LEMMA IoStepIds ==
  ASSUME TypeInv, GreetedOK, NewOK, IdsDiffer, IoEffect
  PROVE  NewOK' /\ IdsDiffer'
<1>f. /\ nIDCounter \in Nat /\ nIDCounter >= 10000
      /\ \A c \in Clients : conn[c].id \in Nat /\ conn[c].id < nIDCounter
  BY TypeFacts
<1>1. CASE /\ UNCHANGED <<acceptor, newConn, m_deqConnections>>
           /\ \A c \in Clients : conn'[c].id = conn[c].id
           /\ UNCHANGED conn \/ acceptor = "armed"
  BY <1>1 DEF IoEffect, NewOK, IdsDiffer, Places
<1>2. CASE /\ acceptor \notin {"unarmed", "greeted"}
           /\ acceptor' \in {"accepted", "failed", "armed", "ended"}
           /\ UNCHANGED conn
  BY <1>2 DEF IoEffect, NewOK, IdsDiffer
<1>3. CASE /\ acceptor = "accepted" /\ acceptor' = "greeted" /\ newConn \in Clients
           /\ UNCHANGED <<newConn, m_deqConnections>> /\ conn'[newConn].open
           /\ \A c \in Clients : conn'[c].id = conn[c].id
  <2>1. toClient[newConn] = <<>>
    BY <1>3 DEF GreetedOK
  <2>2. conn[newConn].id = 0 /\ \A i \in Places : m_deqConnections[i] # newConn
    BY <1>3, <2>1, InterfaceAssumption DEF GreetedOK
  <2>. QED BY <1>3, <2>2 DEF IoEffect, NewOK, IdsDiffer, Places
<1>4. CASE acceptor = "greeted" /\ acceptor' = "pushed" /\ UNCHANGED conn
  BY <1>4 DEF IoEffect, NewOK, IdsDiffer
<1>5. CASE /\ acceptor = "pushed" /\ acceptor' = "armed"
           /\ \A c \in Clients : c # Back => conn'[c].id = conn[c].id
           /\ conn'[Back].id \in {conn[Back].id, nIDCounter}
  <2>1. NewOK'
    BY <1>5 DEF IoEffect, NewOK
  <2>2. ASSUME NEW c \in Clients, NEW d \in Clients, c # d, conn'[c].id = conn'[d].id
        PROVE  conn'[c].id = 0
    BY <1>5, <1>f, <2>2 DEF IdsDiffer
  <2>. QED BY <2>1, <2>2 DEF IdsDiffer
<1>. QED BY <1>1, <1>2, <1>3, <1>4, <1>5 DEF IoEffect

\* push_back and ConnectToClient keep the order of ids.
LEMMA IoStepOrder ==
  ASSUME TypeInv, NullsOK, NewOK, OrderOK, IoEffect
  PROVE  OrderOK'
<1> SUFFICES ASSUME ~overlapped'
             PROVE  WholeRemoval' /\ PushedLast' /\ OpenListed' /\ ListedOnce' /\ Ascending'
  BY DEF OrderOK
<1>o. WholeRemoval /\ PushedLast /\ OpenListed /\ ListedOnce /\ Ascending
  BY DEF IoEffect, OrderOK
<1>m. main' = main
  BY DEF IoEffect
<1>f. /\ nIDCounter \in Nat /\ nIDCounter >= 10000 /\ Len(m_deqConnections) \in Nat
      /\ \A c \in Clients : conn[c].id \in Nat /\ conn[c].id < nIDCounter
      /\ \A i \in Places : m_deqConnections[i] \in Clients \/ m_deqConnections[i] = Null
  BY TypeFacts DEF Places, Listable
<1>s. ASSUME UNCHANGED m_deqConnections, \A c \in Clients : conn'[c].id = conn[c].id
      PROVE  WholeRemoval' /\ ListedOnce' /\ Ascending'
  <2>1. WholeRemoval' /\ ListedOnce'
    BY <1>o, <1>m, <1>s DEF WholeRemoval, ListedOnce, Places
  <2>2. Places' = Places
    BY <1>s DEF Places
  <2>3. Ascending'
    BY <1>o, <1>f, <1>s, <2>2 DEF Ascending
  <2>. QED BY <2>1, <2>3
<1>1. CASE /\ UNCHANGED <<acceptor, newConn, m_deqConnections>>
           /\ \A c \in Clients : conn'[c].id = conn[c].id
           /\ \A c \in Clients : conn'[c].open => conn[c].open
           /\ UNCHANGED conn \/ acceptor = "armed"
  <2>1. PushedLast' /\ OpenListed'
    BY <1>1, <1>o DEF PushedLast, OpenListed, Places
  <2>. QED BY <1>1, <1>s, <2>1
<1>2. CASE /\ acceptor \notin {"unarmed", "greeted"}
           /\ acceptor' \in {"accepted", "failed", "armed", "ended"}
           /\ UNCHANGED <<conn, m_deqConnections>>
  <2>1. PushedLast' /\ OpenListed'
    BY <1>2, <1>o DEF PushedLast, OpenListed, Places
  <2>. QED BY <1>2, <1>s, <2>1
<1>3. CASE /\ acceptor = "accepted" /\ acceptor' = "greeted" /\ newConn \in Clients
           /\ UNCHANGED <<newConn, m_deqConnections>>
           /\ \A c \in Clients : conn'[c].id = conn[c].id
           /\ \A c \in Clients : c # newConn => conn'[c].open = conn[c].open
  <2>1. PushedLast' /\ OpenListed'
    BY <1>3, <1>o DEF PushedLast, OpenListed, Places
  <2>. QED BY <1>3, <1>s, <2>1
<1>4. CASE /\ acceptor = "greeted" /\ acceptor' = "pushed" /\ newConn \in Clients
           /\ UNCHANGED <<newConn, conn>>
           /\ main.at \notin {"remove", "erase"}
           /\ Len(m_deqConnections') = Len(m_deqConnections) + 1
           /\ \A i \in Places : m_deqConnections'[i] = m_deqConnections[i]
           /\ m_deqConnections'[Len(m_deqConnections) + 1] = newConn
  <2>1. PICK last \in Nat : last = Len(m_deqConnections) + 1
    BY <1>f
  <2>2. Places' = Places \cup {last} /\ last \notin Places
    BY <1>4, <1>f, <2>1 DEF Places
  <2>3. \A i \in Places : i < last /\ ~(last < i)
    BY <1>f, <2>1 DEF Places
  <2>4. m_deqConnections'[last] = newConn
    BY <1>4, <2>1
  <2>5. /\ conn[newConn].id = 0 /\ conn[newConn].open
        /\ \A i \in Places : m_deqConnections[i] # newConn
    BY <1>4 DEF NewOK
  <2>6. WholeRemoval'
    BY <1>4, <1>m DEF WholeRemoval
  <2>7. PushedLast'
    <3>1. \A j \in Places' : ~(j > last)
      BY <2>1, <2>2, <2>3 DEF Places
    <3>. QED BY <1>4, <2>2, <2>4, <2>5, <3>1 DEF PushedLast
  <2>8. OpenListed'
    BY <1>4, <1>o, <2>2, <2>4 DEF OpenListed
  <2>9. ListedOnce'
    <3>1. ASSUME NEW i \in Places', NEW j \in Places', i < j, m_deqConnections'[i] # Null
          PROVE  m_deqConnections'[i] # m_deqConnections'[j]
      <4>1. i \in Places
        BY <2>1, <2>2, <2>3, <3>1
      <4>. QED BY <1>4, <1>o, <2>2, <2>4, <2>5, <3>1, <4>1 DEF ListedOnce
    <3>. QED BY <3>1 DEF ListedOnce
  <2>10. Ascending'
    <3>1. ASSUME NEW i \in Places', NEW j \in Places', i < j,
                 m_deqConnections'[i] # Null, m_deqConnections'[j] # Null,
                 conn'[m_deqConnections'[j]].id # 0
          PROVE  conn'[m_deqConnections'[i]].id < conn'[m_deqConnections'[j]].id
      <4>1. i \in Places /\ j \in Places
        BY <1>4, <2>1, <2>2, <2>3, <2>4, <2>5, <3>1
      <4>. QED BY <1>4, <1>o, <3>1, <4>1 DEF Ascending
    <3>. QED BY <3>1 DEF Ascending
  <2>. QED BY <2>6, <2>7, <2>8, <2>9, <2>10
<1>5. CASE /\ acceptor = "pushed" /\ acceptor' = "armed"
           /\ UNCHANGED m_deqConnections
           /\ Len(m_deqConnections) \in Places /\ Back \in Clients
           /\ \A c \in Clients : conn'[c].open = conn[c].open
           /\ \A c \in Clients : c # Back => conn'[c].id = conn[c].id
           /\ conn'[Back].id \in {conn[Back].id, nIDCounter}
  <2>1. WholeRemoval' /\ ListedOnce' /\ PushedLast' /\ OpenListed'
    BY <1>5, <1>o, <1>m DEF WholeRemoval, ListedOnce, PushedLast, OpenListed, Places
  <2>2. ASSUME NEW i \in Places, NEW j \in Places, i < j,
               m_deqConnections[i] # Null, m_deqConnections[j] # Null,
               conn'[m_deqConnections[j]].id # 0
        PROVE  conn'[m_deqConnections[i]].id < conn'[m_deqConnections[j]].id
    <3>1. m_deqConnections[i] \in Clients /\ m_deqConnections[j] \in Clients
      BY <1>f, <2>2
    <3>2. i < Len(m_deqConnections)
      BY <1>f, <2>2 DEF Places
    <3>3. m_deqConnections[i] # Back
      BY <1>5, <1>o, <2>2, <3>2 DEF ListedOnce, Back
    <3>4. conn'[m_deqConnections[i]].id = conn[m_deqConnections[i]].id
      BY <1>5, <3>1, <3>3
    <3>5. CASE conn'[m_deqConnections[j]].id = conn[m_deqConnections[j]].id
      BY <1>o, <2>2, <3>4, <3>5 DEF Ascending
    <3>6. CASE conn'[m_deqConnections[j]].id = nIDCounter
      BY <1>f, <3>1, <3>4, <3>6
    <3>. QED BY <1>5, <3>1, <3>5, <3>6
  <2>3. Places' = Places
    BY <1>5 DEF Places
  <2>4. Ascending'
    BY <1>5, <2>2, <2>3 DEF Ascending
  <2>. QED BY <2>1, <2>4
<1>. QED BY <1>1, <1>2, <1>3, <1>4, <1>5 DEF IoEffect

-----------------------------------------------------------------------------
(* What a search finds.                                                    *)

\* What a search ought to find is still ahead of it, under the id it looks for.
SearchOK ==
  ~overlapped =>
    /\ main.at = "search" /\ main.due # Null =>
         /\ main.due \in Clients /\ conn[main.due].id = main.id /\ main.id # 0
         /\ \E i \in Places : /\ main.cursor <= i /\ i <= main.end
                              /\ m_deqConnections[i] = main.due
    /\ SearchFinds

\* They take from a search neither its id nor its connection.
LEMMA IoStepSearch ==
  ASSUME TypeInv, OrderOK, SearchOK, IoEffect
  PROVE  SearchOK'
<1> SUFFICES ASSUME ~overlapped' PROVE SearchOK'
  BY DEF SearchOK
<1>1. main' = main /\ ~overlapped
  BY DEF IoEffect
<1>2. SearchFinds'
  BY <1>1 DEF SearchOK, SearchFinds
<1>3. ASSUME main.at = "search", main.due # Null
      PROVE  /\ main.due \in Clients /\ conn'[main.due].id = main.id /\ main.id # 0
             /\ \E i \in Places' : /\ main.cursor <= i /\ i <= main.end
                                   /\ m_deqConnections'[i] = main.due
  <2>1. main.due \in Clients /\ conn[main.due].id = main.id /\ main.id # 0
    BY <1>1, <1>3 DEF SearchOK
  <2>2. PICK i \in Places : /\ main.cursor <= i /\ i <= main.end
                            /\ m_deqConnections[i] = main.due
    BY <1>1, <1>3 DEF SearchOK
  <2>3. i \in Places' /\ m_deqConnections'[i] = m_deqConnections[i]
    BY TypeFacts DEF IoEffect, Places
  <2>4. conn'[main.due].id = conn[main.due].id
    <3>1. CASE acceptor = "pushed" /\ Back \in Clients /\ Len(m_deqConnections) \in Places
      <4>1. conn[newConn].id = 0
        BY <1>1, <3>1 DEF OrderOK, PushedLast
      <4>2. PICK k \in Places : /\ m_deqConnections[k] = newConn
                                /\ \A j \in Places : j > k => m_deqConnections[j] = Null
        BY <1>1, <3>1 DEF OrderOK, PushedLast
      <4>3. k = Len(m_deqConnections)
        <5>1. ~(Len(m_deqConnections) > k)
          BY <3>1, <4>2, InterfaceAssumption DEF Back
        <5>. QED BY <5>1, TypeFacts DEF Places
      <4>4. main.due # Back
        BY <2>1, <4>1, <4>2, <4>3 DEF Back
      <4>. QED BY <2>1, <3>1, <4>4 DEF IoEffect
    <3>2. CASE ~(acceptor = "pushed" /\ Back \in Clients /\ Len(m_deqConnections) \in Places)
      BY <2>1, <3>2 DEF IoEffect
    <3>. QED BY <3>1, <3>2
  <2>. QED BY <2>1, <2>2, <2>3, <2>4
<1>. QED BY <1>1, <1>2, <1>3 DEF SearchOK

\* A search comes to the connection it looks for.
LEMMA MainStepSearch ==
  ASSUME TypeInv, NullsOK, IdsDiffer, SearchOK, MainStep \/ MainCall
  PROVE  SearchOK'
<1> DEFINE Goal == SearchOK'
<1>f. /\ main.cursor \in Nat /\ main.end \in Nat
      /\ Len(m_deqConnections) \in Nat
      /\ \A i \in Places : m_deqConnections[i] \in Clients \/ m_deqConnections[i] = Null
  BY TypeFacts DEF Places, Listable
<1>0. UNCHANGED <<conn, overlapped>>
  BY MainStepSimple
<1> USE DEF SearchOK, SearchFinds
<1>1. CASE Quiet
  <2>1. /\ main'.at \in {"idle", "joining", "searched", "stopped"}
        /\ main'.at = "searched" => main.at = "search" /\ ~(main.cursor <= main.end)
        /\ main'.found = main.found /\ main'.due = main.due
    BY <1>1, QuietStep DEF Quiet, InLoop
  <2>2. main'.at = "searched" /\ ~overlapped => main.due = Null
    BY <1>f, <2>1 DEF Places
  <2>. QED BY <1>0, <2>1, <2>2
<1>2. CASE SearchOn \/ RemoveNull
  <2>1. /\ main'.at = main.at /\ main'.cursor = main.cursor + 1
        /\ main'.end = main.end /\ main'.id = main.id /\ main'.due = main.due
        /\ main.cursor \in Places
        /\ \/ main.at = "search" /\ conn[m_deqConnections[main.cursor]].id # main.id
           \/ main.at = "remove"
        /\ UNCHANGED m_deqConnections
    BY <1>2, AdvanceStep DEF Places
  <2>2. ASSUME main'.at = "search", main'.due # Null, ~overlapped
        PROVE  /\ main.due \in Clients /\ conn[main.due].id = main.id /\ main.id # 0
               /\ \E i \in Places : /\ main.cursor + 1 <= i /\ i <= main.end
                                    /\ m_deqConnections[i] = main.due
    <3>1. main.due \in Clients /\ conn[main.due].id = main.id /\ main.id # 0
      BY <2>1, <2>2
    <3>2. PICK i \in Places : /\ main.cursor <= i /\ i <= main.end
                              /\ m_deqConnections[i] = main.due
      BY <2>1, <2>2
    <3>3. i # main.cursor
      BY <2>1, <2>2, <3>1, <3>2
    <3>4. main.cursor + 1 <= i
      BY <1>f, <3>2, <3>3 DEF Places
    <3>. QED BY <3>1, <3>2, <3>4
  <2>3. main'.at # "searched" /\ Places' = Places
    BY <2>1 DEF Places
  <2>. QED BY <1>0, <2>1, <2>2, <2>3
<1>3. CASE SearchHit
  <2>1. /\ main'.at = "searched"
        /\ main'.found = m_deqConnections[main.cursor] /\ main'.due = main.due
        /\ main.at = "search" /\ main.cursor \in Places
        /\ conn[m_deqConnections[main.cursor]].id = main.id
    BY <1>3, HitStep DEF Places
  <2>2. m_deqConnections[main.cursor] \in Clients
    BY <1>f, <2>1 DEF NullsOK
  <2>3. ~overlapped /\ main.due # Null => main.due = m_deqConnections[main.cursor]
    BY <2>1, <2>2 DEF IdsDiffer
  <2>. QED BY <1>0, <2>1, <2>3
<1>4. ASSUME NEW n \in {0} \cup 10000 .. nIDCounter, Search(n) PROVE Goal
  <2>1. /\ main'.at = "search" /\ main'.cursor = 1
        /\ main'.end = Len(m_deqConnections) /\ main'.id = n
        /\ main'.due # Null => n # 0 /\ main'.due \in WithId(n)
        /\ UNCHANGED m_deqConnections
    BY <1>4, SearchStep
  <2>2. main'.due # Null =>
          /\ main'.due \in Clients /\ conn[main'.due].id = n
          /\ \E i \in Places : m_deqConnections[i] = main'.due
    BY <2>1, TypeFacts DEF WithId, IsListed, Places
  <2>3. \A i \in Places : 1 <= i /\ i <= Len(m_deqConnections)
    BY <1>f DEF Places
  <2>4. Places' = Places
    BY <2>1 DEF Places
  <2>. QED BY <1>0, <2>1, <2>2, <2>3, <2>4
<1>5. ASSUME NEW c \in Clients, MessageClient(c) PROVE Goal
  BY <1>5, MessageStep
<1>6. ASSUME NEW p \in Clients \cup {Null}, MessageAllClients(p) PROVE Goal
  BY <1>6, SweepAllStep
<1>7. CASE Sweep
  BY <1>7, SweepStep
<1>8. CASE SweepEnds /\ main.bInvalidClientExists
  BY <1>8, SweepEndsStep
<1>9. CASE Keep
  BY <1>9, KeepStep
<1>10. CASE RemoveEnds
  BY <1>10, RemoveEndsStep
<1>11. CASE Erase
  BY <1>11, EraseStep
<1>. HIDE DEF Goal
<1>. QED BY <1>1, <1>2, <1>3, <1>4, <1>5, <1>6, <1>7, <1>8, <1>9, <1>10, <1>11,
            MainCases DEF Goal

-----------------------------------------------------------------------------
(* The inductive invariant and the theorems.                               *)

DequeInv ==
  TypeInv /\ NullsOK /\ GreetedOK /\ NewOK /\ IdsDiffer /\ OrderOK /\ SearchOK

\* The invariant holds at first.
LEMMA DequeInvInit == InterfaceInit => DequeInv
<1> SUFFICES ASSUME InterfaceInit PROVE DequeInv
  OBVIOUS
<1>1. TypeInv
  BY TypeInvInit
<1>2. /\ acceptor = "unarmed" /\ m_deqConnections = <<>>
      /\ \A c \in Clients : toClient[c] = <<>> /\ conn[c].id = 0 /\ ~conn[c].open
  BY DEF InterfaceInit
<1>3. main.at = "starting"
  BY DEF InterfaceInit
<1>4. Places = {}
  BY <1>2 DEF Places
<1>5. NullsOK /\ NewOK /\ IdsDiffer
  BY <1>2, <1>3, <1>4 DEF NullsOK, NewOK, IdsDiffer
<1>6. GreetedOK
  BY <1>2, <1>4 DEF GreetedOK, GreetedFirst, InHandler
<1>7. OrderOK
  BY <1>2, <1>3, <1>4
     DEF OrderOK, WholeRemoval, PushedLast, OpenListed, ListedOnce, Ascending
<1>8. SearchOK
  BY <1>3 DEF SearchOK, SearchFinds
<1>. QED BY <1>1, <1>5, <1>6, <1>7, <1>8 DEF DequeInv

\* Every step keeps it.
LEMMA DequeInvStep == DequeInv /\ [InterfaceNext]_interfaceVars => DequeInv'
<1> SUFFICES ASSUME DequeInv, [InterfaceNext]_interfaceVars PROVE DequeInv'
  OBVIOUS
<1> USE DEF DequeInv
<1>1. CASE IoStep
  <2>1. IoEffect
    BY <1>1, IoStepEffect
  <2>. QED BY <1>1, <2>1, StepTypes, IoStepGreeted, IoStepIds, IoStepOrder,
              IoStepSearch DEF InterfaceNext, IoStep
<1>2. CASE MainStep \/ MainCall
  BY <1>2, StepTypes, MainStepGreeted, MainStepOrder, MainStepSearch DEF InterfaceNext
<1>3. CASE UNCHANGED interfaceVars
  <2>1. TypeInv' /\ NullsOK'
    BY <1>3, StutterTypes
  <2>2. GreetedOK'
    BY <1>3 DEF interfaceVars, clientVars, acceptVars, dequeVars, GreetedOK, GreetedFirst,
                InHandler, Places
  <2>3. NewOK' /\ IdsDiffer' /\ SearchOK'
    BY <1>3 DEF interfaceVars, acceptVars, dequeVars, NewOK, IdsDiffer, SearchOK,
                SearchFinds, Places
  <2>4. OrderOK'
    BY <1>3 DEF interfaceVars, acceptVars, dequeVars, OrderOK, WholeRemoval, PushedLast,
                OpenListed, ListedOnce, Ascending, Places
  <2>. QED BY <2>1, <2>2, <2>3, <2>4
<1>4. IoStep \/ MainStep \/ MainCall \/ UNCHANGED interfaceVars
  BY DEF InterfaceNext, IoStep
<1>. QED BY <1>1, <1>2, <1>3, <1>4

\* It always holds.
LEMMA DequeInvariant == InterfaceSpec => []DequeInv
BY DequeInvInit, DequeInvStep, PTL DEF InterfaceSpec

\* Every variable keeps its type; in particular the main thread sends to no
\* null pointer, and every id is one that the counter has passed.
THEOREM InterfaceTypeCorrect == InterfaceSpec => []InterfaceTypeOK
<1>1. DequeInv => InterfaceTypeOK
  BY DEF DequeInv, TypeInv
<1>. QED BY <1>1, DequeInvariant, PTL

\* Outside a sweep and its removal there is no null pointer in the deque,
\* whatever the io_context thread pushes meanwhile.
THEOREM NoNullAlways == InterfaceSpec => []NoNullListed
<1>1. DequeInv => NoNullListed
  BY TypeFacts DEF DequeInv, NullsOK, NoNullListed, Places
<1>. QED BY <1>1, DequeInvariant, PTL

\* Whoever is sent anything has been sent the greeting first, and only once.
THEOREM GreetedFirstAlways == InterfaceSpec => []GreetedFirst
<1>1. DequeInv => GreetedFirst
  BY DEF DequeInv, GreetedOK
<1>. QED BY <1>1, DequeInvariant, PTL

\* No open connection is lost from the deque or listed twice, unless a push_back
\* met a removal.
THEOREM OpenStaysAlways == InterfaceSpec => []OpenStaysListed
<1>1. DequeInv => OpenStaysListed
  BY TypeFacts, SMTT(60)
     DEF DequeInv, OrderOK, OpenListed, ListedOnce, OpenStaysListed, IsListed, Places
<1>. QED BY <1>1, DequeInvariant, PTL

\* Ids go up along the deque, unless a push_back met a removal.
THEOREM IdsAscendAlways == InterfaceSpec => []IdsAscend
<1>1. ASSUME DequeInv PROVE IdsAscend
  <2>1. DOMAIN m_deqConnections = Places
    BY <1>1, TypeFacts DEF DequeInv, Places
  <2>2. ~overlapped => Ascending
    BY <1>1 DEF DequeInv, OrderOK
  <2>. QED BY <2>1, <2>2 DEF Ascending, IdsAscend
<1>. QED BY <1>1, DequeInvariant, PTL

\* Unless a push_back met a removal, m_deqConnections holds every open connection
\* once, and in the order of their ids.
THEOREM ListedInOrderAlways == InterfaceSpec => []ListedInOrder
<1>1. OpenStaysListed /\ IdsAscend => ListedInOrder
  BY DEF ListedInOrder
<1>. QED BY <1>1, OpenStaysAlways, IdsAscendAlways, PTL

\* A search finds the connection that had the id when it began, unless a
\* push_back met a removal.
THEOREM SearchFindsAlways == InterfaceSpec => []SearchFinds
<1>1. DequeInv => SearchFinds
  BY DEF DequeInv, SearchOK, SearchFinds
<1>. QED BY <1>1, DequeInvariant, PTL

-----------------------------------------------------------------------------
(* What a step may never do.                                               *)

\* A listed connection is at one of the places.
LEMMA ListedAtPlace ==
  ASSUME m_deqConnections \in Seq(Listable), NEW c \in Clients
  PROVE  IsListed(c) <=> \E i \in Places : m_deqConnections[i] = c
<1>1. DOMAIN m_deqConnections = Places
  BY DEF Places
<1>. QED BY <1>1 DEF IsListed

\* The io_context thread and the clients take nothing out of the deque, and
\* push only what has no id.
LEMMA IoStepListed ==
  ASSUME TypeInv, NewOK, OrderOK, IoEffect, m_deqConnections' \in Seq(Listable),
         NEW c \in Clients
  PROVE  /\ IsListed(c) => IsListed(c)'
         /\ conn[c].id # 0 /\ IsListed(c)' => IsListed(c)
         /\ conn[c].id # 0 /\ ~overlapped' => conn'[c].id = conn[c].id
<1>f. m_deqConnections \in Seq(Listable) /\ Len(m_deqConnections) \in Nat
  BY TypeFacts
<1>1. /\ IsListed(c) <=> \E i \in Places : m_deqConnections[i] = c
      /\ IsListed(c)' <=> \E i \in Places' : m_deqConnections'[i] = c
  <2>1. DOMAIN m_deqConnections' = Places'
    BY DEF Places
  <2>. QED BY <1>f, <2>1, ListedAtPlace DEF IsListed
<1>2. CASE UNCHANGED m_deqConnections /\ \A d \in Clients : conn'[d].id = conn[d].id
  BY <1>1, <1>2 DEF Places
<1>3. CASE UNCHANGED <<conn, m_deqConnections>>
  BY <1>1, <1>3 DEF Places
<1>4. CASE /\ acceptor = "greeted" /\ UNCHANGED conn
           /\ Len(m_deqConnections') = Len(m_deqConnections) + 1
           /\ \A i \in Places : m_deqConnections'[i] = m_deqConnections[i]
           /\ m_deqConnections'[Len(m_deqConnections) + 1] = newConn
  <2>1. conn[newConn].id = 0
    BY <1>4 DEF NewOK
  <2>2. /\ Places \subseteq Places'
        /\ \A i \in Places' : i \in Places \/ i = Len(m_deqConnections) + 1
    BY <1>f, <1>4 DEF Places
  <2>. QED BY <1>1, <1>4, <2>1, <2>2
<1>5. CASE /\ acceptor = "pushed" /\ UNCHANGED m_deqConnections
           /\ Len(m_deqConnections) \in Places /\ Back \in Clients
           /\ \A d \in Clients : d # Back => conn'[d].id = conn[d].id
  <2>1. ASSUME ~overlapped' PROVE conn[Back].id = 0
    <3>1. PICK i \in Places : /\ m_deqConnections[i] = newConn /\ conn[newConn].id = 0
                              /\ \A j \in Places : j > i => m_deqConnections[j] = Null
      BY <1>5, <2>1 DEF IoEffect, OrderOK, PushedLast
    <3>2. Back # Null
      BY <1>5, InterfaceAssumption
    <3>3. i = Len(m_deqConnections)
      BY <1>f, <1>5, <3>1, <3>2 DEF Back, Places
    <3>. QED BY <3>1, <3>3 DEF Back
  <2>. QED BY <1>1, <1>5, <2>1 DEF Places
<1>. QED BY <1>2, <1>3, <1>4, <1>5 DEF IoEffect

\* The main thread pushes nothing and gives no id; what it takes out is closed,
\* and met by a sweep.
LEMMA MainStepListed ==
  ASSUME TypeInv, NullsOK, OrderOK, MainStep \/ MainCall, NEW c \in Clients
  PROVE  /\ IsListed(c)' => IsListed(c)
         /\ conn'[c].id = conn[c].id
         /\ ~overlapped' /\ IsListed(c) /\ ~IsListed(c)'
              => main.at = "sweep" /\ ~conn[c].open
<1>1. UNCHANGED <<conn, overlapped>>
  BY MainStepSimple
<1>2. m_deqConnections' \in Seq(Listable)
  BY MainStepTypes
<1>3. /\ IsListed(c) <=> \E i \in Places : m_deqConnections[i] = c
      /\ IsListed(c)' <=> \E i \in Places' : m_deqConnections'[i] = c
  <2>1. DOMAIN m_deqConnections' = Places'
    BY <1>2 DEF Places
  <2>. QED BY <2>1, TypeFacts, ListedAtPlace DEF IsListed
<1>4. c # Null
  BY InterfaceAssumption
<1>5. PICK m : Moves(m)
  BY MainMoves
<1>6. IsListed(c)' => IsListed(c)
  BY <1>3, <1>4, <1>5 DEF Moves
<1>7. ASSUME ~overlapped', IsListed(c), main.at = "sweep" => conn[c].open
      PROVE  IsListed(c)'
  <2>1. main.at = "erase" => main.end = Len(m_deqConnections)
    BY <1>1, <1>7 DEF OrderOK, WholeRemoval
  <2>2. PICK i \in Places : m_deqConnections[i] = c
    BY <1>3, <1>7
  <2>. QED BY <1>3, <1>4, <1>7, <2>1, <2>2, ElementStays
<1>. QED BY <1>1, <1>6, <1>7

\* Both properties, for every step.
LEMMA ListedStep ==
  ASSUME DequeInv, DequeInv', [InterfaceNext]_interfaceVars, NEW c \in Clients
  PROVE  /\ conn[c].id # 0 => /\ IsListed(c)' => IsListed(c)
                              /\ ~overlapped' => conn'[c].id = conn[c].id
         /\ ~overlapped' /\ IsListed(c) /\ ~IsListed(c)'
              => main.at = "sweep" /\ ~conn[c].open
<1> USE DEF DequeInv
<1>1. CASE IoStep
  <2>1. IoEffect
    BY <1>1, IoStepEffect
  <2>2. m_deqConnections' \in Seq(Listable)
    BY DEF TypeInv, InterfaceTypeOK
  <2>. QED BY <2>1, <2>2, IoStepListed
<1>2. CASE MainStep \/ MainCall
  BY <1>2, MainStepListed
<1>3. CASE UNCHANGED interfaceVars
  BY <1>3 DEF interfaceVars, dequeVars, IsListed
<1>4. IoStep \/ MainStep \/ MainCall \/ UNCHANGED interfaceVars
  BY DEF InterfaceNext, IoStep
<1>. QED BY <1>1, <1>2, <1>3, <1>4

\* A connection that has an id is never pushed again and keeps the id, unless a
\* push_back met a removal.
THEOREM IdGivenOnceAlways == InterfaceSpec => IdGivenOnce
<1>1. DequeInv /\ DequeInv' /\ [InterfaceNext]_interfaceVars
        => [\A c \in Clients : conn[c].id # 0 =>
              /\ IsListed(c)' => IsListed(c)
              /\ ~overlapped' => conn'[c].id = conn[c].id]_interfaceVars
  BY ListedStep
<1>. QED BY <1>1, DequeInvariant, PTL DEF InterfaceSpec, IdGivenOnce

\* A connection leaves the deque in a sweep that meets it closed and in no other
\* way, unless a push_back met a removal.
THEOREM LeavesBySweepAlways == InterfaceSpec => LeavesBySweep
<1>1. DequeInv /\ DequeInv' /\ [InterfaceNext]_interfaceVars
        => [~overlapped' => \A c \in Clients :
              IsListed(c) /\ ~IsListed(c)'
                => main.at = "sweep" /\ ~conn[c].open]_interfaceVars
  BY ListedStep
<1>. QED BY <1>1, DequeInvariant, PTL DEF InterfaceSpec, LeavesBySweep

\* A connection is listed from its push_back to the sweep that meets it closed,
\* and never again.
THEOREM ListedTillSweptAlways == InterfaceSpec => ListedTillSwept
<1>1. IdGivenOnce /\ LeavesBySweep => ListedTillSwept
  BY DEF ListedTillSwept
<1>. QED BY <1>1, IdGivenOnceAlways, LeavesBySweepAlways, PTL
=============================================================================
