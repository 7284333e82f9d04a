---------------------------- MODULE DispatchProofs ----------------------------
(***************************************************************************)
(* Proofs about Dispatch, for any hosts, any ports and any number of       *)
(* sessions.                                                               *)
(***************************************************************************)
EXTENDS Dispatch, TLAPS

\* Who holds the lock of the list is where it may be held.
LockHeld ==
    /\ lock = Recv <=> recv \in {"look", "add", "hand"}
    /\ lock = Rpc <=> rpc = "walk"
    /\ \A s \in Session : lock = s => stage[s] \in {"found", "leave"}

\* A session that is not listed yet is the one the receive loop is making,
\* for a host that has none.
Making ==
    /\ recv = "add" => /\ target \in Session /\ stage[target] = "new"
                       /\ peer[target] = pkt.from
                       /\ \A s \in tree : peer[s].host # pkt.from.host
    /\ \A s \in Session : stage[s] = "new" => recv = "add" /\ target = s

\* An answer that is not in the cache yet is one of a listed session, of which
\* the host has no other.
Owed ==
    \A h \in Host :
        /\ owed[h] <= cached[h] + 1
        /\ owed[h] > cached[h] =>
              \E s \in Session : stage[s] = "found" /\ peer[s].host = h

Inv == /\ TypeOK /\ LockHeld /\ ListIsOfTheLiving /\ OneSessionPerHost
       /\ Making /\ HandedToTheLiving /\ ShellSeesTheLiving
       /\ Owed /\ RunningHasTables

\* The definitions of the groups of variables and of the sets of values.
USE DEF receiver, sessions, cache, data, shell, Endpoint, Packet, Active, Stage

LEMMA NoEndpointType == NoEndpoint \in Endpoint /\ NoPacket \in Packet
BY DispatchAssumption DEF NoEndpoint, NoPacket

LEMMA TailType ==
    ASSUME NEW S, NEW q \in Seq(S), q # <<>>
    PROVE  Tail(q) \in Seq(S)
OBVIOUS

LEMMA PopType ==
    ASSUME NEW s \in Session, TypeOK, queue[s] # <<>>, Pop(s)
    PROVE  queue' \in [Session -> Seq(BOOLEAN)]
<1>1. queue[s] \in Seq(BOOLEAN) /\ queue[s] # <<>>
  BY DEF TypeOK
<1>2. Tail(queue[s]) \in Seq(BOOLEAN)
  BY <1>1, TailType
<1> QED  BY <1>2 DEF TypeOK, Pop

LEMMA FreeType ==
    ASSUME NEW s \in Session, TypeOK, Free(s)
    PROVE  /\ stage' \in [Session -> Stage] /\ peer' \in [Session -> Endpoint]
           /\ tables' \in [Session -> BOOLEAN] /\ foreign' \in [Session -> BOOLEAN]
           /\ queue' \in [Session -> Seq(BOOLEAN)]
<1>1. stage' \in [Session -> Stage] /\ tables' \in [Session -> BOOLEAN]
  BY DEF TypeOK, Free
<1>2. peer' \in [Session -> Endpoint] /\ foreign' \in [Session -> BOOLEAN]
  BY NoEndpointType DEF TypeOK, Free
<1>3. queue' \in [Session -> Seq(BOOLEAN)]
  BY DEF TypeOK, Free
<1> QED  BY <1>1, <1>2, <1>3

LEMMA ReceiveInv == ASSUME NEW a \in Endpoint, NEW e \in BOOLEAN, Inv, Receive(a, e) PROVE Inv'
<1>1. TypeOK'
  BY DispatchAssumption
     DEF Inv, TypeOK, Receive
<1>2. LockHeld'
  BY DispatchAssumption
     DEF Inv, LockHeld, TypeOK, Receive
<1>3. ListIsOfTheLiving'
  BY DispatchAssumption
     DEF Inv, ListIsOfTheLiving, TypeOK, Receive
<1>4. OneSessionPerHost'
  BY DispatchAssumption
     DEF Inv, OneSessionPerHost, TypeOK, ListIsOfTheLiving, Receive
<1>5. Making'
  BY DispatchAssumption
     DEF Inv, Making, TypeOK, LockHeld, Receive
<1>6. HandedToTheLiving'
  BY DispatchAssumption
     DEF Inv, HandedToTheLiving, TypeOK, LockHeld, ListIsOfTheLiving, Receive
<1>7. ShellSeesTheLiving'
  BY DispatchAssumption
     DEF Inv, ShellSeesTheLiving, LockHeld, Receive
<1>8. Owed'
  BY DispatchAssumption
     DEF Inv, Owed, TypeOK, Receive
<1>9. RunningHasTables'
  BY DispatchAssumption
     DEF Inv, RunningHasTables, TypeOK, Receive
<1> QED  BY <1>1, <1>2, <1>3, <1>4, <1>5, <1>6, <1>7, <1>8, <1>9 DEF Inv

LEMMA LockListInv == ASSUME Inv, LockList PROVE Inv'
<1>1. TypeOK'
  BY DispatchAssumption
     DEF Inv, TypeOK, LockList
<1>2. LockHeld'
  BY DispatchAssumption
     DEF Inv, LockHeld, TypeOK, LockList
<1>3. ListIsOfTheLiving'
  BY DispatchAssumption
     DEF Inv, ListIsOfTheLiving, TypeOK, LockList
<1>4. OneSessionPerHost'
  BY DispatchAssumption
     DEF Inv, OneSessionPerHost, TypeOK, ListIsOfTheLiving, LockList
<1>5. Making'
  BY DispatchAssumption
     DEF Inv, Making, TypeOK, LockHeld, LockList
<1>6. HandedToTheLiving'
  BY DispatchAssumption
     DEF Inv, HandedToTheLiving, TypeOK, LockHeld, ListIsOfTheLiving, LockList
<1>7. ShellSeesTheLiving'
  BY DispatchAssumption
     DEF Inv, ShellSeesTheLiving, LockHeld, LockList
<1>8. Owed'
  BY DispatchAssumption
     DEF Inv, Owed, TypeOK, LockList
<1>9. RunningHasTables'
  BY DispatchAssumption
     DEF Inv, RunningHasTables, TypeOK, LockList
<1> QED  BY <1>1, <1>2, <1>3, <1>4, <1>5, <1>6, <1>7, <1>8, <1>9 DEF Inv

LEMMA FoundInv == ASSUME NEW s \in Session, Inv, Found(s) PROVE Inv'
<1>1. TypeOK'
  BY DispatchAssumption
     DEF Inv, TypeOK, Found, Lookup
<1>2. LockHeld'
  BY DispatchAssumption
     DEF Inv, LockHeld, TypeOK, Found, Lookup
<1>3. ListIsOfTheLiving'
  BY DispatchAssumption
     DEF Inv, ListIsOfTheLiving, TypeOK, Found, Lookup
<1>4. OneSessionPerHost'
  BY DispatchAssumption
     DEF Inv, OneSessionPerHost, TypeOK, ListIsOfTheLiving, Found, Lookup
<1>5. Making'
  BY DispatchAssumption
     DEF Inv, Making, TypeOK, LockHeld, Found, Lookup
<1>6. HandedToTheLiving'
  BY DispatchAssumption
     DEF Inv, HandedToTheLiving, TypeOK, LockHeld, ListIsOfTheLiving, Found, Lookup
<1>7. ShellSeesTheLiving'
  BY DispatchAssumption
     DEF Inv, ShellSeesTheLiving, LockHeld, Found, Lookup
<1>8. Owed'
  BY DispatchAssumption
     DEF Inv, Owed, TypeOK, Found, Lookup
<1>9. RunningHasTables'
  BY DispatchAssumption
     DEF Inv, RunningHasTables, TypeOK, Found, Lookup
<1> QED  BY <1>1, <1>2, <1>3, <1>4, <1>5, <1>6, <1>7, <1>8, <1>9 DEF Inv

LEMMA CreateFailsInv == ASSUME Inv, CreateFails PROVE Inv'
<1>1. TypeOK'
  BY DispatchAssumption, NoEndpointType
     DEF Inv, TypeOK, CreateFails, NotFound, ReleaseRecv, Return, Lookup
<1>2. LockHeld'
  BY DispatchAssumption, NoEndpointType
     DEF Inv, LockHeld, TypeOK, CreateFails, NotFound, ReleaseRecv, Return, Lookup
<1>3. ListIsOfTheLiving'
  BY DispatchAssumption, NoEndpointType
     DEF Inv, ListIsOfTheLiving, TypeOK, CreateFails, NotFound, ReleaseRecv, Return, Lookup
<1>4. OneSessionPerHost'
  BY DispatchAssumption, NoEndpointType
     DEF Inv, OneSessionPerHost, TypeOK, ListIsOfTheLiving, CreateFails, NotFound, ReleaseRecv, Return, Lookup
<1>5. Making'
  BY DispatchAssumption, NoEndpointType
     DEF Inv, Making, TypeOK, LockHeld, CreateFails, NotFound, ReleaseRecv, Return, Lookup
<1>6. HandedToTheLiving'
  BY DispatchAssumption, NoEndpointType
     DEF Inv, HandedToTheLiving, TypeOK, LockHeld, ListIsOfTheLiving, CreateFails, NotFound, ReleaseRecv, Return, Lookup
<1>7. ShellSeesTheLiving'
  BY DispatchAssumption, NoEndpointType
     DEF Inv, ShellSeesTheLiving, LockHeld, CreateFails, NotFound, ReleaseRecv, Return, Lookup
<1>8. Owed'
  BY DispatchAssumption, NoEndpointType
     DEF Inv, Owed, TypeOK, CreateFails, NotFound, ReleaseRecv, Return, Lookup
<1>9. RunningHasTables'
  BY DispatchAssumption, NoEndpointType
     DEF Inv, RunningHasTables, TypeOK, CreateFails, NotFound, ReleaseRecv, Return, Lookup
<1> QED  BY <1>1, <1>2, <1>3, <1>4, <1>5, <1>6, <1>7, <1>8, <1>9 DEF Inv

LEMMA CreateInv == ASSUME NEW s \in Session, Inv, Create(s) PROVE Inv'
<1>1. TypeOK'
  BY DispatchAssumption
     DEF Inv, TypeOK, Create, NotFound, Taken, Lookup
<1>2. LockHeld'
  BY DispatchAssumption
     DEF Inv, LockHeld, TypeOK, Create, NotFound, Taken, Lookup
<1>3. ListIsOfTheLiving'
  BY DispatchAssumption
     DEF Inv, ListIsOfTheLiving, TypeOK, Create, NotFound, Taken, Lookup
<1>4. OneSessionPerHost'
  BY DispatchAssumption
     DEF Inv, OneSessionPerHost, TypeOK, ListIsOfTheLiving, Create, NotFound, Taken, Lookup
<1>5. Making'
  <2>1. /\ recv' = "add" /\ target' = s /\ recv = "look" /\ stage[s] = "none"
        /\ stage' = [stage EXCEPT ![s] = "new"] /\ tree' = tree /\ pkt' = pkt
        /\ peer' = [peer EXCEPT ![s] = pkt.from]
    BY DEF Create, NotFound
  <2>2. \A t \in tree : peer[t].host # pkt.from.host
    BY DEF Create, NotFound, Lookup
  <2>3. s \notin tree /\ tree \subseteq Session
    BY <2>1 DEF Inv, TypeOK, ListIsOfTheLiving
  <2>4. \A t \in tree : peer'[t] = peer[t]
    BY <2>1, <2>3 DEF Inv, TypeOK
  <2>5. \A t \in Session : stage[t] # "new"
    BY <2>1 DEF Inv, Making
  <2>6. \A t \in Session : stage'[t] = "new" => t = s
    BY <2>1, <2>5 DEF Inv, TypeOK
  <2>7. stage'[s] = "new" /\ peer'[s] = pkt.from
    BY <2>1 DEF Inv, TypeOK
  <2> QED  BY <2>1, <2>2, <2>3, <2>4, <2>6, <2>7 DEF Making
<1>6. HandedToTheLiving'
  BY DispatchAssumption
     DEF Inv, HandedToTheLiving, TypeOK, LockHeld, ListIsOfTheLiving, Create, NotFound, Taken, Lookup
<1>7. ShellSeesTheLiving'
  BY DispatchAssumption
     DEF Inv, ShellSeesTheLiving, LockHeld, Create, NotFound, Taken, Lookup
<1>8. Owed'
  BY DispatchAssumption
     DEF Inv, Owed, TypeOK, Create, NotFound, Taken, Lookup
<1>9. RunningHasTables'
  BY DispatchAssumption
     DEF Inv, RunningHasTables, TypeOK, Create, NotFound, Taken, Lookup
<1> QED  BY <1>1, <1>2, <1>3, <1>4, <1>5, <1>6, <1>7, <1>8, <1>9 DEF Inv

LEMMA AddFailsInv == ASSUME Inv, AddFails PROVE Inv'
<1>a. /\ target \in Session /\ stage[target] = "new"
      /\ target \notin tree
  BY DEF Inv, Making, ListIsOfTheLiving, AddFails
<1>b. /\ stage' = [stage EXCEPT ![target] = "none"]
      /\ peer' = [peer EXCEPT ![target] = NoEndpoint]
      /\ UNCHANGED <<tree, cache, data, shell, crashed>>
  BY DEF AddFails, Free
<1>1. TypeOK'
  <2> Free(target)
    BY DEF AddFails
  <2> QED  BY <1>a, FreeType, NoEndpointType
           DEF Inv, TypeOK, AddFails, ReleaseRecv, Return
<1>2. LockHeld'
  BY DispatchAssumption, NoEndpointType
     DEF Inv, LockHeld, TypeOK, AddFails, Free, ReleaseRecv, Return
<1>3. ListIsOfTheLiving'
  BY <1>a, <1>b DEF Inv, TypeOK, ListIsOfTheLiving
<1>4. OneSessionPerHost'
  <2>1. \A s \in tree : peer'[s] = peer[s]
    BY <1>a, <1>b DEF Inv, TypeOK
  <2> QED  BY <1>b, <2>1 DEF Inv, OneSessionPerHost
<1>5. Making'
  BY DispatchAssumption, NoEndpointType
     DEF Inv, Making, TypeOK, LockHeld, AddFails, Free, ReleaseRecv, Return
<1>6. HandedToTheLiving'
  BY DispatchAssumption, NoEndpointType
     DEF Inv, HandedToTheLiving, TypeOK, LockHeld, ListIsOfTheLiving, AddFails, Free, ReleaseRecv, Return
<1>7. ShellSeesTheLiving'
  BY DispatchAssumption, NoEndpointType
     DEF Inv, ShellSeesTheLiving, LockHeld, AddFails, Free, ReleaseRecv, Return
<1>8. Owed'
  <2>1. \A s \in Session :
           stage[s] = "found" => stage'[s] = "found" /\ peer'[s] = peer[s]
    BY <1>a, <1>b DEF Inv, TypeOK
  <2> QED  BY <2>1, <1>b DEF Inv, Owed
<1>9. RunningHasTables'
  BY DispatchAssumption, NoEndpointType
     DEF Inv, RunningHasTables, TypeOK, AddFails, Free, ReleaseRecv, Return
<1> QED  BY <1>1, <1>2, <1>3, <1>4, <1>5, <1>6, <1>7, <1>8, <1>9 DEF Inv

LEMMA StartInv == ASSUME Inv, Start PROVE Inv'
<1>a. /\ target \in Session /\ stage[target] = "new" /\ peer[target] = pkt.from
      /\ target \notin tree
  BY DEF Inv, Making, ListIsOfTheLiving, Start
<1>b. PICK to \in {"accept", "discovery", "stuck"} :
         stage' = [stage EXCEPT ![target] = to]
  BY DEF Start
<1>c. /\ tree' = tree \cup {target} /\ recv = "add" /\ recv' = "hand"
      /\ UNCHANGED <<pkt, target, lock, peer, tables, foreign, queue, cache, data,
                     shell, crashed>>
  BY DEF Start
<1>1. TypeOK'
  BY <1>a, <1>b, <1>c DEF Inv, TypeOK
<1>2. LockHeld'
  BY DispatchAssumption
     DEF Inv, LockHeld, TypeOK, Start
<1>3. ListIsOfTheLiving'
  BY <1>a, <1>b, <1>c DEF Inv, TypeOK, ListIsOfTheLiving
<1>4. OneSessionPerHost'
  BY <1>a, <1>c DEF Inv, Making, OneSessionPerHost
<1>5. Making'
  BY DispatchAssumption
     DEF Inv, Making, TypeOK, LockHeld, Start
<1>6. HandedToTheLiving'
  BY <1>a, <1>b, <1>c DEF Inv, TypeOK, HandedToTheLiving
<1>7. ShellSeesTheLiving'
  BY DispatchAssumption
     DEF Inv, ShellSeesTheLiving, LockHeld, Start
<1>8. Owed'
  <2>1. \A s \in Session : stage[s] = "found" => stage'[s] = "found"
    BY <1>a, <1>b DEF Inv, TypeOK
  <2> QED  BY <2>1, <1>c DEF Inv, Owed
<1>9. RunningHasTables'
  BY DispatchAssumption
     DEF Inv, RunningHasTables, TypeOK, Start
<1> QED  BY <1>1, <1>2, <1>3, <1>4, <1>5, <1>6, <1>7, <1>8, <1>9 DEF Inv

LEMMA HandInv == ASSUME Inv, Hand PROVE Inv'
<1>1. TypeOK'
  <2>1. target \in Session
    BY DEF Inv, TypeOK, HandedToTheLiving, Hand
  <2>2. queue[target] \in Seq(BOOLEAN) /\ pkt.dtls \in BOOLEAN
    BY <2>1 DEF Inv, TypeOK
  <2>3. queue' \in [Session -> Seq(BOOLEAN)]
    BY <2>1, <2>2 DEF Inv, TypeOK, Hand
  <2> QED  BY <2>3, NoEndpointType DEF Inv, TypeOK, Hand, ReleaseRecv, Return
<1>2. LockHeld'
  BY DispatchAssumption, NoEndpointType
     DEF Inv, LockHeld, TypeOK, Hand, ReleaseRecv, Return
<1>3. ListIsOfTheLiving'
  BY DispatchAssumption, NoEndpointType
     DEF Inv, ListIsOfTheLiving, TypeOK, Hand, ReleaseRecv, Return
<1>4. OneSessionPerHost'
  BY DispatchAssumption, NoEndpointType
     DEF Inv, OneSessionPerHost, TypeOK, ListIsOfTheLiving, Hand, ReleaseRecv, Return
<1>5. Making'
  BY DispatchAssumption, NoEndpointType
     DEF Inv, Making, TypeOK, LockHeld, Hand, ReleaseRecv, Return
<1>6. HandedToTheLiving'
  BY DispatchAssumption, NoEndpointType
     DEF Inv, HandedToTheLiving, TypeOK, LockHeld, ListIsOfTheLiving, Hand, ReleaseRecv, Return
<1>7. ShellSeesTheLiving'
  BY DispatchAssumption, NoEndpointType
     DEF Inv, ShellSeesTheLiving, LockHeld, Hand, ReleaseRecv, Return
<1>8. Owed'
  BY DispatchAssumption, NoEndpointType
     DEF Inv, Owed, TypeOK, Hand, ReleaseRecv, Return
<1>9. RunningHasTables'
  BY DispatchAssumption, NoEndpointType
     DEF Inv, RunningHasTables, TypeOK, Hand, ReleaseRecv, Return
<1> QED  BY <1>1, <1>2, <1>3, <1>4, <1>5, <1>6, <1>7, <1>8, <1>9 DEF Inv

LEMMA ReceiveDataInv == ASSUME Inv, ReceiveData PROVE Inv'
<1>1. TypeOK'
  BY DispatchAssumption
     DEF Inv, TypeOK, ReceiveData
<1>2. LockHeld'
  BY DispatchAssumption
     DEF Inv, LockHeld, TypeOK, ReceiveData
<1>3. ListIsOfTheLiving'
  BY DispatchAssumption
     DEF Inv, ListIsOfTheLiving, TypeOK, ReceiveData
<1>4. OneSessionPerHost'
  BY DispatchAssumption
     DEF Inv, OneSessionPerHost, TypeOK, ListIsOfTheLiving, ReceiveData
<1>5. Making'
  BY DispatchAssumption
     DEF Inv, Making, TypeOK, LockHeld, ReceiveData
<1>6. HandedToTheLiving'
  BY DispatchAssumption
     DEF Inv, HandedToTheLiving, TypeOK, LockHeld, ListIsOfTheLiving, ReceiveData
<1>7. ShellSeesTheLiving'
  BY DispatchAssumption
     DEF Inv, ShellSeesTheLiving, LockHeld, ReceiveData
<1>8. Owed'
  BY DispatchAssumption
     DEF Inv, Owed, TypeOK, ReceiveData
<1>9. RunningHasTables'
  BY DispatchAssumption
     DEF Inv, RunningHasTables, TypeOK, ReceiveData
<1> QED  BY <1>1, <1>2, <1>3, <1>4, <1>5, <1>6, <1>7, <1>8, <1>9 DEF Inv

LEMMA DataFoundInv == ASSUME Inv, DataFound PROVE Inv'
<1>1. TypeOK'
  BY DispatchAssumption, NoEndpointType
     DEF Inv, TypeOK, DataFound, Return
<1>2. LockHeld'
  BY DispatchAssumption, NoEndpointType
     DEF Inv, LockHeld, TypeOK, DataFound, Return
<1>3. ListIsOfTheLiving'
  BY DispatchAssumption, NoEndpointType
     DEF Inv, ListIsOfTheLiving, TypeOK, DataFound, Return
<1>4. OneSessionPerHost'
  BY DispatchAssumption, NoEndpointType
     DEF Inv, OneSessionPerHost, TypeOK, ListIsOfTheLiving, DataFound, Return
<1>5. Making'
  BY DispatchAssumption, NoEndpointType
     DEF Inv, Making, TypeOK, LockHeld, DataFound, Return
<1>6. HandedToTheLiving'
  BY DispatchAssumption, NoEndpointType
     DEF Inv, HandedToTheLiving, TypeOK, LockHeld, ListIsOfTheLiving, DataFound, Return
<1>7. ShellSeesTheLiving'
  BY DispatchAssumption, NoEndpointType
     DEF Inv, ShellSeesTheLiving, LockHeld, DataFound, Return
<1>8. Owed'
  BY DispatchAssumption, NoEndpointType
     DEF Inv, Owed, TypeOK, DataFound, Return
<1>9. RunningHasTables'
  BY DispatchAssumption, NoEndpointType
     DEF Inv, RunningHasTables, TypeOK, DataFound, Return
<1> QED  BY <1>1, <1>2, <1>3, <1>4, <1>5, <1>6, <1>7, <1>8, <1>9 DEF Inv

LEMMA DataCreatedInv == ASSUME Inv, DataCreated PROVE Inv'
<1>1. TypeOK'
  BY DispatchAssumption, NoEndpointType
     DEF Inv, TypeOK, DataCreated, Return
<1>2. LockHeld'
  BY DispatchAssumption, NoEndpointType
     DEF Inv, LockHeld, TypeOK, DataCreated, Return
<1>3. ListIsOfTheLiving'
  BY DispatchAssumption, NoEndpointType
     DEF Inv, ListIsOfTheLiving, TypeOK, DataCreated, Return
<1>4. OneSessionPerHost'
  BY DispatchAssumption, NoEndpointType
     DEF Inv, OneSessionPerHost, TypeOK, ListIsOfTheLiving, DataCreated, Return
<1>5. Making'
  BY DispatchAssumption, NoEndpointType
     DEF Inv, Making, TypeOK, LockHeld, DataCreated, Return
<1>6. HandedToTheLiving'
  BY DispatchAssumption, NoEndpointType
     DEF Inv, HandedToTheLiving, TypeOK, LockHeld, ListIsOfTheLiving, DataCreated, Return
<1>7. ShellSeesTheLiving'
  BY DispatchAssumption, NoEndpointType
     DEF Inv, ShellSeesTheLiving, LockHeld, DataCreated, Return
<1>8. Owed'
  BY DispatchAssumption, NoEndpointType
     DEF Inv, Owed, TypeOK, DataCreated, Return
<1>9. RunningHasTables'
  BY DispatchAssumption, NoEndpointType
     DEF Inv, RunningHasTables, TypeOK, DataCreated, Return
<1> QED  BY <1>1, <1>2, <1>3, <1>4, <1>5, <1>6, <1>7, <1>8, <1>9 DEF Inv

LEMMA DataFailsInv == ASSUME Inv, DataFails PROVE Inv'
<1>1. TypeOK'
  BY DispatchAssumption, NoEndpointType
     DEF Inv, TypeOK, DataFails, Return
<1>2. LockHeld'
  BY DispatchAssumption, NoEndpointType
     DEF Inv, LockHeld, TypeOK, DataFails, Return
<1>3. ListIsOfTheLiving'
  BY DispatchAssumption, NoEndpointType
     DEF Inv, ListIsOfTheLiving, TypeOK, DataFails, Return
<1>4. OneSessionPerHost'
  BY DispatchAssumption, NoEndpointType
     DEF Inv, OneSessionPerHost, TypeOK, ListIsOfTheLiving, DataFails, Return
<1>5. Making'
  BY DispatchAssumption, NoEndpointType
     DEF Inv, Making, TypeOK, LockHeld, DataFails, Return
<1>6. HandedToTheLiving'
  BY DispatchAssumption, NoEndpointType
     DEF Inv, HandedToTheLiving, TypeOK, LockHeld, ListIsOfTheLiving, DataFails, Return
<1>7. ShellSeesTheLiving'
  BY DispatchAssumption, NoEndpointType
     DEF Inv, ShellSeesTheLiving, LockHeld, DataFails, Return
<1>8. Owed'
  BY DispatchAssumption, NoEndpointType
     DEF Inv, Owed, TypeOK, DataFails, Return
<1>9. RunningHasTables'
  BY DispatchAssumption, NoEndpointType
     DEF Inv, RunningHasTables, TypeOK, DataFails, Return
<1> QED  BY <1>1, <1>2, <1>3, <1>4, <1>5, <1>6, <1>7, <1>8, <1>9 DEF Inv

LEMMA DetectInv == ASSUME NEW s \in Session, Inv, Detect(s) PROVE Inv'
<1>1. TypeOK'
  <2>1. queue' \in [Session -> Seq(BOOLEAN)]
    BY PopType DEF Inv, Detect
  <2>2. stage' \in [Session -> Stage]
    BY DEF Inv, TypeOK, Detect, Go
  <2>3. tables' \in [Session -> BOOLEAN]
    BY DEF Inv, TypeOK, Detect
  <2>4. peer[s].host \in Host /\ owed \in [Host -> Nat]
    BY DEF Inv, TypeOK
  <2>5. owed' = [owed EXCEPT ![peer[s].host] = @ + 1]
    BY DEF Detect
  <2>6. owed' \in [Host -> Nat]
    BY <2>4, <2>5
  <2> QED  BY <2>1, <2>2, <2>3, <2>6 DEF Inv, TypeOK, Detect
<1>2. LockHeld'
  BY DispatchAssumption
     DEF Inv, LockHeld, TypeOK, Detect, Pop, Go
<1>3. ListIsOfTheLiving'
  BY DispatchAssumption
     DEF Inv, ListIsOfTheLiving, TypeOK, Detect, Pop, Go
<1>4. OneSessionPerHost'
  BY DispatchAssumption
     DEF Inv, OneSessionPerHost, TypeOK, ListIsOfTheLiving, Detect, Pop, Go
<1>5. Making'
  BY DispatchAssumption
     DEF Inv, Making, TypeOK, LockHeld, Detect, Pop, Go
<1>6. HandedToTheLiving'
  BY DispatchAssumption
     DEF Inv, HandedToTheLiving, TypeOK, LockHeld, ListIsOfTheLiving, Detect, Pop, Go
<1>7. ShellSeesTheLiving'
  BY DispatchAssumption
     DEF Inv, ShellSeesTheLiving, LockHeld, Detect, Pop, Go
<1>8. Owed'
  <2> DEFINE g == peer[s].host
  <2>1. g \in Host /\ s \in tree
    BY DEF Inv, TypeOK, ListIsOfTheLiving, Detect
  <2>2. owed[g] <= cached[g]
    <3>1. \A t \in Session : stage[t] = "found" => peer[t].host # g
      BY <2>1 DEF Inv, OneSessionPerHost, ListIsOfTheLiving, Detect
    <3>2. ~ owed[g] > cached[g]
      BY <2>1, <3>1 DEF Inv, Owed
    <3> HIDE DEF g
    <3>3. owed[g] \in Nat /\ cached[g] \in Nat
      BY <2>1 DEF Inv, TypeOK
    <3> QED  BY <3>2, <3>3
  <2>3. peer' = peer /\ cached' = cached /\ owed' = [owed EXCEPT ![g] = @ + 1]
    BY DEF Detect
  <2>4. stage' = [stage EXCEPT ![s] = "found"]
    BY DEF Detect, Go
  <2> HIDE DEF g
  <2>5. \A h \in Host : owed'[h] <= cached'[h] + 1
    <3>1. owed \in [Host -> Nat] /\ cached \in [Host -> Nat]
      BY DEF Inv, TypeOK
    <3>2. \A h \in Host : owed[h] <= cached[h] + 1
      BY DEF Inv, Owed
    <3> QED  BY <2>1, <2>2, <2>3, <3>1, <3>2
  <2>6. ASSUME NEW h \in Host, owed'[h] > cached'[h]
        PROVE  \E t \in Session : stage'[t] = "found" /\ peer'[t].host = h
    <3>1. CASE h = g
      BY <2>3, <2>4, <3>1 DEF Inv, TypeOK, g
    <3>2. CASE h # g
      <4>1. PICK t \in Session : stage[t] = "found" /\ peer[t].host = h
        BY <2>1, <2>3, <2>6, <3>2 DEF Inv, TypeOK, Owed
      <4> QED  BY <4>1, <2>3, <2>4 DEF Inv, TypeOK
    <3> QED  BY <3>1, <3>2
  <2> QED  BY <2>5, <2>6 DEF Owed
<1>9. RunningHasTables'
  BY DispatchAssumption
     DEF Inv, RunningHasTables, TypeOK, Detect, Pop, Go
<1> QED  BY <1>1, <1>2, <1>3, <1>4, <1>5, <1>6, <1>7, <1>8, <1>9 DEF Inv

LEMMA IgnoreInv == ASSUME NEW s \in Session, Inv, Ignore(s) PROVE Inv'
<1>1. TypeOK'
  BY DispatchAssumption
     DEF Inv, TypeOK, Ignore, Pop
<1>2. LockHeld'
  BY DispatchAssumption
     DEF Inv, LockHeld, TypeOK, Ignore, Pop
<1>3. ListIsOfTheLiving'
  BY DispatchAssumption
     DEF Inv, ListIsOfTheLiving, TypeOK, Ignore, Pop
<1>4. OneSessionPerHost'
  BY DispatchAssumption
     DEF Inv, OneSessionPerHost, TypeOK, ListIsOfTheLiving, Ignore, Pop
<1>5. Making'
  BY DispatchAssumption
     DEF Inv, Making, TypeOK, LockHeld, Ignore, Pop
<1>6. HandedToTheLiving'
  BY DispatchAssumption
     DEF Inv, HandedToTheLiving, TypeOK, LockHeld, ListIsOfTheLiving, Ignore, Pop
<1>7. ShellSeesTheLiving'
  BY DispatchAssumption
     DEF Inv, ShellSeesTheLiving, LockHeld, Ignore, Pop
<1>8. Owed'
  BY DispatchAssumption
     DEF Inv, Owed, TypeOK, Ignore, Pop
<1>9. RunningHasTables'
  BY DispatchAssumption
     DEF Inv, RunningHasTables, TypeOK, Ignore, Pop
<1> QED  BY <1>1, <1>2, <1>3, <1>4, <1>5, <1>6, <1>7, <1>8, <1>9 DEF Inv

LEMMA AcceptInv == ASSUME NEW s \in Session, Inv, Accept(s) PROVE Inv'
<1>1. TypeOK'
  <2>1. queue' \in [Session -> Seq(BOOLEAN)]
    BY PopType DEF Inv, Accept
  <2>2. stage' \in [Session -> Stage]
    BY DEF Inv, TypeOK, Accept, Go
  <2> QED  BY <2>1, <2>2 DEF Inv, TypeOK, Accept
<1>2. LockHeld'
  BY DispatchAssumption
     DEF Inv, LockHeld, TypeOK, Accept, Pop, Go
<1>3. ListIsOfTheLiving'
  BY DispatchAssumption
     DEF Inv, ListIsOfTheLiving, TypeOK, Accept, Pop, Go
<1>4. OneSessionPerHost'
  BY DispatchAssumption
     DEF Inv, OneSessionPerHost, TypeOK, ListIsOfTheLiving, Accept, Pop, Go
<1>5. Making'
  BY DispatchAssumption
     DEF Inv, Making, TypeOK, LockHeld, Accept, Pop, Go
<1>6. HandedToTheLiving'
  BY DispatchAssumption
     DEF Inv, HandedToTheLiving, TypeOK, LockHeld, ListIsOfTheLiving, Accept, Pop, Go
<1>7. ShellSeesTheLiving'
  BY DispatchAssumption
     DEF Inv, ShellSeesTheLiving, LockHeld, Accept, Pop, Go
<1>8. Owed'
  BY DispatchAssumption
     DEF Inv, Owed, TypeOK, Accept, Pop, Go
<1>9. RunningHasTables'
  BY DispatchAssumption
     DEF Inv, RunningHasTables, TypeOK, Accept, Pop, Go
<1> QED  BY <1>1, <1>2, <1>3, <1>4, <1>5, <1>6, <1>7, <1>8, <1>9 DEF Inv

LEMMA ServeInv == ASSUME NEW s \in Session, Inv, Serve(s) PROVE Inv'
<1>1. TypeOK'
  <2>1. queue' \in [Session -> Seq(BOOLEAN)]
    BY PopType DEF Inv, Serve
  <2>2. crashed' \in BOOLEAN
    BY DEF Inv, TypeOK, Serve
  <2> QED  BY <2>1, <2>2 DEF Inv, TypeOK, Serve
<1>2. LockHeld'
  BY DispatchAssumption
     DEF Inv, LockHeld, TypeOK, Serve, Pop
<1>3. ListIsOfTheLiving'
  BY DispatchAssumption
     DEF Inv, ListIsOfTheLiving, TypeOK, Serve, Pop
<1>4. OneSessionPerHost'
  BY DispatchAssumption
     DEF Inv, OneSessionPerHost, TypeOK, ListIsOfTheLiving, Serve, Pop
<1>5. Making'
  BY DispatchAssumption
     DEF Inv, Making, TypeOK, LockHeld, Serve, Pop
<1>6. HandedToTheLiving'
  BY DispatchAssumption
     DEF Inv, HandedToTheLiving, TypeOK, LockHeld, ListIsOfTheLiving, Serve, Pop
<1>7. ShellSeesTheLiving'
  BY DispatchAssumption
     DEF Inv, ShellSeesTheLiving, LockHeld, Serve, Pop
<1>8. Owed'
  BY DispatchAssumption
     DEF Inv, Owed, TypeOK, Serve, Pop
<1>9. RunningHasTables'
  BY DispatchAssumption
     DEF Inv, RunningHasTables, TypeOK, Serve, Pop
<1> QED  BY <1>1, <1>2, <1>3, <1>4, <1>5, <1>6, <1>7, <1>8, <1>9 DEF Inv

LEMMA GiveUpInv == ASSUME NEW s \in Session, Inv, GiveUp(s) PROVE Inv'
<1>1. TypeOK'
  BY DispatchAssumption
     DEF Inv, TypeOK, GiveUp, Go
<1>2. LockHeld'
  BY DispatchAssumption
     DEF Inv, LockHeld, TypeOK, GiveUp, Go
<1>3. ListIsOfTheLiving'
  BY DispatchAssumption
     DEF Inv, ListIsOfTheLiving, TypeOK, GiveUp, Go
<1>4. OneSessionPerHost'
  BY DispatchAssumption
     DEF Inv, OneSessionPerHost, TypeOK, ListIsOfTheLiving, GiveUp, Go
<1>5. Making'
  BY DispatchAssumption
     DEF Inv, Making, TypeOK, LockHeld, GiveUp, Go
<1>6. HandedToTheLiving'
  BY DispatchAssumption
     DEF Inv, HandedToTheLiving, TypeOK, LockHeld, ListIsOfTheLiving, GiveUp, Go
<1>7. ShellSeesTheLiving'
  BY DispatchAssumption
     DEF Inv, ShellSeesTheLiving, LockHeld, GiveUp, Go
<1>8. Owed'
  BY DispatchAssumption
     DEF Inv, Owed, TypeOK, GiveUp, Go
<1>9. RunningHasTables'
  BY DispatchAssumption
     DEF Inv, RunningHasTables, TypeOK, GiveUp, Go
<1> QED  BY <1>1, <1>2, <1>3, <1>4, <1>5, <1>6, <1>7, <1>8, <1>9 DEF Inv

LEMMA LockSessionInv == ASSUME NEW s \in Session, Inv, LockSession(s) PROVE Inv'
<1>1. TypeOK'
  BY DispatchAssumption
     DEF Inv, TypeOK, LockSession
<1>2. LockHeld'
  BY DispatchAssumption
     DEF Inv, LockHeld, TypeOK, LockSession
<1>3. ListIsOfTheLiving'
  BY DispatchAssumption
     DEF Inv, ListIsOfTheLiving, TypeOK, LockSession
<1>4. OneSessionPerHost'
  BY DispatchAssumption
     DEF Inv, OneSessionPerHost, TypeOK, ListIsOfTheLiving, LockSession
<1>5. Making'
  BY DispatchAssumption
     DEF Inv, Making, TypeOK, LockHeld, LockSession
<1>6. HandedToTheLiving'
  BY DispatchAssumption
     DEF Inv, HandedToTheLiving, TypeOK, LockHeld, ListIsOfTheLiving, LockSession
<1>7. ShellSeesTheLiving'
  BY DispatchAssumption
     DEF Inv, ShellSeesTheLiving, LockHeld, LockSession
<1>8. Owed'
  BY DispatchAssumption
     DEF Inv, Owed, TypeOK, LockSession
<1>9. RunningHasTables'
  BY DispatchAssumption
     DEF Inv, RunningHasTables, TypeOK, LockSession
<1> QED  BY <1>1, <1>2, <1>3, <1>4, <1>5, <1>6, <1>7, <1>8, <1>9 DEF Inv

LEMMA RememberInv == ASSUME NEW s \in Session, Inv, Remember(s) PROVE Inv'
<1>1. TypeOK'
  BY DispatchAssumption
     DEF Inv, TypeOK, Remember, Go
<1>2. LockHeld'
  BY DispatchAssumption
     DEF Inv, LockHeld, TypeOK, Remember, Go
<1>3. ListIsOfTheLiving'
  BY DispatchAssumption
     DEF Inv, ListIsOfTheLiving, TypeOK, Remember, Go
<1>4. OneSessionPerHost'
  BY DispatchAssumption
     DEF Inv, OneSessionPerHost, TypeOK, ListIsOfTheLiving, Remember, Go
<1>5. Making'
  BY DispatchAssumption
     DEF Inv, Making, TypeOK, LockHeld, Remember, Go
<1>6. HandedToTheLiving'
  BY DispatchAssumption
     DEF Inv, HandedToTheLiving, TypeOK, LockHeld, ListIsOfTheLiving, Remember, Go
<1>7. ShellSeesTheLiving'
  BY DispatchAssumption
     DEF Inv, ShellSeesTheLiving, LockHeld, Remember, Go
<1>8. Owed'
  BY DispatchAssumption
     DEF Inv, Owed, TypeOK, Remember, Go
<1>9. RunningHasTables'
  BY DispatchAssumption
     DEF Inv, RunningHasTables, TypeOK, Remember, Go
<1> QED  BY <1>1, <1>2, <1>3, <1>4, <1>5, <1>6, <1>7, <1>8, <1>9 DEF Inv

LEMMA RemoveInv == ASSUME NEW s \in Session, Inv, Remove(s) PROVE Inv'
<1>1. TypeOK'
  BY DispatchAssumption
     DEF Inv, TypeOK, Remove, Go, DelByAddr, Lookup
<1>2. LockHeld'
  BY DispatchAssumption
     DEF Inv, LockHeld, TypeOK, Remove, Go, DelByAddr, Lookup
<1>3. ListIsOfTheLiving'
  <2>1. s \in tree
    BY DEF Inv, ListIsOfTheLiving, Remove
  <2>2. tree' = tree \ {s}
    BY <2>1 DEF Inv, OneSessionPerHost, Remove, DelByAddr, Lookup
  <2>3. stage' = [stage EXCEPT ![s] = "unlinked"]
    BY DEF Remove, Go
  <2> QED  BY <2>2, <2>3 DEF Inv, TypeOK, ListIsOfTheLiving
<1>4. OneSessionPerHost'
  BY DispatchAssumption
     DEF Inv, OneSessionPerHost, TypeOK, ListIsOfTheLiving, Remove, Go, DelByAddr, Lookup
<1>5. Making'
  BY DispatchAssumption
     DEF Inv, Making, TypeOK, LockHeld, Remove, Go, DelByAddr, Lookup
<1>6. HandedToTheLiving'
  BY DispatchAssumption
     DEF Inv, HandedToTheLiving, TypeOK, LockHeld, ListIsOfTheLiving, Remove, Go, DelByAddr, Lookup
<1>7. ShellSeesTheLiving'
  BY DispatchAssumption
     DEF Inv, ShellSeesTheLiving, LockHeld, Remove, Go, DelByAddr, Lookup
<1>8. Owed'
  BY DispatchAssumption
     DEF Inv, Owed, TypeOK, Remove, Go, DelByAddr, Lookup
<1>9. RunningHasTables'
  BY DispatchAssumption
     DEF Inv, RunningHasTables, TypeOK, Remove, Go, DelByAddr, Lookup
<1> QED  BY <1>1, <1>2, <1>3, <1>4, <1>5, <1>6, <1>7, <1>8, <1>9 DEF Inv

LEMMA DestroyInv == ASSUME NEW s \in Session, Inv, Destroy(s) PROVE Inv'
<1>1. TypeOK'
  BY FreeType DEF Inv, TypeOK, Destroy
<1>2. LockHeld'
  BY DispatchAssumption, NoEndpointType
     DEF Inv, LockHeld, TypeOK, Destroy, Free
<1>3. ListIsOfTheLiving'
  BY DispatchAssumption, NoEndpointType
     DEF Inv, ListIsOfTheLiving, TypeOK, Destroy, Free
<1>4. OneSessionPerHost'
  BY DispatchAssumption, NoEndpointType
     DEF Inv, OneSessionPerHost, TypeOK, ListIsOfTheLiving, Destroy, Free
<1>5. Making'
  <2>1. stage' = [stage EXCEPT ![s] = "none"] /\ stage[s] = "unlinked"
    BY DEF Destroy, Free
  <2>2. \A t \in Session : t # s => peer'[t] = peer[t] /\ stage'[t] = stage[t]
    BY DEF Destroy, Free, Inv, TypeOK
  <2>3. s \notin tree
    BY <2>1 DEF Inv, ListIsOfTheLiving
  <2>4. recv = "add" => target # s
    BY <2>1 DEF Inv, Making
  <2> QED  BY <2>1, <2>2, <2>3, <2>4
           DEF Destroy, Inv, TypeOK, Making
<1>6. HandedToTheLiving'
  BY DispatchAssumption, NoEndpointType
     DEF Inv, HandedToTheLiving, TypeOK, LockHeld, ListIsOfTheLiving, Destroy, Free
<1>7. ShellSeesTheLiving'
  BY DispatchAssumption, NoEndpointType
     DEF Inv, ShellSeesTheLiving, LockHeld, Destroy, Free
<1>8. Owed'
  BY DispatchAssumption, NoEndpointType
     DEF Inv, Owed, TypeOK, Destroy, Free
<1>9. RunningHasTables'
  BY DispatchAssumption, NoEndpointType
     DEF Inv, RunningHasTables, TypeOK, Destroy, Free
<1> QED  BY <1>1, <1>2, <1>3, <1>4, <1>5, <1>6, <1>7, <1>8, <1>9 DEF Inv

LEMMA RpcLockInv == ASSUME Inv, RpcLock PROVE Inv'
<1>1. TypeOK'
  BY DispatchAssumption
     DEF Inv, TypeOK, RpcLock
<1>2. LockHeld'
  BY DispatchAssumption
     DEF Inv, LockHeld, TypeOK, RpcLock
<1>3. ListIsOfTheLiving'
  BY DispatchAssumption
     DEF Inv, ListIsOfTheLiving, TypeOK, RpcLock
<1>4. OneSessionPerHost'
  BY DispatchAssumption
     DEF Inv, OneSessionPerHost, TypeOK, ListIsOfTheLiving, RpcLock
<1>5. Making'
  BY DispatchAssumption
     DEF Inv, Making, TypeOK, LockHeld, RpcLock
<1>6. HandedToTheLiving'
  BY DispatchAssumption
     DEF Inv, HandedToTheLiving, TypeOK, LockHeld, ListIsOfTheLiving, RpcLock
<1>7. ShellSeesTheLiving'
  BY DispatchAssumption
     DEF Inv, ShellSeesTheLiving, LockHeld, RpcLock
<1>8. Owed'
  BY DispatchAssumption
     DEF Inv, Owed, TypeOK, RpcLock
<1>9. RunningHasTables'
  BY DispatchAssumption
     DEF Inv, RunningHasTables, TypeOK, RpcLock
<1> QED  BY <1>1, <1>2, <1>3, <1>4, <1>5, <1>6, <1>7, <1>8, <1>9 DEF Inv

LEMMA RpcVisitInv == ASSUME NEW s \in Session, Inv, RpcVisit(s) PROVE Inv'
<1>1. TypeOK'
  BY DispatchAssumption
     DEF Inv, TypeOK, RpcVisit
<1>2. LockHeld'
  BY DispatchAssumption
     DEF Inv, LockHeld, TypeOK, RpcVisit
<1>3. ListIsOfTheLiving'
  BY DispatchAssumption
     DEF Inv, ListIsOfTheLiving, TypeOK, RpcVisit
<1>4. OneSessionPerHost'
  BY DispatchAssumption
     DEF Inv, OneSessionPerHost, TypeOK, ListIsOfTheLiving, RpcVisit
<1>5. Making'
  BY DispatchAssumption
     DEF Inv, Making, TypeOK, LockHeld, RpcVisit
<1>6. HandedToTheLiving'
  BY DispatchAssumption
     DEF Inv, HandedToTheLiving, TypeOK, LockHeld, ListIsOfTheLiving, RpcVisit
<1>7. ShellSeesTheLiving'
  BY DispatchAssumption
     DEF Inv, ShellSeesTheLiving, LockHeld, RpcVisit
<1>8. Owed'
  BY DispatchAssumption
     DEF Inv, Owed, TypeOK, RpcVisit
<1>9. RunningHasTables'
  BY DispatchAssumption
     DEF Inv, RunningHasTables, TypeOK, RpcVisit
<1> QED  BY <1>1, <1>2, <1>3, <1>4, <1>5, <1>6, <1>7, <1>8, <1>9 DEF Inv

LEMMA RpcDoneInv == ASSUME Inv, RpcDone PROVE Inv'
<1>1. TypeOK'
  BY DispatchAssumption
     DEF Inv, TypeOK, RpcDone, ReleaseRpc
<1>2. LockHeld'
  BY DispatchAssumption
     DEF Inv, LockHeld, TypeOK, RpcDone, ReleaseRpc
<1>3. ListIsOfTheLiving'
  BY DispatchAssumption
     DEF Inv, ListIsOfTheLiving, TypeOK, RpcDone, ReleaseRpc
<1>4. OneSessionPerHost'
  BY DispatchAssumption
     DEF Inv, OneSessionPerHost, TypeOK, ListIsOfTheLiving, RpcDone, ReleaseRpc
<1>5. Making'
  BY DispatchAssumption
     DEF Inv, Making, TypeOK, LockHeld, RpcDone, ReleaseRpc
<1>6. HandedToTheLiving'
  BY DispatchAssumption
     DEF Inv, HandedToTheLiving, TypeOK, LockHeld, ListIsOfTheLiving, RpcDone, ReleaseRpc
<1>7. ShellSeesTheLiving'
  BY DispatchAssumption
     DEF Inv, ShellSeesTheLiving, LockHeld, RpcDone, ReleaseRpc
<1>8. Owed'
  BY DispatchAssumption
     DEF Inv, Owed, TypeOK, RpcDone, ReleaseRpc
<1>9. RunningHasTables'
  BY DispatchAssumption
     DEF Inv, RunningHasTables, TypeOK, RpcDone, ReleaseRpc
<1> QED  BY <1>1, <1>2, <1>3, <1>4, <1>5, <1>6, <1>7, <1>8, <1>9 DEF Inv

LEMMA RpcSendInv == ASSUME NEW s \in Session, Inv, RpcSend(s) PROVE Inv'
<1>1. TypeOK'
  BY DispatchAssumption
     DEF Inv, TypeOK, RpcSend, ReleaseRpc
<1>2. LockHeld'
  BY DispatchAssumption
     DEF Inv, LockHeld, TypeOK, RpcSend, ReleaseRpc
<1>3. ListIsOfTheLiving'
  BY DispatchAssumption
     DEF Inv, ListIsOfTheLiving, TypeOK, RpcSend, ReleaseRpc
<1>4. OneSessionPerHost'
  BY DispatchAssumption
     DEF Inv, OneSessionPerHost, TypeOK, ListIsOfTheLiving, RpcSend, ReleaseRpc
<1>5. Making'
  BY DispatchAssumption
     DEF Inv, Making, TypeOK, LockHeld, RpcSend, ReleaseRpc
<1>6. HandedToTheLiving'
  BY DispatchAssumption
     DEF Inv, HandedToTheLiving, TypeOK, LockHeld, ListIsOfTheLiving, RpcSend, ReleaseRpc
<1>7. ShellSeesTheLiving'
  BY DispatchAssumption
     DEF Inv, ShellSeesTheLiving, LockHeld, RpcSend, ReleaseRpc
<1>8. Owed'
  BY DispatchAssumption
     DEF Inv, Owed, TypeOK, RpcSend, ReleaseRpc
<1>9. RunningHasTables'
  BY DispatchAssumption
     DEF Inv, RunningHasTables, TypeOK, RpcSend, ReleaseRpc
<1> QED  BY <1>1, <1>2, <1>3, <1>4, <1>5, <1>6, <1>7, <1>8, <1>9 DEF Inv

LEMMA InvInit == Init => Inv
<1> SUFFICES ASSUME Init PROVE Inv
  OBVIOUS
<1>1. TypeOK
  <2>1. queue \in [Session -> Seq(BOOLEAN)] /\ cached \in [Host -> Nat] /\ owed \in [Host -> Nat]
    BY DEF Init
  <2>2. peer \in [Session -> Endpoint] /\ stage \in [Session -> Stage]
    BY NoEndpointType DEF Init
  <2>3. tables \in [Session -> BOOLEAN] /\ foreign \in [Session -> BOOLEAN]
    BY DEF Init
  <2> QED  BY <2>1, <2>2, <2>3, NoEndpointType DEF Init, TypeOK
<1>2. LockHeld /\ Making /\ HandedToTheLiving /\ ShellSeesTheLiving
  BY DispatchAssumption DEF Init, LockHeld, Making, HandedToTheLiving, ShellSeesTheLiving
<1>3. ListIsOfTheLiving /\ OneSessionPerHost
  BY DEF Init, ListIsOfTheLiving, OneSessionPerHost
<1>4. Owed /\ RunningHasTables
  BY DEF Init, Owed, RunningHasTables
<1> QED  BY <1>1, <1>2, <1>3, <1>4 DEF Inv

LEMMA InvNext == Inv /\ [Next]_vars => Inv'
<1> SUFFICES ASSUME Inv, [Next]_vars PROVE Inv'
  OBVIOUS
<1>1. CASE Input
  BY <1>1, ReceiveInv, ReceiveDataInv DEF Input
<1>2. CASE Control
  BY <1>2, LockListInv, FoundInv, CreateInv, CreateFailsInv, AddFailsInv,
     StartInv, HandInv DEF Control
<1>3. CASE Data
  BY <1>3, DataFoundInv, DataCreatedInv, DataFailsInv DEF Data
<1>4. CASE Shell
  BY <1>4, RpcLockInv, RpcVisitInv, RpcDoneInv, RpcSendInv DEF Shell
<1>5. ASSUME NEW s \in Session, Reads(s) PROVE Inv'
  BY <1>5, DetectInv, IgnoreInv, AcceptInv, ServeInv DEF Reads
<1>6. ASSUME NEW s \in Session, LockSession(s) PROVE Inv'
  BY <1>6, LockSessionInv
<1>7. ASSUME NEW s \in Session, Leaves(s) PROVE Inv'
  BY <1>7, GiveUpInv, RememberInv, RemoveInv, DestroyInv DEF Leaves
<1>8. CASE UNCHANGED vars
  <2> USE <1>8 DEF vars
  <2>1. TypeOK' /\ LockHeld' /\ Making'
    BY DEF Inv, TypeOK, LockHeld, Making
  <2>2. ListIsOfTheLiving' /\ OneSessionPerHost' /\ HandedToTheLiving'
    BY DEF Inv, ListIsOfTheLiving, OneSessionPerHost, HandedToTheLiving
  <2>3. ShellSeesTheLiving' /\ Owed' /\ RunningHasTables'
    BY DEF Inv, ShellSeesTheLiving, Owed, RunningHasTables
  <2> QED  BY <2>1, <2>2, <2>3 DEF Inv
<1> QED  BY <1>1, <1>2, <1>3, <1>4, <1>5, <1>6, <1>7, <1>8 DEF Next

LEMMA InvAlways == Spec => []Inv
<1> QED  BY InvInit, InvNext, PTL DEF Spec

\* The state of the receive loop, the list and the sessions stays well-typed.
THEOREM TypeCorrect == Spec => []TypeOK
<1>1. Inv => TypeOK
  BY DEF Inv
<1> QED  BY <1>1, InvAlways, PTL

\* The list never has two sessions of one host: the lock is held from the
\* look-up that finds none (ac_main.c) to the insertion.
THEOREM OneSession == Spec => []OneSessionPerHost
<1>1. Inv => OneSessionPerHost
  BY DEF Inv
<1> QED  BY <1>1, InvAlways, PTL

\* The list has exactly the sessions at work, though wtpman_remove deletes by
\* address and frees the session after the unlock.
THEOREM ListOfLiving == Spec => []ListIsOfTheLiving
<1>1. Inv => ListIsOfTheLiving
  BY DEF Inv
<1> QED  BY <1>1, InvAlways, PTL

\* process_cw_ctrl_packet never hands a packet to a session that is gone or
\* that is of another host.
THEOREM HandedToLiving == Spec => []HandedToTheLiving
<1>1. Inv => HandedToTheLiving
  BY DEF Inv
<1> QED  BY <1>1, InvAlways, PTL

\* show_aps and find_ap never follow a session that was taken out meanwhile.
THEOREM ShellSeesLiving == Spec => []ShellSeesTheLiving
<1>1. Inv => ShellSeesTheLiving
  BY DEF Inv
<1> QED  BY <1>1, InvAlways, PTL

\* No session runs the state machine without its message set.
THEOREM RunningTables == Spec => []RunningHasTables
<1>1. Inv => RunningHasTables
  BY DEF Inv
<1> QED  BY <1>1, InvAlways, PTL

\* A host whose discovery was answered finds it in the cache when it comes with
\* DTLS: an answer that is not stored yet keeps the host's session in the list.
THEOREM AnsweredRemembered == Spec => []AnsweredIsRemembered
<1>1. Inv => AnsweredIsRemembered
  <2> SUFFICES ASSUME Inv, NotFound
               PROVE  cached[pkt.from.host] >= owed[pkt.from.host]
    BY DEF AnsweredIsRemembered
  <2>1. pkt.from.host \in Host
    BY DEF Inv, TypeOK
  <2>2. \A s \in tree : peer[s].host # pkt.from.host
    BY DEF NotFound, Lookup
  <2>3. \A s \in Session : stage[s] = "found" => s \in tree
    BY DEF Inv, ListIsOfTheLiving
  <2>4. ~ owed[pkt.from.host] > cached[pkt.from.host]
    BY <2>1, <2>2, <2>3 DEF Inv, Owed
  <2> QED  BY <2>1, <2>4 DEF Inv, TypeOK
<1> QED  BY <1>1, InvAlways, PTL

=============================================================================
