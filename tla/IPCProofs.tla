------------------------------ MODULE IPCProofs ------------------------------
(***************************************************************************)
(* Proofs about IPC, with any number of clients, calls, connections and    *)
(* stops of the daemon, and queues of any length: the calls of every       *)
(* client are accounted for, each returns what became of its own request;  *)
(* and the users and groups of the configuration and the access control    *)
(* files are respected, whatever they say and in whatever order they are   *)
(* loaded, with any accounts and groups.                                   *)
(***************************************************************************)
EXTENDS IPC, TLAPS

Answers == {"value", "failed", "denied"}

Request == [id : Nat, method : Methods]
Event == {x \in [kind : Answers \cup {"signal"}, id : Nat, section : Sections \cup {"none"}] :
            x.kind = "signal" => x.id = 0}
CallState == {x \in [pc : {"idle", "send", "wait", "erase"}, id : Nat,
                     method : Methods \cup {"none"}, out : Answers \cup {"none", "timeout"}] :
                x.pc # "idle" => x.method \in Methods}
Slot == [id : Nat \ {0}, value : Answers \cup {NoValue}]
Execution == [client : Clients, id : Nat, method : Methods, outcome : {"value", "failed"}]
Result == [client : Clients, id : Nat, method : Methods, out : Answers \cup {"none", "timeout"}]
Counts == [connects : [Clients -> Nat], disconnects : [Clients -> Nat], signals : Nat,
           stops : Nat]

\* What depends on induction: a set of numbers has a least element, and sets are
\* counted one element at a time.  It is proved at the end.
Counting ==
  /\ \A S \in SUBSET Nat : S # {} => \E i \in S : \A j \in S : i <= j
  /\ IsFiniteSet({}) /\ Cardinality({}) = 0
  /\ \A S : IsFiniteSet(S) =>
       /\ Cardinality(S) \in Nat
       /\ \A T \in SUBSET S : IsFiniteSet(T)
       /\ \A x : /\ IsFiniteSet(S \cup {x})
                 /\ Cardinality(S \cup {x}) = IF x \in S THEN Cardinality(S)
                                              ELSE Cardinality(S) + 1

Typed ==
  /\ Counting
  /\ requests \in [Clients -> Seq(Request)] /\ events \in [Clients -> Seq(Event)]
  /\ linked \subseteq Clients
  /\ call \in [Clients -> CallState] /\ slots \in [Clients -> SUBSET Slot]
  /\ executed \subseteq Execution
  /\ results \subseteq Result /\ IsFiniteSet(results)
  /\ count \in Counts

\* The calls of a client that have returned.
Returned(c) == Cardinality({r \in results : r.client = c})

-----------------------------------------------------------------------------
(* Types *)

\* The calls that returned can be counted.
LEMMA ReturnedType ==
  ASSUME Typed, NEW c
  PROVE  Returned(c) \in Nat /\ IsFiniteSet({r \in results : r.client = c})
<1>1. {r \in results : r.client = c} \subseteq results
  BY Zenon
<1>2. IsFiniteSet({r \in results : r.client = c})
  BY <1>1, Zenon DEF Typed, Counting
<1> QED
  BY <1>2, Zenon DEF Returned, Typed, Counting

\* A message sent into a queue has the type of the queue.
LEMMA SentTyped ==
  ASSUME NEW T, NEW q \in Seq(T), NEW m \in T
  PROVE  Sent(q, m) \in Seq(T)
  BY SMT, Z3 DEF Sent

\* A queue that is sent a message, or loses its first one.
LEMMA SentElements ==
  ASSUME NEW T, NEW q \in Seq(T), NEW m \in T, NEW i \in DOMAIN Sent(q, m)
  PROVE  \/ Sent(q, m)[i] = m /\ i = Len(q) + 1
         \/ i \in DOMAIN q /\ Sent(q, m)[i] = q[i]
  BY SMT, Z3 DEF Sent

\* What is left when the first message is read.
LEMMA TailElements ==
  ASSUME NEW T, NEW q \in Seq(T), q # <<>>, NEW i \in DOMAIN Tail(q)
  PROVE  i + 1 \in DOMAIN q /\ Tail(q)[i] = q[i + 1]
  BY SMT, Z3

\* The first element of a queue.
LEMMA HeadTyped ==
  ASSUME NEW T, NEW q \in Seq(T), q # <<>>
  PROVE  Head(q) \in T /\ Head(q) = q[1] /\ 1 \in DOMAIN q
  BY SMT, Z3

\* The messages in the queues of a client, and their IDs.
LEMMA QueuesTyped ==
  ASSUME Typed, NEW c \in Clients
  PROVE  /\ \A i \in DOMAIN requests[c] : /\ requests[c][i] \in Request
                                            /\ requests[c][i].id \in Nat
         /\ \A i \in DOMAIN events[c] : events[c][i] \in Event /\ events[c][i].id \in Nat
<1>1. requests[c] \in Seq(Request) /\ events[c] \in Seq(Event)
  BY Zenon DEF Typed
<1>2. \A i \in DOMAIN requests[c] : requests[c][i] \in Request
  BY <1>1, SMT, Z3
<1>3. \A i \in DOMAIN events[c] : events[c][i] \in Event
  BY <1>1, SMT, Z3
<1>4. \A x \in Request : x.id \in Nat
  BY Zenon DEF Request
<1>5. \A x \in Event : x.id \in Nat
  BY Zenon DEF Event
<1> QED
  BY <1>2, <1>3, <1>4, <1>5, Zenon

\* The types, at first.
LEMMA TypeInit ==
  ASSUME Counting, Init
  PROVE  Typed
<1>1. IsFiniteSet(results)
  BY Zenon DEF Init, Counting
<1>2. NoCall \in CallState
  BY Zenon DEF NoCall, CallState
<1>3. count \in Counts
  BY Zenon DEF Init, Counts
<1>4. /\ requests \in [Clients -> Seq(Request)] /\ events \in [Clients -> Seq(Event)]
      /\ call \in [Clients -> CallState] /\ slots \in [Clients -> SUBSET Slot]
  BY <1>2, SMT, Z3 DEF Init
<1> QED
  BY <1>1, <1>3, <1>4, Zenon DEF Init, Typed

\* A change of one client's link keeps the links and their counts.
LEMMA LinkTyped ==
  ASSUME Typed, NEW c \in Clients, NEW st \in [linked : BOOLEAN, signalled : Nat],
         SetLink(c, st)
  PROVE  linked' \subseteq Clients /\ count' \in Counts
  BY Zenon DEF Typed, SetLink, Counts

\* IPCClientPrivate::disconnect, called once or twice, on the link of a client.
LEMMA ClientLinkTyped ==
  ASSUME Typed, NEW c \in Clients
  PROVE  /\ ClientLink(c) \in [linked : BOOLEAN, signalled : Nat]
         /\ Disconnected(ClientLink(c)) \in [linked : BOOLEAN, signalled : Nat]
         /\ Disconnected(Disconnected(ClientLink(c))) \in [linked : BOOLEAN, signalled : Nat]
<1>1. ClientLink(c) \in [linked : BOOLEAN, signalled : Nat]
  BY SMT, Z3 DEF Typed, ClientLink, Counts
<1>2. \A st \in [linked : BOOLEAN, signalled : Nat] :
        Disconnected(st) \in [linked : BOOLEAN, signalled : Nat]
  BY SMT, Z3 DEF Disconnected
<1> QED
  BY <1>1, <1>2, Zenon

\* A connection that ends empties the queues of its client.
LEMMA HangupTyped ==
  ASSUME Typed, NEW c \in Clients, Hangup(c)
  PROVE  requests' \in [Clients -> Seq(Request)] /\ events' \in [Clients -> Seq(Event)]
  BY SMT, Z3 DEF Typed, Hangup

\* Every step keeps the types.
LEMMA TypeStep ==
  ASSUME Typed, [Next]_vars
  PROVE  Typed'
<1> USE DEF Typed
<1>1. ASSUME NEW c \in Clients, NEW lookup \in BOOLEAN, Connect(c, lookup)
      PROVE  Typed'
  <2>1. count' = [count EXCEPT !.connects[c] = @ + 1]
    BY <1>1, Zenon DEF Connect
  <2>2. count.connects[c] + 1 \in Nat
    BY SMT, Z3 DEF Counts
  <2>3. [count.connects EXCEPT ![c] = @ + 1] \in [Clients -> Nat]
    BY <2>2, Zenon DEF Counts
  <2>4. count' \in Counts
    BY <2>1, <2>3, Zenon DEF Counts
  <2> QED
    BY <1>1, <2>4, Zenon DEF Connect
<1>2. ASSUME NEW c \in Clients, NEW m \in Methods, BeginCall(c, m)
      PROVE  Typed'
  <2>1. [pc |-> "send", id |-> 0, method |-> m, out |-> "none"] \in CallState
    BY Zenon DEF CallState
  <2> QED
    BY <1>2, <2>1, Zenon DEF BeginCall
<1>3. ASSUME NEW c \in Clients, Send(c)
      PROVE  Typed'
  <2> DEFINE id == Cardinality({r \in results : r.client = c}) + 1
             q == [id |-> id, method |-> call[c].method]
  <2>1. Returned(c) \in Nat /\ id = Returned(c) + 1
    BY ReturnedType, Zenon DEF Returned
  <2>2. id \in Nat \ {0}
    BY <2>1, SMT, Z3
  <2> HIDE DEF id
  <2>3. /\ call' = [call EXCEPT ![c].pc = "wait", ![c].id = id]
        /\ slots' = [slots EXCEPT ![c] = @ \cup {[id |-> id, value |-> NoValue]}]
        /\ call[c].pc = "send"
        /\ requests' = [requests EXCEPT ![c] = IF c \in linked /\ server[c].open
                                               THEN Sent(@, q) ELSE @]
        /\ UNCHANGED <<events, linked, executed, results, count>>
    BY <1>3, Zenon DEF Send, id
  <2>4. q \in Request
    BY <2>2, <2>3, Zenon DEF CallState, Request
  <2>5. Sent(requests[c], q) \in Seq(Request)
    BY <2>4, SentTyped, Zenon
  <2>6. requests' \in [Clients -> Seq(Request)]
    BY <2>3, <2>5, Zenon
  <2>7. [call[c] EXCEPT !.pc = "wait", !.id = id] \in CallState
    BY <2>2, <2>3, ZenonT(30) DEF CallState
  <2>8. [id |-> id, value |-> NoValue] \in Slot
    BY <2>2, Zenon DEF Slot
  <2> QED
    BY <2>3, <2>6, <2>7, <2>8, Zenon
<1>4. ASSUME NEW c \in Clients, Timeout(c)
      PROVE  Typed'
  <2>1. call[c].pc = "wait" /\ call' = [call EXCEPT ![c].pc = "erase", ![c].out = "timeout"]
    BY <1>4, Zenon DEF Timeout
  <2>2. [call[c] EXCEPT !.pc = "erase", !.out = "timeout"] \in CallState
    BY <2>1, ZenonT(30) DEF CallState
  <2>3. call' \in [Clients -> CallState]
    BY <2>1, <2>2, Zenon
  <2> QED
    BY <1>4, <2>3, Zenon DEF Timeout
<1>5. ASSUME NEW c \in Clients, GetValue(c)
      PROVE  Typed'
  <2>1. PICK slot \in slots[c] : call' = [call EXCEPT ![c].pc = "erase", ![c].out = slot.value]
    BY <1>5, Zenon DEF GetValue
  <2>2. slot.value \in Answers \cup {"none"}
    BY SMT, Z3 DEF Slot, NoValue
  <2>3. call[c].pc = "wait"
    BY <1>5, Zenon DEF GetValue
  <2>4. [call[c] EXCEPT !.pc = "erase", !.out = slot.value] \in CallState
    BY <2>2, <2>3, ZenonT(30) DEF CallState
  <2>5. call' \in [Clients -> CallState]
    BY <2>1, <2>4, Zenon
  <2> QED
    BY <1>5, <2>5, Zenon DEF GetValue
<1>6. ASSUME NEW c \in Clients, EraseSlot(c)
      PROVE  Typed'
  <2> DEFINE new == [client |-> c, id |-> call[c].id, method |-> call[c].method,
                     out |-> call[c].out]
  <2>0. results' = results \cup {new}
    BY <1>6, Zenon DEF EraseSlot
  <2> HIDE DEF new
  <2>1. IsFiniteSet(results')
    BY <2>0, Zenon DEF Counting
  <2>2. NoCall \in CallState
    BY Zenon DEF NoCall, CallState
  <2>3. results' \subseteq Result
    BY <1>6, <2>0, SMT, Z3 DEF EraseSlot, Result, CallState, new
  <2>4. slots' \in [Clients -> SUBSET Slot]
    BY <1>6, Zenon DEF EraseSlot, Erased
  <2> QED
    BY <1>6, <2>1, <2>2, <2>3, <2>4, Zenon DEF EraseSlot
<1>7. ASSUME NEW c \in Clients, Receive(c)
      PROVE  Typed'
  <2> DEFINE e == Head(events[c])
             new == (slots[c] \ WaitingSlot(c, e))
                      \cup {[id |-> s.id, value |-> e.kind] : s \in WaitingSlot(c, e)}
  <2>1. e \in Event /\ Tail(events[c]) \in Seq(Event)
    BY <1>7, SMT, Z3 DEF Receive
  <2>2. /\ slots' = [slots EXCEPT ![c] = new]
        /\ e.kind = "signal" \/ WaitingSlot(c, e) # {}
    BY <1>7, Zenon DEF Receive
  <2>3. e.kind # "signal" \/ WaitingSlot(c, e) = {} => new \in SUBSET Slot
    BY <2>1, SMT, Z3 DEF Event, Slot, WaitingSlot
  <2>4. e.kind = "signal" => WaitingSlot(c, e) = {}
    BY <2>1, SMT, Z3 DEF Event, Slot, WaitingSlot
  <2> QED
    BY <1>7, <2>1, <2>2, <2>3, <2>4, Zenon DEF Receive
<1>8. ASSUME NEW c \in Clients, ReceiveUnexpected(c)
      PROVE  Typed'
  BY <1>8, LinkTyped, ClientLinkTyped, HangupTyped, Zenon DEF ReceiveUnexpected
<1>9. ASSUME NEW c \in Clients, ReceiveError(c)
      PROVE  Typed'
  BY <1>9, LinkTyped, ClientLinkTyped, Zenon DEF ReceiveError
<1>10. ASSUME NEW c \in Clients, Disconnect(c)
       PROVE  Typed'
  BY <1>10, LinkTyped, ClientLinkTyped, HangupTyped, Zenon DEF Disconnect
<1>11. ASSUME NEW c \in Clients, NEW outcome \in {"value", "failed"}, Process(c, outcome)
       PROVE  Typed'
  <2> DEFINE q == Head(requests[c])
             kind == IF Permitted(c, q.method) THEN outcome ELSE "denied"
  <2>1. q \in Request /\ Tail(requests[c]) \in Seq(Request)
    BY <1>11, SMT, Z3 DEF Process
  <2>2. kind \in {outcome, "denied"}
    BY Zenon
  <2>3. /\ executed' = executed \cup {Handled(c, q, o) : o \in {kind} \ {"denied"}}
        /\ events' = [events EXCEPT ![c] = Sent(@, Reply(kind, q.id))]
        /\ requests' = [requests EXCEPT ![c] = Tail(@)]
        /\ UNCHANGED <<linked, call, slots, results, count>>
    BY <1>11, Zenon DEF Process
  <2> HIDE DEF kind, q
  <2>4. Reply(kind, q.id) \in Event
    BY <2>1, <2>2, Zenon DEF Reply, Request, Event, Answers
  <2>5. Sent(events[c], Reply(kind, q.id)) \in Seq(Event)
    BY <2>4, SentTyped, Zenon
  <2>6. executed' \subseteq Execution
    BY <2>1, <2>2, <2>3, SMT, Z3 DEF Handled, Request, Execution
  <2> QED
    BY <2>1, <2>3, <2>5, <2>6, Zenon
<1>12. ASSUME NEW s \in {"Devices", "Parameters", "Exceptions"}, Broadcast(s)
       PROVE  Typed'
  <2>1. Signal(s) \in Event
    BY Zenon DEF Signal, Sections, Event
  <2>2. \A c \in Clients : Sent(events[c], Signal(s)) \in Seq(Event)
    BY <2>1, SentTyped, Zenon
  <2>3. events' \in [Clients -> Seq(Event)]
    BY <1>12, <2>2, Zenon DEF Broadcast
  <2>4. count' = [count EXCEPT !.signals = @ + 1]
    BY <1>12, Zenon DEF Broadcast
  <2>5. count.signals + 1 \in Nat
    BY SMT, Z3 DEF Counts
  <2>6. count' \in Counts
    BY <2>4, <2>5, Zenon DEF Counts
  <2> QED
    BY <1>12, <2>3, <2>6, Zenon DEF Broadcast
<1>13. CASE Stop
  <2>1. count' = [count EXCEPT !.stops = @ + 1]
    BY <1>13, Zenon DEF Stop
  <2>2. count.stops + 1 \in Nat
    BY SMT, Z3 DEF Counts
  <2>3. count' \in Counts
    BY <2>1, <2>2, Zenon DEF Counts
  <2> QED
    BY <1>13, <2>3, SMT, Z3 DEF Stop
<1>14. CASE UNCHANGED vars
  BY <1>14, Zenon DEF vars
<1> QED
  BY <1>1, <1>2, <1>3, <1>4, <1>5, <1>6, <1>7, <1>8, <1>9, <1>10, <1>11, <1>12, <1>13,
     <1>14, Zenon DEF Next, Caller

-----------------------------------------------------------------------------
(* The invariant of the calls *)

\* A call has its ID, and the last ID that a client has used.
Pending(c) == call[c].pc \in {"wait", "erase"}
LastID(c) == IF Pending(c) THEN Returned(c) + 1 ELSE Returned(c)

\* The request was sent, and nothing is left to happen to it.
Over(c, id) ==
  id <= LastID(c) /\ \A i \in DOMAIN requests[c] : id < requests[c][i].id

\* The answer is what became of the request.
Answered(c, id, answer) ==
  /\ answer \in {"value", "failed"} =>
       \E x \in executed : x.client = c /\ x.id = id /\ x.outcome = answer
  /\ answer = "denied" =>
       Over(c, id) /\ ~\E x \in executed : x.client = c /\ x.id = id

\* A request has the method of its call.
MethodOfCall(c, id, m) ==
  /\ \A r \in results : r.client = c /\ r.id = id => r.method = m
  /\ Pending(c) /\ call[c].id = id => call[c].method = m

\* The calling thread: its ID is new, and the one slot there is belongs to it.
CallerInv(c) ==
  /\ Pending(c) => call[c].id = LastID(c)
  /\ ~Pending(c) => slots[c] = {}
  /\ \A s \in slots[c] : s.id = call[c].id
  /\ \A s \in slots[c] : s.value # NoValue => Answered(c, s.id, s.value)
  /\ call[c].pc = "erase" => Answered(c, call[c].id, call[c].out)

\* The queues: the requests are in the order of their IDs, and the replies true.
QueueInv(c) ==
  /\ \A i \in DOMAIN requests[c] :
       /\ requests[c][i].id <= LastID(c)
       /\ MethodOfCall(c, requests[c][i].id, requests[c][i].method)
       /\ \A j \in DOMAIN requests[c] : i < j => requests[c][i].id < requests[c][j].id
  /\ \A i \in DOMAIN events[c] :
       events[c][i].kind # "signal" => Answered(c, events[c][i].id, events[c][i].kind)

\* What was executed, once each and before the requests that are left.
ExecutedInv ==
  \A x \in executed :
    /\ Over(x.client, x.id)
    /\ MethodOfCall(x.client, x.id, x.method)
    /\ \A y \in executed : x.client = y.client /\ x.id = y.id => x = y

ResultsInv ==
  \A r \in results : r.id <= Returned(r.client) /\ Answered(r.client, r.id, r.out)

\* The inductive invariant of CallsAccounted.
CallsInv ==
  /\ Typed
  /\ \A c \in Clients : CallerInv(c) /\ QueueInv(c)
  /\ ExecutedInv /\ ResultsInv /\ DisconnectedOnce

-----------------------------------------------------------------------------
(* The steps that execute nothing, send no request and return from no call *)

\* What is not touched by a step that executes nothing, returns nothing and at most
\* clears queues of requests.
Quiet ==
  /\ UNCHANGED <<executed, results>>
  /\ \A c \in Clients : /\ requests'[c] \in {requests[c], <<>>}
                        /\ Pending(c)' = Pending(c)
                        /\ Pending(c) => /\ call'[c].id = call[c].id
                                         /\ call'[c].method = call[c].method

\* The queue of events grows by signals and shrinks.
EventsQuiet ==
  \A c \in Clients : \A i \in DOMAIN events'[c] :
    events'[c][i].kind = "signal" \/ \E j \in DOMAIN events[c] : events'[c][i] = events[c][j]

\* What is known of the requests stays known.
LEMMA QuietKeeps ==
  ASSUME Typed, Typed', Quiet
  PROVE  /\ \A c \in Clients : LastID(c)' = LastID(c) /\ Returned(c)' = Returned(c)
         /\ \A c \in Clients, id \in Nat : Over(c, id) => Over(c, id)'
         /\ \A c \in Clients, id \in Nat : \A a : Answered(c, id, a) => Answered(c, id, a)'
         /\ \A c \in Clients, id \in Nat : \A m :
              MethodOfCall(c, id, m) => MethodOfCall(c, id, m)'
<1>1. \A c \in Clients : LastID(c)' = LastID(c) /\ Returned(c)' = Returned(c)
  BY Zenon DEF Quiet, LastID, Returned
<1>2. \A c \in Clients, id \in Nat : Over(c, id) => Over(c, id)'
  BY <1>1, SMT, Z3 DEF Quiet, Over
<1>3. \A c \in Clients, id \in Nat : \A a : Answered(c, id, a) => Answered(c, id, a)'
  BY <1>2, Zenon DEF Quiet, Answered
<1>4. \A c \in Clients, id \in Nat : \A m : MethodOfCall(c, id, m) => MethodOfCall(c, id, m)'
  BY Zenon DEF Quiet, MethodOfCall
<1> QED
  BY <1>1, <1>2, <1>3, <1>4, Zenon

\* The steps that touch no call.
LEMMA QuietSteps ==
  ASSUME CallsInv, Typed', Quiet, EventsQuiet
  PROVE  ExecutedInv' /\ ResultsInv' /\ \A c \in Clients : QueueInv(c)'
<1>1. ExecutedInv'
  BY QuietKeeps, Zenon DEF CallsInv, ExecutedInv, Typed, Execution, Quiet
<1>2. ResultsInv'
  BY QuietKeeps, Zenon DEF CallsInv, ResultsInv, Typed, Result, Quiet
<1>3. ASSUME NEW c \in Clients
      PROVE  QueueInv(c)'
  <2>1. ASSUME NEW i \in DOMAIN requests'[c]
        PROVE  /\ requests'[c][i].id <= LastID(c)'
               /\ MethodOfCall(c, requests[c][i].id, requests[c][i].method)'
               /\ \A j \in DOMAIN requests'[c] : i < j => requests'[c][i].id < requests'[c][j].id
    <3>1. requests'[c] = requests[c] /\ i \in DOMAIN requests[c]
      BY <2>1, SMT, Z3 DEF Quiet
    <3>2. requests[c][i] \in Request
      BY <3>1, SMT, Z3 DEF CallsInv, Typed
    <3> QED
      BY <3>1, <3>2, QuietKeeps, Zenon DEF CallsInv, QueueInv, Request
  <2>2. ASSUME NEW i \in DOMAIN events'[c], events'[c][i].kind # "signal"
        PROVE  Answered(c, events[c][i].id, events[c][i].kind)'
    <3>1. PICK j \in DOMAIN events[c] : events'[c][i] = events[c][j]
      BY <2>2, Zenon DEF EventsQuiet
    <3>2. events[c][j] \in Event
      BY SMT, Z3 DEF CallsInv, Typed
    <3>3. events[c][j].id \in Nat /\ Answered(c, events[c][j].id, events[c][j].kind)
      BY <2>2, <3>1, <3>2, Zenon DEF CallsInv, QueueInv, Event
    <3> QED
      BY <3>1, <3>3, QuietKeeps, Zenon DEF CallsInv
  <2> QED
    BY <2>1, <2>2, Zenon DEF QueueInv
<1> QED
  BY <1>1, <1>2, <1>3, Zenon

\* A caller that the step does not touch.
LEMMA QuietCaller ==
  ASSUME CallsInv, Typed', Quiet, NEW c \in Clients, call'[c] = call[c], slots'[c] = slots[c]
  PROVE  CallerInv(c)'
<1>1. /\ CallerInv(c) /\ call[c].id \in Nat
      /\ \A s \in slots[c] : s.id \in Nat
  BY SMT, Z3 DEF CallsInv, Typed, CallState, Slot
<1>2. Pending(c)' = Pending(c) /\ LastID(c)' = LastID(c)
  BY QuietKeeps, Zenon DEF CallsInv, Quiet
<1>3. \A id \in Nat : \A x : Answered(c, id, x) => Answered(c, id, x)'
  BY QuietKeeps, Zenon DEF CallsInv
<1> QED
  BY <1>1, <1>2, <1>3, Zenon DEF CallerInv

\* A link that goes down is signalled once, also if two places find it down.
LEMMA SetLinkCounts ==
  ASSUME Typed, DisconnectedOnce, NEW c \in Clients, c \in linked,
         \/ SetLink(c, Disconnected(ClientLink(c)))
         \/ SetLink(c, Disconnected(Disconnected(ClientLink(c))))
  PROVE  DisconnectedOnce'
<1> DEFINE st == [linked |-> FALSE, signalled |-> count.disconnects[c] + 1]
<1>1. Disconnected(ClientLink(c)) = st /\ Disconnected(st) = st
  BY Zenon DEF ClientLink, Disconnected
<1>2. linked' = linked \ {c} /\ count' = [count EXCEPT !.disconnects[c] = st.signalled]
  BY <1>1, SMT, Z3 DEF SetLink
<1>3. ASSUME NEW d \in Clients
      PROVE  count'.connects[d] = count'.disconnects[d] + (IF d \in linked' THEN 1 ELSE 0)
  <2>1. count.connects[d] = count.disconnects[d] + (IF d \in linked THEN 1 ELSE 0)
    BY Zenon DEF DisconnectedOnce
  <2>2. count.disconnects[d] \in Nat /\ count.connects[d] \in Nat
    BY Zenon DEF Typed, Counts
  <2>3. count'.connects = count.connects
    BY <1>2, Zenon DEF Typed, Counts
  <2>4. count'.disconnects = [count.disconnects EXCEPT ![c] = count.disconnects[c] + 1]
    BY <1>2, Zenon DEF Typed, Counts
  <2>5. CASE d = c
    BY <1>2, <2>1, <2>2, <2>3, <2>4, <2>5, SMT, Z3 DEF Typed, Counts
  <2>6. CASE d # c
    BY <1>2, <2>1, <2>3, <2>4, <2>6, Zenon DEF Typed, Counts
  <2> QED
    BY <2>5, <2>6, Zenon
<1> QED
  BY <1>3, Zenon DEF DisconnectedOnce

\* A new connection.
LEMMA ConnectStep ==
  ASSUME CallsInv, Typed', NEW c \in Clients, NEW lookup \in BOOLEAN, Connect(c, lookup)
  PROVE  CallsInv'
<1>1. UNCHANGED <<requests, events, call, slots, executed, results>>
  BY Zenon DEF Connect
<1>2. Quiet /\ EventsQuiet
  BY <1>1, Zenon DEF Quiet, EventsQuiet, Pending
<1>3. \A d \in Clients : CallerInv(d)'
  BY <1>1, <1>2, QuietCaller, Zenon
<1>4. DisconnectedOnce'
  <2>1. /\ c \notin linked /\ linked' = linked \cup {c}
        /\ count' = [count EXCEPT !.connects[c] = @ + 1]
    BY Zenon DEF Connect
  <2>2. ASSUME NEW d \in Clients
        PROVE  count'.connects[d] = count'.disconnects[d] + (IF d \in linked' THEN 1 ELSE 0)
    <3>1. count.connects[d] = count.disconnects[d] + (IF d \in linked THEN 1 ELSE 0)
      BY Zenon DEF CallsInv, DisconnectedOnce
    <3>2. count.disconnects[d] \in Nat /\ count.connects[d] \in Nat
      BY Zenon DEF CallsInv, Typed, Counts
    <3>3. /\ count'.connects = [count.connects EXCEPT ![c] = count.connects[c] + 1]
          /\ count'.disconnects = count.disconnects
      BY <2>1, Zenon DEF CallsInv, Typed, Counts
    <3>4. CASE d = c
      BY <2>1, <3>1, <3>2, <3>3, <3>4, SMT, Z3 DEF CallsInv, Typed, Counts
    <3>5. CASE d # c
      BY <2>1, <3>1, <3>3, <3>5, Zenon DEF CallsInv, Typed, Counts
    <3> QED
      BY <3>4, <3>5, Zenon
  <2> QED
    BY <2>2, Zenon DEF DisconnectedOnce
<1> QED
  BY <1>2, <1>3, <1>4, QuietSteps, Zenon DEF CallsInv

\* The client disconnects, the server is told or has closed the connection.
LEMMA DisconnectStep ==
  ASSUME CallsInv, Typed', NEW c \in Clients,
         ReceiveUnexpected(c) \/ ReceiveError(c) \/ Disconnect(c)
  PROVE  CallsInv'
<1>1. UNCHANGED <<call, slots, executed, results>>
  BY Zenon DEF ReceiveUnexpected, ReceiveError, Disconnect
<1>2. \A d \in Clients : /\ requests'[d] \in {requests[d], <<>>}
                         /\ events'[d] \in {events[d], <<>>}
  BY Zenon DEF ReceiveUnexpected, ReceiveError, Disconnect, Hangup, CallsInv, Typed
<1>3. Quiet
  BY <1>1, <1>2, Zenon DEF Quiet, Pending
<1>4. EventsQuiet
  BY <1>2, SMT, Z3 DEF EventsQuiet
<1>5. \A d \in Clients : CallerInv(d)'
  BY <1>1, <1>3, QuietCaller, Zenon
<1>6. DisconnectedOnce'
  BY SetLinkCounts, Zenon DEF ReceiveUnexpected, ReceiveError, Disconnect, CallsInv
<1> QED
  BY <1>3, <1>4, <1>5, <1>6, QuietSteps, Zenon DEF CallsInv

\* The daemon broadcasts a signal, or stops.
LEMMA DaemonStep ==
  ASSUME CallsInv, Typed', NEW s, (Broadcast(s) /\ s \in Sections) \/ Stop
  PROVE  CallsInv'
<1>1. UNCHANGED <<linked, call, slots, executed, results>>
  BY Zenon DEF Broadcast, Stop
<1>2. \A d \in Clients : requests'[d] \in {requests[d], <<>>}
  BY Zenon DEF Broadcast, Stop
<1>3. Quiet
  BY <1>1, <1>2, Zenon DEF Quiet, Pending
<1>4. EventsQuiet
  <2>1. CASE Stop
    BY <2>1, SMT, Z3 DEF Stop, EventsQuiet
  <2>2. CASE Broadcast(s) /\ s \in Sections
    <3> SUFFICES ASSUME NEW d \in Clients, NEW i \in DOMAIN events'[d]
                 PROVE  \/ events'[d][i].kind = "signal"
                        \/ \E j \in DOMAIN events[d] : events'[d][i] = events[d][j]
      BY Zenon DEF EventsQuiet
    <3>1. Signal(s) \in Event /\ Signal(s).kind = "signal"
      BY <2>2, Zenon DEF Signal, Event
    <3>2. events[d] \in Seq(Event) /\ events'[d] \in {events[d], Sent(events[d], Signal(s))}
      BY <2>2, Zenon DEF Broadcast, CallsInv, Typed
    <3>3. CASE events'[d] = events[d]
      BY <3>3, Zenon
    <3>4. CASE events'[d] = Sent(events[d], Signal(s))
      BY <3>1, <3>2, <3>4, SentElements, SMT, Z3
    <3> QED
      BY <3>2, <3>3, <3>4, Zenon
  <2> QED
    BY <2>1, <2>2, Zenon
<1>5. \A d \in Clients : CallerInv(d)'
  BY <1>1, <1>3, QuietCaller, Zenon
<1>6. DisconnectedOnce'
  <2>1. count'.connects = count.connects /\ count'.disconnects = count.disconnects
    BY Zenon DEF Broadcast, Stop, CallsInv, Typed, Counts
  <2> QED
    BY <1>1, <2>1, Zenon DEF DisconnectedOnce, CallsInv
<1> QED
  BY <1>3, <1>4, <1>5, <1>6, QuietSteps, Zenon DEF CallsInv

\* The calling thread begins a call, or its wait ends.
LEMMA WaitStep ==
  ASSUME CallsInv, Typed', NEW c \in Clients,
         (\E m \in Methods : BeginCall(c, m)) \/ Timeout(c) \/ GetValue(c)
  PROVE  CallsInv'
<1>1. UNCHANGED <<requests, events, linked, slots, executed, results, count>>
  BY Zenon DEF BeginCall, Timeout, GetValue
<1>2. \A d \in Clients : d # c => call'[d] = call[d]
  BY Zenon DEF BeginCall, Timeout, GetValue, CallsInv, Typed
<1>3. /\ Pending(c)' = Pending(c)
      /\ Pending(c) => call'[c].id = call[c].id /\ call'[c].method = call[c].method
  <2>1. call \in [Clients -> CallState]
    BY Zenon DEF CallsInv, Typed
  <2>2. CASE \E m \in Methods : BeginCall(c, m)
    BY <2>1, <2>2, SMT, Z3 DEF BeginCall, Pending
  <2>3. CASE Timeout(c)
    BY <2>1, <2>3, SMT, Z3 DEF Timeout, CallState, Pending
  <2>4. CASE GetValue(c)
    <3>1. PICK v : call' = [call EXCEPT ![c].pc = "erase", ![c].out = v]
      BY <2>4, Zenon DEF GetValue
    <3>2. call[c].pc = "wait"
      BY <2>4, Zenon DEF GetValue
    <3> QED
      BY <2>1, <3>1, <3>2, SMT, Z3 DEF CallState, Pending
  <2> QED
    BY <2>2, <2>3, <2>4, Zenon
<1>4. Quiet
  BY <1>1, <1>2, <1>3, Zenon DEF Quiet, Pending
<1>5. EventsQuiet
  BY <1>1, Zenon DEF EventsQuiet
<1>6. CallerInv(c)'
  <2>1. /\ CallerInv(c) /\ call[c].id \in Nat
        /\ \A s \in slots[c] : s.id \in Nat
    BY SMT, Z3 DEF CallsInv, Typed, CallState, Slot
  <2>2. LastID(c)' = LastID(c)
    BY <1>4, QuietKeeps, Zenon DEF CallsInv
  <2>3. \A id \in Nat : \A x : Answered(c, id, x) => Answered(c, id, x)'
    BY <1>4, QuietKeeps, Zenon DEF CallsInv
  <2>4. CASE \E m \in Methods : BeginCall(c, m)
    <3>1. call[c].pc = "idle" /\ call \in [Clients -> CallState]
      BY <2>4, Zenon DEF BeginCall, CallsInv, Typed
    <3>2. ~Pending(c)
      BY <3>1, Zenon DEF Pending
    <3>3. PICK m \in Methods :
            call' = [call EXCEPT ![c] = [pc |-> "send", id |-> 0, method |-> m, out |-> "none"]]
      BY <2>4, Zenon DEF BeginCall
    <3>4. call'[c] = [pc |-> "send", id |-> 0, method |-> m, out |-> "none"]
      BY <3>1, <3>3, Zenon
    <3>5. call'[c].pc # "erase"
      BY <3>4, SMT, Z3
    <3> QED
      BY <1>1, <1>3, <2>1, <3>2, <3>5, ZenonT(30) DEF CallerInv
  <2>5. CASE Timeout(c)
    <3>1. Pending(c) /\ call'[c].out = "timeout"
      BY <2>5, SMT, Z3 DEF Timeout, Pending, CallsInv, Typed, CallState
    <3>2. Answered(c, call[c].id, "timeout")'
      BY Zenon DEF Answered
    <3> QED
      BY <1>1, <1>3, <2>1, <2>2, <2>3, <3>1, <3>2, Zenon DEF CallerInv, Answered
  <2>6. CASE GetValue(c)
    <3>1. PICK slot \in slots[c] : /\ slot.id = call[c].id /\ slot.value # NoValue
                                   /\ call' = [call EXCEPT ![c].pc = "erase",
                                                           ![c].out = slot.value]
      BY <2>6, Zenon DEF GetValue
    <3>2. Pending(c) /\ call'[c].out = slot.value
      <4>1. call \in [Clients -> CallState] /\ call[c].pc = "wait"
        BY <2>6, Zenon DEF GetValue, CallsInv, Typed
      <4> QED
        BY <3>1, <4>1, Zenon DEF Pending, CallState
    <3>3. Answered(c, call[c].id, slot.value)
      BY <2>1, <3>1, Zenon DEF CallerInv
    <3>4. Answered(c, call[c].id, call[c].out)'
      BY <1>3, <2>1, <2>3, <3>2, <3>3, Zenon
    <3> QED
      BY <1>1, <1>3, <2>1, <2>2, <2>3, <3>2, <3>4, Zenon DEF CallerInv
  <2> QED
    BY <2>4, <2>5, <2>6, Zenon
<1>7. \A d \in Clients : CallerInv(d)'
  BY <1>1, <1>2, <1>4, <1>6, QuietCaller, Zenon
<1>8. DisconnectedOnce'
  BY <1>1, Zenon DEF DisconnectedOnce, CallsInv
<1> QED
  BY <1>4, <1>5, <1>7, <1>8, QuietSteps, Zenon DEF CallsInv

\* The client thread takes an event that is awaited.
LEMMA ReceiveStep ==
  ASSUME CallsInv, Typed', NEW c \in Clients, Receive(c)
  PROVE  CallsInv'
<1> DEFINE e == Head(events[c])
           slot == WaitingSlot(c, e)
<1>1. UNCHANGED <<requests, linked, call, executed, results, count>>
  BY Zenon DEF Receive
<1>2. /\ events[c] \in Seq(Event) /\ events[c] # <<>>
      /\ events' = [events EXCEPT ![c] = Tail(@)]
      /\ slots' = [slots EXCEPT ![c] =
                     (@ \ slot) \cup {[id |-> s.id, value |-> e.kind] : s \in slot}]
  BY Zenon DEF Receive, CallsInv, Typed
<1>3. e = events[c][1] /\ 1 \in DOMAIN events[c] /\ e \in Event
  BY <1>2, SMT, Z3
<1>4. Quiet
  BY <1>1, Zenon DEF Quiet, Pending
<1>5. EventsQuiet
  <2> SUFFICES ASSUME NEW d \in Clients, NEW i \in DOMAIN events'[d]
               PROVE  \E j \in DOMAIN events[d] : events'[d][i] = events[d][j]
    BY Zenon DEF EventsQuiet
  <2>1. CASE d = c
    <3>1. events'[c] = Tail(events[c])
      BY <1>2, Zenon DEF CallsInv, Typed
    <3> QED
      BY <1>2, <2>1, <3>1, TailElements, SMT, Z3
  <2>2. CASE d # c
    BY <1>2, <2>2, Zenon DEF CallsInv, Typed
  <2> QED
    BY <2>1, <2>2, Zenon
<1>6. CallerInv(c)'
  <2>1. /\ CallerInv(c) /\ call[c].id \in Nat
        /\ \A s \in slots[c] : s.id \in Nat \ {0}
    BY SMT, Z3 DEF CallsInv, Typed, CallState, Slot
  <2>2. LastID(c)' = LastID(c) /\ Pending(c)' = Pending(c)
    BY <1>4, QuietKeeps, Zenon DEF CallsInv, Quiet
  <2>3. \A id \in Nat : \A x : Answered(c, id, x) => Answered(c, id, x)'
    BY <1>4, QuietKeeps, Zenon DEF CallsInv
  <2>4. /\ slots'[c] = (slots[c] \ slot) \cup {[id |-> s.id, value |-> e.kind] : s \in slot}
        /\ slot \subseteq slots[c] /\ \A s \in slot : s.id = e.id
    BY <1>2, Zenon DEF CallsInv, Typed, WaitingSlot
  <2>5. e.kind # "signal" => Answered(c, e.id, e.kind)
    BY <1>3, Zenon DEF CallsInv, QueueInv
  <2>6. e.kind = "signal" => slot = {}
    BY <1>3, <2>1, Zenon DEF Event, WaitingSlot
  <2>7. ASSUME NEW s \in slots'[c]
        PROVE  s.id = call[c].id /\ (s.value # NoValue => Answered(c, s.id, s.value)')
    <3>1. CASE s \in slots[c]
      BY <2>1, <2>3, <3>1, Zenon DEF CallerInv
    <3>2. CASE s \notin slots[c]
      <4>1. PICK x \in slot : s = [id |-> x.id, value |-> e.kind]
        BY <2>4, <3>2, Zenon
      <4>2. s.id = e.id /\ s.id = x.id /\ s.value = e.kind /\ e.kind # "signal"
        BY <2>4, <2>6, <4>1, Zenon
      <4>3. e.id \in Nat
        BY <1>3, Zenon DEF Event
      <4> QED
        BY <2>1, <2>3, <2>4, <2>5, <4>2, <4>3, Zenon DEF CallerInv
    <3> QED
      BY <3>1, <3>2, Zenon
  <2>8. slots[c] = {} => slots'[c] = {}
    BY <2>4, Zenon
  <2> QED
    BY <1>1, <2>1, <2>2, <2>3, <2>7, <2>8, Zenon DEF CallerInv
<1>7. \A d \in Clients : d # c => slots'[d] = slots[d]
  BY <1>2, Zenon DEF CallsInv, Typed
<1>8. \A d \in Clients : CallerInv(d)'
  BY <1>1, <1>4, <1>6, <1>7, QuietCaller, Zenon
<1>9. DisconnectedOnce'
  BY <1>1, Zenon DEF DisconnectedOnce, CallsInv
<1> QED
  BY <1>4, <1>5, <1>8, <1>9, QuietSteps, Zenon DEF CallsInv

-----------------------------------------------------------------------------
(* The steps of a request *)

\* The request is sent, or lost because there is no room or no connection.
LEMMA SendStep ==
  ASSUME CallsInv, Typed', NEW c \in Clients, Send(c)
  PROVE  CallsInv'
<1> DEFINE n == Returned(c) + 1
           q == [id |-> n, method |-> call[c].method]
<1>1. Typed /\ (\A d \in Clients : CallerInv(d) /\ QueueInv(d)) /\ ExecutedInv /\ ResultsInv
  BY Zenon DEF CallsInv
<1>2. /\ call[c].pc = "send"
      /\ call' = [call EXCEPT ![c].pc = "wait", ![c].id = n]
      /\ slots' = [slots EXCEPT ![c] = @ \cup {[id |-> n, value |-> NoValue]}]
      /\ requests' = [requests EXCEPT ![c] = IF c \in linked /\ server[c].open
                                             THEN Sent(@, q) ELSE @]
      /\ UNCHANGED <<events, linked, executed, results, count>>
  BY Zenon DEF Send, Returned
<1>3. \A d \in Clients : Returned(d) \in Nat /\ Returned(d)' = Returned(d)
  BY <1>1, <1>2, ReturnedType, Zenon DEF Returned
<1>4. /\ ~Pending(c) /\ Pending(c)'
      /\ call'[c].id = n /\ call'[c].method = call[c].method /\ call'[c].pc = "wait"
  BY <1>1, <1>2, SMT, Z3 DEF Pending, Typed, CallState
<1>5. \A d \in Clients : d # c => /\ call'[d] = call[d] /\ slots'[d] = slots[d]
                                  /\ requests'[d] = requests[d]
  BY <1>1, <1>2, Zenon DEF Typed
<1>6. LastID(c) = Returned(c) /\ LastID(c)' = n
  BY <1>3, <1>4, Zenon DEF LastID
<1>7. \A d \in Clients : d # c => LastID(d)' = LastID(d) /\ Pending(d)' = Pending(d)
  BY <1>3, <1>5, Zenon DEF LastID, Pending
<1>8. q \in Request /\ requests[c] \in Seq(Request)
  <2>1. call[c] \in CallState /\ requests[c] \in Seq(Request)
    BY <1>1, Zenon DEF Typed
  <2>2. call[c].method \in Methods
    BY <1>2, <2>1, Zenon DEF CallState
  <2>3. n \in Nat
    BY <1>3, SMT, Z3
  <2> QED
    BY <2>1, <2>2, <2>3, Zenon DEF Request
<1>9. requests'[c] \in {requests[c], Sent(requests[c], q)}
  BY <1>1, <1>2, Zenon DEF Typed
<1> HIDE DEF q
<1>10. \A i \in DOMAIN requests'[c] :
         \/ requests'[c][i] = q /\ i = Len(requests[c]) + 1
         \/ i \in DOMAIN requests[c] /\ requests'[c][i] = requests[c][i]
  <2>1. CASE requests'[c] = requests[c]
    BY <2>1, Zenon
  <2>2. CASE requests'[c] = Sent(requests[c], q)
    BY <1>8, <2>2, SentElements, SMT, Z3
  <2> QED
    BY <1>9, <2>1, <2>2, Zenon
<1>11. q.id = n /\ q.method = call[c].method
  BY Zenon DEF q
<1>12. \A d \in Clients, id \in Nat : Over(d, id) => Over(d, id)'
  <2> SUFFICES ASSUME NEW d \in Clients, NEW id \in Nat, Over(d, id)
               PROVE  Over(d, id)'
    BY Zenon
  <2>1. CASE d = c
    BY <1>3, <1>6, <1>10, <1>11, <2>1, SMT, Z3, SMTT(20), Z3T(20) DEF Over
  <2>2. CASE d # c
    BY <1>5, <1>7, <2>2, Zenon DEF Over
  <2> QED
    BY <2>1, <2>2, Zenon
<1>13. \A d \in Clients, id \in Nat : \A a : Answered(d, id, a) => Answered(d, id, a)'
  BY <1>2, <1>12, Zenon DEF Answered
<1>14. \A d \in Clients, id \in Nat : \A m :
         id <= LastID(d) /\ MethodOfCall(d, id, m) => MethodOfCall(d, id, m)'
  <2> SUFFICES ASSUME NEW d \in Clients, NEW id \in Nat, NEW m, id <= LastID(d),
                      MethodOfCall(d, id, m)
               PROVE  MethodOfCall(d, id, m)'
    BY Zenon
  <2>1. CASE d = c
    BY <1>2, <1>3, <1>4, <1>6, <2>1, SMT, Z3 DEF MethodOfCall
  <2>2. CASE d # c
    BY <1>2, <1>5, <1>7, <2>2, Zenon DEF MethodOfCall
  <2> QED
    BY <2>1, <2>2, Zenon
<1>15. ResultsInv'
  BY <1>1, <1>2, <1>3, <1>13, SMT, Z3, SMTT(20), Z3T(20) DEF ResultsInv, Typed, Result
<1>16. ExecutedInv'
  BY <1>1, <1>2, <1>12, <1>14, Zenon DEF ExecutedInv, Typed, Execution, Over
<1>17. ASSUME NEW d \in Clients
       PROVE  CallerInv(d)'
  <2>1. CASE d # c
    <3>1. call[d].id \in Nat /\ \A s \in slots[d] : s.id \in Nat
      BY <1>1, SMT, Z3, SMTT(20), Z3T(20) DEF Typed, CallState, Slot
    <3> QED
      BY <1>1, <1>5, <1>7, <1>13, <2>1, <3>1, ZenonT(30) DEF CallerInv
  <2>2. CASE d = c
    <3>1. slots'[c] = {[id |-> n, value |-> NoValue]}
      BY <1>1, <1>2, <1>4, Zenon DEF CallerInv, Typed
    <3> QED
      BY <1>4, <1>6, <2>2, <3>1, SMT, Z3, SMTT(20), Z3T(20) DEF CallerInv
  <2> QED
    BY <2>1, <2>2, Zenon
<1>18. ASSUME NEW d \in Clients
       PROVE  QueueInv(d)'
  <2>1. ASSUME NEW i \in DOMAIN events'[d], events'[d][i].kind # "signal"
        PROVE  Answered(d, events[d][i].id, events[d][i].kind)'
    <3>1. events'[d][i] = events[d][i] /\ i \in DOMAIN events[d]
      BY <1>2, <2>1, Zenon
    <3>2. events[d][i].id \in Nat
      BY <1>1, <3>1, QueuesTyped, Zenon
    <3> QED
      BY <1>1, <1>13, <2>1, <3>1, <3>2, Zenon DEF QueueInv
  <2>2. CASE d # c
    <3>1. \A i \in DOMAIN requests[d] : requests[d][i].id \in Nat
      BY <1>1, QueuesTyped, Zenon
    <3> QED
      BY <1>1, <1>5, <1>7, <1>14, <2>1, <2>2, <3>1, Zenon DEF QueueInv
  <2>3. CASE d = c
    <3>1. \A i \in DOMAIN requests[c] : requests[c][i].id \in Nat
      BY <1>1, QueuesTyped, Zenon
    <3>2. \A i \in DOMAIN requests[c] :
            /\ requests[c][i].id <= LastID(c)
            /\ MethodOfCall(c, requests[c][i].id, requests[c][i].method)
      BY <1>1, Zenon DEF QueueInv
    <3>3. \A k, m : k = n /\ m = q.method => MethodOfCall(c, k, m)'
      <4>1. \A x \in results : x.client = c => x.id # n
        BY <1>1, <1>3, SMT, Z3, SMTT(20), Z3T(20) DEF ResultsInv, Typed, Result
      <4> QED
        BY <1>2, <1>4, <1>11, <4>1, Zenon DEF MethodOfCall
    <3>4. ASSUME NEW i \in DOMAIN requests'[c]
          PROVE  /\ requests'[c][i].id <= LastID(c)'
                 /\ MethodOfCall(c, requests[c][i].id, requests[c][i].method)'
      <4>1. CASE requests'[c][i] = q
        BY <1>3, <1>6, <1>11, <3>3, <4>1, SMT, Z3
      <4>2. CASE i \in DOMAIN requests[c] /\ requests'[c][i] = requests[c][i]
        <5>1. requests[c][i].id <= n
          BY <1>3, <1>6, <3>1, <3>2, <4>2, SMT, Z3, SMTT(20), Z3T(20)
        <5>2. MethodOfCall(c, requests[c][i].id, requests[c][i].method)'
          BY <1>14, <3>1, <3>2, <4>2, Zenon
        <5> QED
          BY <1>6, <4>2, <5>1, <5>2, Zenon
      <4> QED
        BY <1>10, <3>4, <4>1, <4>2, Zenon
    <3>5. ASSUME NEW i \in DOMAIN requests'[c], NEW j \in DOMAIN requests'[c], i < j
          PROVE  requests'[c][i].id < requests'[c][j].id
      <4>1. DOMAIN requests[c] = 1 .. Len(requests[c]) /\ Len(requests[c]) \in Nat
        BY <1>8, SMT, Z3, SMTT(20), Z3T(20)
      <4>2. i \in DOMAIN requests[c] /\ requests'[c][i] = requests[c][i]
        <5>1. j \in Nat /\ j <= Len(requests[c]) + 1
          BY <1>10, <4>1, SMT, Z3, SMTT(20), Z3T(20)
        <5> QED
          BY <1>10, <3>5, <4>1, <5>1, SMT, Z3, SMTT(20), Z3T(20)
      <4>3. CASE requests'[c][j] = q
        BY <1>3, <1>6, <1>11, <3>1, <3>2, <4>2, <4>3, SMT, Z3, SMTT(20), Z3T(20)
      <4>4. CASE j \in DOMAIN requests[c] /\ requests'[c][j] = requests[c][j]
        BY <1>1, <3>5, <4>2, <4>4, Zenon DEF QueueInv
      <4> QED
        BY <1>10, <4>3, <4>4, Zenon
    <3> QED
      BY <2>1, <2>3, <3>4, <3>5, Zenon DEF QueueInv
  <2> QED
    BY <2>2, <2>3
<1>19. DisconnectedOnce'
  BY <1>2, Zenon DEF DisconnectedOnce, CallsInv
<1> QED
  BY <1>15, <1>16, <1>17, <1>18, <1>19, Zenon DEF CallsInv

\* The call returns; its ID is the one after those of the calls that have returned.
LEMMA EraseStep ==
  ASSUME CallsInv, Typed', NEW c \in Clients, EraseSlot(c)
  PROVE  CallsInv'
<1> DEFINE new == [client |-> c, id |-> call[c].id, method |-> call[c].method,
                   out |-> call[c].out]
           R(d) == {r \in results : r.client = d}
<1>1. Typed /\ (\A d \in Clients : CallerInv(d) /\ QueueInv(d)) /\ ExecutedInv /\ ResultsInv
  BY DEF CallsInv
<1>2. /\ call[c].pc = "erase" /\ call' = [call EXCEPT ![c] = NoCall]
      /\ slots' = [slots EXCEPT ![c] = Erased(c)]
      /\ results' = results \cup {new}
      /\ UNCHANGED <<requests, events, linked, executed, count>>
  BY Zenon DEF EraseSlot
<1>3. /\ new.client = c /\ new.id = call[c].id /\ new.method = call[c].method
      /\ new.out = call[c].out
  BY Zenon
<1> HIDE DEF new
<1>4. Pending(c) /\ ~Pending(c)' /\ call'[c].pc = "idle" /\ call[c].id \in Nat
  BY <1>1, <1>2, Zenon DEF Pending, NoCall, Typed, CallState
<1>5. \A d \in Clients : d # c => /\ call'[d] = call[d] /\ slots'[d] = slots[d]
                                  /\ Pending(d)' = Pending(d)
  BY <1>1, <1>2, Zenon DEF Typed, Pending
<1>6. \A d \in Clients : Returned(d) \in Nat
  BY <1>1, ReturnedType, Zenon
<1>7. call[c].id = Returned(c) + 1
  BY <1>1, <1>4, Zenon DEF CallerInv, LastID
<1>8. \A d \in Clients : d # c => Returned(d)' = Returned(d)
  <2>1. \A d \in Clients : d # c => {r \in results' : r.client = d} = R(d)
    BY <1>2, <1>3, Zenon
  <2> QED
    BY <2>1, Zenon DEF Returned
<1>9. Returned(c)' = Returned(c) + 1
  <2>1. {r \in results' : r.client = c} = R(c) \cup {new}
    BY <1>2, <1>3, Zenon
  <2>2. new \notin R(c)
    BY <1>1, <1>3, <1>6, <1>7, SMT, Z3 DEF ResultsInv
  <2>3. IsFiniteSet(R(c))
    BY <1>1, ReturnedType, Zenon
  <2>4. Cardinality(R(c) \cup {new}) = Cardinality(R(c)) + 1
    BY <1>1, <2>2, <2>3, Zenon DEF Typed, Counting
  <2> QED
    BY <2>1, <2>4, Zenon DEF Returned
<1>10. \A d \in Clients : LastID(d)' = LastID(d)
  BY <1>4, <1>5, <1>8, <1>9, Zenon DEF LastID
<1>11. \A d \in Clients, id \in Nat : Over(d, id) => Over(d, id)'
  BY <1>2, <1>10, Zenon DEF Over
<1>12. \A d \in Clients, id \in Nat : \A a : Answered(d, id, a) => Answered(d, id, a)'
  BY <1>2, <1>11, Zenon DEF Answered
<1>13. \A d \in Clients, id \in Nat : \A m : MethodOfCall(d, id, m) => MethodOfCall(d, id, m)'
  BY <1>2, <1>3, <1>4, <1>5, SMT, Z3 DEF MethodOfCall
<1>14. ResultsInv'
  <2>1. Answered(c, call[c].id, call[c].out)
    BY <1>1, <1>2, Zenon DEF CallerInv
  <2> SUFFICES ASSUME NEW r \in results'
               PROVE  r.id <= Returned(r.client)' /\ Answered(r.client, r.id, r.out)'
    BY Zenon DEF ResultsInv
  <2>2. CASE r = new
    BY <1>3, <1>4, <1>6, <1>7, <1>9, <1>12, <2>1, <2>2, SMT, Z3, SMTT(20), Z3T(20)
  <2>3. CASE r \in results
    <3>1. r.client \in Clients /\ r.id \in Nat
      BY <1>1, <2>3, Zenon DEF Typed, Result
    <3>2. Returned(r.client) <= Returned(r.client)'
      BY <1>6, <1>8, <1>9, <3>1, SMT, Z3
    <3>3. r.id <= Returned(r.client) /\ Answered(r.client, r.id, r.out)
      BY <1>1, <2>3, Zenon DEF ResultsInv
    <3>4. Returned(r.client)' \in Nat
      BY <3>1, ReturnedType, <1>6, <1>8, <1>9, SMT, Z3
    <3> QED
      BY <1>6, <1>12, <3>1, <3>2, <3>3, <3>4, SMT, Z3, SMTT(20), Z3T(20)
  <2> QED
    BY <1>2, <2>2, <2>3, Zenon
<1>15. ExecutedInv'
  BY <1>1, <1>2, <1>11, <1>13, Zenon DEF ExecutedInv, Typed, Execution
<1>16. ASSUME NEW d \in Clients
       PROVE  CallerInv(d)'
  <2>1. CASE d # c
    <3>1. call[d].id \in Nat /\ \A s \in slots[d] : s.id \in Nat
      BY <1>1 DEF Typed, CallState, Slot
    <3>2. /\ call'[d] = call[d] /\ slots'[d] = slots[d] /\ Pending(d)' = Pending(d)
          /\ LastID(d)' = LastID(d) /\ CallerInv(d)
      BY <1>1, <1>5, <1>10, <2>1, Zenon
    <3>3. /\ \A s \in slots[d] : s.value # NoValue => Answered(d, s.id, s.value)'
          /\ call[d].pc = "erase" => Answered(d, call[d].id, call[d].out)'
      BY <1>12, <3>1, <3>2, Zenon DEF CallerInv
    <3> QED
      BY <3>2, <3>3, Zenon DEF CallerInv
  <2>2. CASE d = c
    <3>1. slots'[c] = {}
      BY <1>1, <1>2, Zenon DEF CallerInv, Erased, Typed
    <3> QED
      BY <1>4, <2>2, <3>1, Zenon DEF CallerInv
  <2> QED
    BY <2>1, <2>2
<1>17. ASSUME NEW d \in Clients
       PROVE  QueueInv(d)'
  <2>1. /\ \A i \in DOMAIN requests[d] : requests[d][i].id \in Nat
        /\ \A i \in DOMAIN events[d] : events[d][i].id \in Nat
    BY <1>1, QueuesTyped, Zenon
  <2> QED
    BY <1>1, <1>2, <1>10, <1>12, <1>13, <2>1, Zenon DEF QueueInv
<1>18. DisconnectedOnce'
  BY <1>2, Zenon DEF DisconnectedOnce, CallsInv
<1> QED
  BY <1>14, <1>15, <1>16, <1>17, <1>18, Zenon DEF CallsInv

\* The server takes the first request: it has not been executed, the ones after it
\* are later calls.
LEMMA ProcessStep ==
  ASSUME CallsInv, Typed', NEW c \in Clients, NEW outcome \in {"value", "failed"},
         Process(c, outcome)
  PROVE  CallsInv'
<1> DEFINE q == Head(requests[c])
           kind == IF Permitted(c, q.method) THEN outcome ELSE "denied"
           e == Reply(kind, q.id)
           x == Handled(c, q, outcome)
<1>1. Typed /\ (\A d \in Clients : CallerInv(d) /\ QueueInv(d)) /\ ExecutedInv /\ ResultsInv
  BY ZenonT(30) DEF CallsInv
<1>2. /\ requests[c] # <<>> /\ requests' = [requests EXCEPT ![c] = Tail(@)]
      /\ executed' = executed \cup {Handled(c, q, o) : o \in {kind} \ {"denied"}}
      /\ events' = [events EXCEPT ![c] = Sent(@, e)]
      /\ UNCHANGED <<linked, call, slots, results, count>>
  BY Zenon DEF Process
<1>3. kind \in {outcome, "denied"}
  BY Zenon
<1>4. /\ kind = "denied" => executed' = executed
      /\ kind = outcome => executed' = executed \cup {x}
  BY <1>2, Zenon
<1>5. /\ requests[c] \in Seq(Request) /\ q = requests[c][1] /\ 1 \in DOMAIN requests[c]
      /\ events[c] \in Seq(Event) /\ requests'[c] = Tail(requests[c])
      /\ events'[c] = Sent(events[c], e)
  <2>1. requests[c] \in Seq(Request) /\ events[c] \in Seq(Event)
    BY <1>1, Zenon DEF Typed
  <2>2. q = requests[c][1] /\ 1 \in DOMAIN requests[c]
    <3>1. requests[c] # <<>>
      BY <1>2, Zenon
    <3> QED
      BY <2>1, <3>1, SMT, Z3
  <2>3. requests'[c] = Tail(requests[c])
    BY <1>1, <1>2, Zenon DEF Typed
  <2>4. events'[c] = Sent(events[c], e)
    BY <1>1, <1>2, Zenon DEF Typed
  <2> QED
    BY <2>1, <2>2, <2>3, <2>4, Zenon
<1>6. q \in Request /\ q.id \in Nat
  BY <1>1, <1>5, QueuesTyped, Zenon
<1>7. /\ x.client = c /\ x.id = q.id /\ x.method = q.method /\ x.outcome = outcome
      /\ e.id = q.id /\ e.kind = kind
  BY Zenon DEF Handled, Reply
<1>8. e \in Event
  BY <1>3, <1>6, Zenon DEF Reply, Event, Answers
<1> HIDE DEF q, kind, e, x
<1>9. \A i \in DOMAIN requests'[c] :
        i \in Nat /\ i + 1 \in DOMAIN requests[c] /\ requests'[c][i] = requests[c][i + 1]
  <2>1. Tail(requests[c]) \in Seq(Request)
    BY <1>2, <1>5, SMT, Z3
  <2>2. \A i \in DOMAIN Tail(requests[c]) : i \in Nat
    BY <2>1, SMT, Z3
  <2> QED
    BY <1>2, <1>5, <2>2, TailElements, ZenonT(30)
<1>10. \A d \in Clients : d # c => requests'[d] = requests[d] /\ events'[d] = events[d]
  BY <1>1, <1>2, Zenon DEF Typed
<1>11. \A d \in Clients : /\ Returned(d)' = Returned(d) /\ LastID(d)' = LastID(d)
                          /\ Pending(d)' = Pending(d)
  BY <1>2, Zenon DEF Returned, LastID, Pending
<1>12. \A d \in Clients, id \in Nat : Over(d, id) => Over(d, id)'
  <2> SUFFICES ASSUME NEW d \in Clients, NEW id \in Nat, Over(d, id)
               PROVE  Over(d, id)'
    BY Zenon
  <2>1. CASE d = c
    BY <1>9, <1>11, <2>1, Zenon DEF Over
  <2>2. CASE d # c
    BY <1>10, <1>11, <2>2, Zenon DEF Over
  <2> QED
    BY <2>1, <2>2, Zenon
<1>13. \A y \in executed' : y \in executed \/ (y = x /\ kind = outcome)
  BY <1>3, <1>4, Zenon
<1>14. executed \subseteq executed'
  BY <1>2, Zenon
<1>15. \A id \in Nat : Over(c, id) => id < q.id
  BY <1>5, Zenon DEF Over
<1>16. \A d \in Clients, id \in Nat : \A a : Answered(d, id, a) => Answered(d, id, a)'
  <2> SUFFICES ASSUME NEW d \in Clients, NEW id \in Nat, NEW a, Answered(d, id, a)
               PROVE  Answered(d, id, a)'
    BY Zenon
  <2>1. a \in {"value", "failed"} =>
          \E y \in executed' : y.client = d /\ y.id = id /\ y.outcome = a
    BY <1>14, Zenon DEF Answered
  <2>2. a = "denied" => Over(d, id)' /\ ~\E y \in executed' : y.client = d /\ y.id = id
    BY <1>6, <1>7, <1>12, <1>13, <1>15, SMT, Z3 DEF Answered
  <2> QED
    BY <2>1, <2>2, Zenon DEF Answered
<1>17. \A d \in Clients, id \in Nat : \A m : MethodOfCall(d, id, m) => MethodOfCall(d, id, m)'
  BY <1>2, <1>11, Zenon DEF MethodOfCall
<1>18. q.id <= LastID(c) /\ MethodOfCall(c, q.id, q.method)
  BY <1>1, <1>5, Zenon DEF QueueInv
<1>19. \A k : k = q.id => Over(c, k)'
  <2>1. \A i \in DOMAIN requests'[c] : q.id < requests'[c][i].id
    <3> SUFFICES ASSUME NEW i \in DOMAIN requests'[c]
                 PROVE  q.id < requests'[c][i].id
      BY Zenon
    <3>1. /\ i + 1 \in DOMAIN requests[c] /\ requests'[c][i] = requests[c][i + 1]
          /\ i \in Nat
      BY <1>9, Zenon
    <3>2. 1 < i + 1
      <4>1. DOMAIN requests'[c] = 1 .. Len(requests'[c])
        BY <1>5, SMT, Z3, SMTT(20), Z3T(20)
      <4> QED
        BY <4>1, SMT, Z3, SMTT(20), Z3T(20)
    <3> QED
      BY <1>1, <1>5, <3>1, <3>2, Zenon DEF QueueInv
  <2> QED
    BY <1>11, <1>18, <2>1, Zenon DEF Over
<1>20. \A y \in executed : y.client = c => y.id # q.id
  BY <1>1, <1>6, <1>15, SMT, Z3 DEF ExecutedInv, Typed, Execution
<1>21. ExecutedInv'
  <2> SUFFICES ASSUME NEW y \in executed'
               PROVE  /\ Over(y.client, y.id)' /\ MethodOfCall(y.client, y.id, y.method)'
                      /\ \A z \in executed' : y.client = z.client /\ y.id = z.id => y = z
    BY Zenon DEF ExecutedInv
  <2>1. CASE y \in executed
    <3>1. y.client \in Clients /\ y.id \in Nat
      BY <1>1, <2>1, Zenon DEF Typed, Execution
    <3>2. Over(y.client, y.id)' /\ MethodOfCall(y.client, y.id, y.method)'
      BY <1>1, <1>12, <1>17, <2>1, <3>1, Zenon DEF ExecutedInv
    <3> QED
      BY <1>1, <1>7, <1>13, <1>20, <2>1, <3>2, Zenon DEF ExecutedInv
  <2>2. CASE y = x
    <3>1. Over(y.client, y.id)' /\ MethodOfCall(y.client, y.id, y.method)'
      BY <1>6, <1>7, <1>17, <1>18, <1>19, <2>2, Zenon
    <3> QED
      BY <1>7, <1>13, <1>20, <2>2, <3>1, Zenon
  <2> QED
    BY <1>13, <2>1, <2>2, Zenon
<1>22. ResultsInv'
  BY <1>1, <1>2, <1>11, <1>16, ZenonT(30) DEF ResultsInv, Typed, Result
<1>23. ASSUME NEW d \in Clients
       PROVE  CallerInv(d)'
  <2>1. call[d].id \in Nat /\ \A s \in slots[d] : s.id \in Nat
    BY <1>1, SMT, Z3, SMTT(20), Z3T(20) DEF Typed, CallState, Slot
  <2> QED
    BY <1>1, <1>2, <1>11, <1>16, <2>1, Zenon DEF CallerInv
<1>24. \A k, a : k = q.id /\ a = kind => Answered(c, k, a)'
  <2>1. CASE kind = outcome
    BY <1>4, <1>7, <2>1, Zenon DEF Answered
  <2>2. CASE kind = "denied"
    BY <1>4, <1>19, <1>20, <2>2, Zenon DEF Answered
  <2> QED
    BY <1>3, <2>1, <2>2, Zenon
<1>25. ASSUME NEW d \in Clients
       PROVE  QueueInv(d)'
  <2>1. /\ \A i \in DOMAIN requests[d] : requests[d][i].id \in Nat
        /\ \A i \in DOMAIN events[d] : events[d][i].id \in Nat
    BY <1>1, QueuesTyped, Zenon
  <2>2. CASE d # c
    BY <1>1, <1>10, <1>11, <1>16, <1>17, <2>1, <2>2, ZenonT(30) DEF QueueInv
  <2>3. CASE d = c
    <3>1. ASSUME NEW i \in DOMAIN requests'[c]
          PROVE  /\ requests'[c][i].id <= LastID(c)'
                 /\ MethodOfCall(c, requests[c][i].id, requests[c][i].method)'
      <4>1. /\ i + 1 \in DOMAIN requests[c] /\ requests'[c][i] = requests[c][i + 1]
            /\ requests[c][i + 1].id \in Nat
        BY <1>9, <2>1, <2>3, Zenon
      <4>2. /\ requests[c][i + 1].id <= LastID(c)
            /\ MethodOfCall(c, requests[c][i + 1].id, requests[c][i + 1].method)
        BY <1>1, <4>1, Zenon DEF QueueInv
      <4> QED
        BY <1>11, <1>17, <4>1, <4>2, Zenon
    <3>2. ASSUME NEW i \in DOMAIN requests'[c], NEW j \in DOMAIN requests'[c], i < j
          PROVE  requests'[c][i].id < requests'[c][j].id
      <4>1. i + 1 < j + 1
        BY <1>9, <3>2, SMT, Z3, SMTT(20), Z3T(20)
      <4> QED
        BY <1>1, <1>9, <4>1, Zenon DEF QueueInv
    <3>3. ASSUME NEW i \in DOMAIN events'[c], events'[c][i].kind # "signal"
          PROVE  Answered(c, events[c][i].id, events[c][i].kind)'
      <4>1. CASE events'[c][i] = e
        BY <1>7, <1>24, <4>1, Zenon
      <4>2. CASE i \in DOMAIN events[c] /\ events'[c][i] = events[c][i]
        <5>1. events[c][i].id \in Nat /\ events[c][i].kind # "signal"
          BY <2>1, <2>3, <3>3, <4>2, Zenon
        <5>2. Answered(c, events[c][i].id, events[c][i].kind)
          BY <1>1, <4>2, <5>1, Zenon DEF QueueInv
        <5> QED
          BY <1>16, <4>2, <5>1, <5>2, Zenon
      <4> QED
        BY <1>5, <1>8, <4>1, <4>2, SentElements, SMT, Z3, SMTT(20), Z3T(20)
    <3> QED
      BY <2>3, <3>1, <3>2, <3>3, Zenon DEF QueueInv
  <2> QED
    BY <2>2, <2>3, Zenon
<1>26. DisconnectedOnce'
  BY <1>2, Zenon DEF DisconnectedOnce, CallsInv
<1> QED
  BY <1>21, <1>22, <1>23, <1>25, <1>26, Zenon DEF CallsInv

-----------------------------------------------------------------------------
(* All steps of a call *)

\* The invariant, at first.
LEMMA CallsInit ==
  ASSUME Counting, Init
  PROVE  CallsInv
<1>1. Typed
  BY TypeInit, Zenon
<1>2. \A c \in Clients : CallerInv(c)
  BY Zenon DEF Init, CallerInv, Pending, NoCall
<1>3. \A c \in Clients : QueueInv(c)
  BY SMT, Z3 DEF Init, QueueInv
<1>4. ExecutedInv /\ ResultsInv
  BY Zenon DEF Init, ExecutedInv, ResultsInv
<1>5. DisconnectedOnce
  BY SMT, Z3 DEF Init, DisconnectedOnce
<1> QED
  BY <1>1, <1>2, <1>3, <1>4, <1>5, Zenon DEF CallsInv

\* Every step keeps the invariant.
LEMMA CallsStep == CallsInv /\ [Next]_vars => CallsInv'
<1> SUFFICES ASSUME CallsInv, [Next]_vars PROVE CallsInv'
  BY Zenon
<1>1. Typed'
  BY TypeStep, Zenon DEF CallsInv
<1>2. ASSUME NEW c \in Clients, NEW lookup \in BOOLEAN, Connect(c, lookup) PROVE CallsInv'
  BY <1>1, <1>2, ConnectStep, Zenon
<1>3. ASSUME NEW c \in Clients, NEW m \in Methods, BeginCall(c, m) PROVE CallsInv'
  BY <1>1, <1>3, WaitStep, Zenon
<1>4. ASSUME NEW c \in Clients, Caller(c) PROVE CallsInv'
  BY <1>1, <1>4, SendStep, WaitStep, EraseStep, Zenon DEF Caller
<1>5. ASSUME NEW c \in Clients, Receive(c) PROVE CallsInv'
  BY <1>1, <1>5, ReceiveStep, Zenon
<1>6. ASSUME NEW c \in Clients, ReceiveUnexpected(c) \/ ReceiveError(c) \/ Disconnect(c)
      PROVE  CallsInv'
  BY <1>1, <1>6, DisconnectStep, Zenon
<1>7. ASSUME NEW c \in Clients, NEW outcome \in {"value", "failed"}, Process(c, outcome)
      PROVE  CallsInv'
  BY <1>1, <1>7, ProcessStep, Zenon
<1>8. ASSUME NEW s \in {"Devices", "Parameters", "Exceptions"}, Broadcast(s) PROVE CallsInv'
  BY <1>1, <1>8, DaemonStep, Zenon DEF Sections
<1>9. CASE Stop
  BY <1>1, <1>9, DaemonStep, Zenon
<1>10. CASE UNCHANGED vars
  <2>1. UNCHANGED <<requests, events, linked, call, slots, executed, results, count>>
    BY <1>10, Zenon DEF vars
  <2>2. Quiet /\ EventsQuiet
    BY <2>1, Zenon DEF Quiet, EventsQuiet, Pending
  <2>3. \A c \in Clients : CallerInv(c)'
    BY <1>1, <2>1, <2>2, QuietCaller, Zenon
  <2>4. DisconnectedOnce'
    BY <2>1, Zenon DEF DisconnectedOnce, CallsInv
  <2> QED
    BY <1>1, <2>2, <2>3, <2>4, QuietSteps, Zenon DEF CallsInv
<1> QED
  BY <1>2, <1>3, <1>4, <1>5, <1>6, <1>7, <1>8, <1>9, <1>10, Zenon DEF Next

\* The invariant says what becomes of the calls.
LEMMA CallsInvSuffices == CallsInv => CallsAccounted
<1> SUFFICES ASSUME CallsInv PROVE CallsAccounted
  BY Zenon
<1>1. ResultsTrue
  <2> SUFFICES ASSUME NEW r \in results
               PROVE  LET runs == {x \in executed : x.client = r.client /\ x.id = r.id}
                      IN  /\ Cardinality(runs) <= 1
                          /\ r.out \in {"value", "failed"} =>
                               \E x \in runs : x.outcome = r.out /\ x.method = r.method
                          /\ r.out = "denied" => runs = {}
    BY Zenon DEF ResultsTrue
  <2> DEFINE runs == {x \in executed : x.client = r.client /\ x.id = r.id}
  <2>1. \A x, y \in runs : x = y
    BY Zenon DEF CallsInv, ExecutedInv
  <2>2. Cardinality(runs) <= 1
    <3>1. CASE runs = {}
      <4>1. Cardinality({}) = 0
        BY Zenon DEF CallsInv, Typed, Counting
      <4>2. 0 <= 1
        BY SMT, Z3
      <4> QED  BY <3>1, <4>1, <4>2, Zenon
    <3>2. CASE \E x : runs = {x}
      <4>1. PICK x : runs = {} \cup {x}
        BY <3>2, Zenon
      <4>2. Cardinality({} \cup {x}) = 0 + 1
        BY Zenon DEF CallsInv, Typed, Counting
      <4>3. 0 + 1 <= 1
        BY SMT, Z3
      <4> QED  BY <4>1, <4>2, <4>3, Zenon
    <3> QED
      BY <2>1, <3>1, <3>2, Zenon
  <2>3. Answered(r.client, r.id, r.out)
    BY Zenon DEF CallsInv, ResultsInv
  <2>4. \A x \in runs : x.method = r.method
    BY Zenon DEF CallsInv, ExecutedInv, MethodOfCall
  <2> QED
    BY <2>2, <2>3, <2>4, Zenon DEF Answered
<1>2. SlotsReleased
  BY Zenon DEF CallsInv, CallerInv, Pending, SlotsReleased
<1> QED
  BY <1>1, <1>2, Zenon DEF CallsAccounted, CallsInv

-----------------------------------------------------------------------------
(* The maps of allowed users and groups *)

\* The entry of a key comes from the configuration, or from a file that was loaded and
\* has the key.
LEMMA EntryFromFile ==
  ASSUME Counting, NEW st, DOMAIN st.files \subseteq Nat, NEW k \in DOMAIN LoadMaps(st)
  PROVE  \/ k \in ConfiguredKeys(st) /\ LoadMaps(st)[k] = FullAccess
         \/ \E i \in DOMAIN st.files :
              /\ Loaded(st.files[i]) /\ k \in FileKeys(st.files[i])
              /\ LoadMaps(st)[k] = Load(st.files[i].lines)
<1> DEFINE H == Holders(st.files, k)
<1>1. CASE k \in ConfiguredKeys(st)
  BY <1>1, Zenon DEF LoadMaps
<1>2. CASE k \notin ConfiguredKeys(st)
  <2>1. LoadMaps(st)[k] = Load(st.files[Emplaced(st.files, k)].lines)
    BY <1>2, Zenon DEF LoadMaps
  <2>2. H # {} /\ H \subseteq Nat
    BY <1>2, Zenon DEF LoadMaps, Holders
  <2>3. \E i \in H : \A j \in H : i <= j
    BY <2>2, Zenon DEF Counting
  <2>4. Emplaced(st.files, k) \in H
    BY <2>3, Zenon DEF Emplaced
  <2> QED
    BY <2>1, <2>4, Zenon DEF Holders
<1> QED
  BY <1>1, <1>2, Zenon

\* A privilege that was loaded is on a line of the file for the section.
LEMMA PrivilegeFromLine ==
  ASSUME NEW lines, NEW s \in Sections, NEW p \in Load(lines)[s]
  PROVE  /\ p \in Privileges
         /\ \E j \in DOMAIN lines :
              /\ lines[j][1] \in {s, "ALL"}
              /\ \E k \in DOMAIN lines[j][2] : lines[j][2][k] \in {p, "ALL"}
<1>1. PICK j \in DOMAIN lines : p \in LoadLine(lines[j])[s]
  BY Zenon DEF Load, Merged
<1>2. PICK k \in DOMAIN lines[j][2] : p \in SetPrivilege(lines[j][1], lines[j][2][k])[s]
  BY <1>1, Zenon DEF LoadLine, Merged
<1>3. lines[j][1] \in {s, "ALL"} /\ p \in Bits(lines[j][2][k])
  BY <1>2, Zenon DEF SetPrivilege
<1> QED
  BY <1>3, Zenon DEF Bits

\* The name whose key matches an account stands for the client.
LEMMA MatchedNames ==
  ASSUME NEW c \in Clients, NEW lookup \in BOOLEAN, NEW map, NEW entry,
         NEW k \in MatchedKeys(map, account[c].uid, account[c].gid, lookup), entry # ""
  PROVE  /\ k = UserKey(entry) => NamesUser(entry, c)
         /\ k = GroupKey(entry) => NamesGroup(entry, c)
<1> DEFINE uid == account[c].uid
           gid == account[c].gid
           name == NameFromUID(uid, lookup)
<1>1. \/ k = <<"uid", uid>> \/ k = <<"gid", gid>>
      \/ name # "" /\ k = <<"username", name>>
      \/ GroupName[gid] # "" /\ k = <<"groupname", GroupName[gid]>>
      \/ k[1] \in {"gid", "groupname"} /\ name # "" /\ name \in Members[k[2]]
  BY Zenon DEF MatchedKeys, NameFromGID, GroupMemberNames
<1>2. \/ k[1] = "uid" /\ k[2] = uid
      \/ k[1] = "gid" /\ k[2] = gid
      \/ k[1] = "username" /\ k[2] = UserName[uid]
      \/ k[1] = "groupname" /\ k[2] = GroupName[gid]
      \/ k[1] \in {"gid", "groupname"} /\ UserName[uid] \in Members[k[2]]
  <2>1. name # "" => name = UserName[uid]
    BY Zenon DEF NameFromUID
  <2> HIDE DEF uid, gid, name
  <2>2. CASE k = <<"uid", uid>>
    BY <2>2, Zenon
  <2>3. CASE k = <<"gid", gid>>
    BY <2>3, Zenon
  <2>4. CASE name # "" /\ k = <<"username", name>>
    BY <2>1, <2>4, Zenon
  <2>5. CASE k = <<"groupname", GroupName[gid]>>
    BY <2>5, Zenon
  <2>6. CASE k[1] \in {"gid", "groupname"} /\ name # "" /\ name \in Members[k[2]]
    BY <2>1, <2>6, Zenon
  <2> QED
    BY <1>1, <2>2, <2>3, <2>4, <2>5, <2>6, Zenon
<1>3. ASSUME k = UserKey(entry) PROVE NamesUser(entry, c)
  <2>1. k[1] \in {"uid", "username"} /\ k[2] = entry
    BY <1>3, Zenon DEF UserKey
  <2>2. entry \in {uid, UserName[uid]}
    BY <1>2, <2>1, Zenon
  <2> QED
    BY <2>2, Zenon DEF NamesUser
<1>4. ASSUME k = GroupKey(entry) PROVE NamesGroup(entry, c)
  <2>1. k[1] \in {"gid", "groupname"} /\ k[2] = entry
    BY <1>4, Zenon DEF GroupKey
  <2>2. entry \in {gid, GroupName[gid]} \/ UserName[uid] \in Members[entry]
    BY <1>2, <2>1, Zenon
  <2> QED
    BY <2>2, Zenon DEF NamesGroup
<1> QED
  BY <1>3, <1>4, Zenon

\* A connection has only privileges that the configuration or a file gives the client.
LEMMA AcceptedGranted ==
  ASSUME Counting, config \in Configurations, NEW c \in Clients, NEW lookup \in BOOLEAN,
         NEW access \in Accepted(c, lookup), NEW s \in Sections, NEW p \in access[s]
  PROVE  p \in Privileges /\ Granted(c, s, p)
<1> DEFINE map == LoadMaps(config)
           keys == MatchedKeys(map, account[c].uid, account[c].gid, lookup)
<1>1. access = MergedAccess(map, keys)
  BY Zenon DEF Accepted
<1>2. PICK k \in keys : p \in map[k][s]
  BY <1>1, Zenon DEF MergedAccess, Merged
<1>3. k \in DOMAIN map
  BY Zenon DEF MatchedKeys
<1>4. /\ DOMAIN config.files \subseteq Nat
      /\ "" \notin config.users /\ "" \notin config.groups
  BY ConstantsAssumption, Zenon
<1> HIDE DEF map
<1>5. CASE k \in ConfiguredKeys(config) /\ map[k] = FullAccess
  <2>1. p \in Privileges
    BY <1>2, <1>5, Zenon DEF FullAccess, SetPrivilege, Bits
  <2>2. ASSUME NEW user \in config.users, k = UserKey(user) PROVE Configured(c)
    BY <1>4, <2>2, MatchedNames, Zenon DEF Configured
  <2>3. ASSUME NEW group \in config.groups, k = GroupKey(group) PROVE Configured(c)
    BY <1>4, <2>3, MatchedNames, Zenon DEF Configured
  <2>4. Configured(c)
    BY <1>5, <2>2, <2>3, Zenon DEF ConfiguredKeys
  <2> QED
    BY <2>1, <2>4, Zenon DEF Granted
<1>6. ASSUME NEW i \in DOMAIN config.files,
             Loaded(config.files[i]), k \in FileKeys(config.files[i]),
             map[k] = Load(config.files[i].lines)
      PROVE  p \in Privileges /\ Granted(c, s, p)
  <2> DEFINE file == config.files[i]
  <2>1. NamesUser(file.user, c) \/ NamesGroup(file.group, c)
    BY <1>6, MatchedNames, Zenon DEF FileKeys
  <2>2. /\ p \in Privileges
        /\ \E j \in DOMAIN file.lines :
             /\ file.lines[j][1] \in {s, "ALL"}
             /\ \E n \in DOMAIN file.lines[j][2] : file.lines[j][2][n] \in {p, "ALL"}
    BY <1>2, <1>6, PrivilegeFromLine, Zenon
  <2>3. GrantedByFile(file, c, s, p)
    BY <1>6, <2>1, <2>2, Zenon DEF GrantedByFile, Loaded
  <2> QED
    BY <2>2, <2>3, Zenon DEF Granted
<1> QED
  BY <1>3, <1>4, <1>5, <1>6, EntryFromFile, Zenon DEF map

-----------------------------------------------------------------------------
(* The invariant *)

Connection == [open : BOOLEAN, access : [Sections -> SUBSET Privileges]]

\* What a connection may do, and the signals on their way, are granted.
AccessInv ==
  /\ Typed /\ config \in Configurations
  /\ server \in [Clients -> Connection]
  /\ \A c \in Clients, s \in Sections : \A p \in server[c].access[s] : Granted(c, s, p)
  /\ \A c \in Clients : \A i \in DOMAIN events[c] :
       events[c][i].kind = "signal" => Granted(c, events[c][i].section, "listen")
  /\ ExecutedIfGranted /\ HeardIfGranted

\* The privileges that the methods need can be tested for.
LEMMA HandlersNeed ==
  ASSUME NEW m \in Methods
  PROVE  \/ Handlers[m][2] = "none"
         \/ Handlers[m][1] \in Sections /\ Handlers[m][2] \in Privileges
<1>1. m \in DOMAIN Handlers
  BY ConstantsAssumption, Zenon
<1>2. m \in {"appendRule", "removeRule", "listRules", "applyDevicePolicy", "listDevices",
             "setParameter", "getParameter", "checkIPCPermissions"}
  BY <1>1, Zenon DEF Handlers
<1> QED
  BY <1>2, SMT, Z3 DEF Handlers, Sections, Privileges

\* hasPrivilege says yes only to what is granted.
LEMMA HasPrivilegeGranted ==
  ASSUME AccessInv, NEW c \in Clients, NEW s \in Sections, NEW p \in Privileges,
         HasPrivilege(server[c].access, s, p)
  PROVE  Granted(c, s, p)
<1>1. p # "none" /\ p # "ALL"
  BY Zenon DEF Privileges
<1>2. p \in server[c].access[s]
  BY <1>1, Zenon DEF HasPrivilege, Bits
<1> QED
  BY <1>2, Zenon DEF AccessInv

\* Grants do not change.
LEMMA GrantsStay ==
  ASSUME UNCHANGED <<config, account>>
  PROVE  \A c, s, p : Granted(c, s, p)' = Granted(c, s, p)
  BY SMT, Z3 DEF Granted, GrantedByFile, Configured, NamesUser, NamesGroup

\* A closed connection grants nothing.
LEMMA ClosedTyped == Closed \in Connection /\ \A s \in Sections : Closed.access[s] = {}
  BY Zenon DEF Closed, Connection, NoAccess

\* A step that executes nothing, gives no signal and opens no connection.
LEMMA AccessQuiet ==
  ASSUME AccessInv, Typed', UNCHANGED <<config, account, executed, heard>>,
         \A c \in Clients : server'[c] \in {server[c], Closed},
         server' \in [Clients -> Connection],
         \A c \in Clients : \A i \in DOMAIN events'[c] :
           events'[c][i].kind = "signal" =>
             \E j \in DOMAIN events[c] : events'[c][i] = events[c][j]
  PROVE  AccessInv'
<1>1. \A c, s, p : Granted(c, s, p)' = Granted(c, s, p)
  BY GrantsStay, Zenon
<1>2. \A c \in Clients, s \in Sections : \A p \in server'[c].access[s] : Granted(c, s, p)
  <2> SUFFICES ASSUME NEW c \in Clients, NEW s \in Sections, NEW p \in server'[c].access[s]
               PROVE  Granted(c, s, p)
    BY Zenon
  <2>1. server'[c] # Closed
    BY ClosedTyped, Zenon
  <2>2. server'[c] = server[c]
    BY <2>1, Zenon
  <2> QED
    BY <2>2, Zenon DEF AccessInv
<1>3. \A c \in Clients : \A i \in DOMAIN events'[c] :
        events'[c][i].kind = "signal" => Granted(c, events'[c][i].section, "listen")
  <2> SUFFICES ASSUME NEW c \in Clients, NEW i \in DOMAIN events'[c],
                      events'[c][i].kind = "signal"
               PROVE  Granted(c, events'[c][i].section, "listen")
    BY Zenon
  <2>1. PICK j \in DOMAIN events[c] : events'[c][i] = events[c][j]
    BY Zenon
  <2> QED
    BY <2>1, Zenon DEF AccessInv
<1>4. ExecutedIfGranted'
  BY <1>1, Zenon DEF AccessInv, ExecutedIfGranted
<1>5. HeardIfGranted'
  BY <1>1, Zenon DEF AccessInv, HeardIfGranted
<1> QED
  BY <1>1, <1>2, <1>3, <1>4, <1>5, Zenon DEF AccessInv

\* The end of a connection closes it, and leaves the others and what is under way to them.
LEMMA HangupQuiet ==
  ASSUME AccessInv, NEW c \in Clients, Hangup(c)
  PROVE  /\ \A d \in Clients : server'[d] \in {server[d], Closed}
         /\ server' \in [Clients -> Connection]
         /\ \A d \in Clients : \A i \in DOMAIN events'[d] :
              \E j \in DOMAIN events[d] : events'[d][i] = events[d][j]
<1>1. \A d \in Clients : server'[d] \in {server[d], Closed}
  BY Zenon DEF Hangup, AccessInv
<1>2. server' \in [Clients -> Connection]
  BY ClosedTyped, Zenon DEF Hangup, AccessInv
<1>3. \A d \in Clients : events'[d] \in {events[d], <<>>}
  BY Zenon DEF Hangup, AccessInv, Typed
<1> QED
  BY <1>1, <1>2, <1>3, SMT, Z3

\* A connection gets what is granted to its user and groups.
LEMMA ConnectAccess ==
  ASSUME AccessInv, Typed', NEW c \in Clients, NEW lookup \in BOOLEAN, Connect(c, lookup)
  PROVE  AccessInv'
<1>1. PICK access \in Accepted(c, lookup) :
        server' = [server EXCEPT ![c] = [open |-> TRUE, access |-> access]]
  BY Zenon DEF Connect
<1>2. UNCHANGED <<config, account, events, executed, heard>>
  BY Zenon DEF Connect
<1>3. config \in Configurations
  BY Zenon DEF AccessInv
<1>4. \A s \in Sections : \A p \in access[s] : p \in Privileges /\ Granted(c, s, p)
  <2>1. Counting
    BY Zenon DEF AccessInv, Typed
  <2> QED  BY <1>3, <2>1, AcceptedGranted, Zenon
<1>5. access \in [Sections -> SUBSET Privileges]
  <2>1. access = [s \in Sections |-> access[s]]
    BY Zenon DEF Accepted, MergedAccess, Merged
  <2> QED
    BY <1>4, <2>1, Zenon
<1>6. server' \in [Clients -> Connection]
  BY <1>1, <1>5, Zenon DEF AccessInv, Connection
<1>7. \A d \in Clients, s \in Sections : \A p \in server'[d].access[s] : Granted(d, s, p)
  <2> SUFFICES ASSUME NEW d \in Clients, NEW s \in Sections, NEW p \in server'[d].access[s]
               PROVE  Granted(d, s, p)
    BY Zenon
  <2>1. CASE d = c
    BY <1>1, <1>4, <2>1, Zenon DEF AccessInv
  <2>2. CASE d # c
    BY <1>1, <2>2, Zenon DEF AccessInv
  <2> QED
    BY <2>1, <2>2, Zenon
<1>8. \A d, s, p : Granted(d, s, p)' = Granted(d, s, p)
  BY <1>2, GrantsStay, Zenon
<1>9. ExecutedIfGranted' /\ HeardIfGranted'
  BY <1>2, <1>8, Zenon DEF AccessInv, ExecutedIfGranted, HeardIfGranted
<1> QED
  BY <1>2, <1>6, <1>7, <1>8, <1>9, Zenon DEF AccessInv

\* Reading an answer or a signal changes no privilege.
LEMMA ReceiveAccess ==
  ASSUME AccessInv, Typed', NEW c \in Clients, Receive(c)
  PROVE  AccessInv'
<1> DEFINE e == Head(events[c])
<1>1. UNCHANGED <<config, account, server, executed>>
  BY Zenon DEF Receive
<1>2. /\ events[c] \in Seq(Event) /\ events[c] # <<>>
      /\ events' = [events EXCEPT ![c] = Tail(@)]
      /\ heard' = heard \cup Heard(c, e)
  BY Zenon DEF Receive, AccessInv, Typed
<1>3. e = events[c][1] /\ 1 \in DOMAIN events[c]
  BY <1>2, SMT, Z3
<1>4. \A d \in Clients : \A i \in DOMAIN events'[d] :
        \E j \in DOMAIN events[d] : events'[d][i] = events[d][j]
  <2> SUFFICES ASSUME NEW d \in Clients, NEW i \in DOMAIN events'[d]
               PROVE  \E j \in DOMAIN events[d] : events'[d][i] = events[d][j]
    BY Zenon
  <2>1. CASE d = c
    <3>1. events'[c] = Tail(events[c])
      BY <1>2, Zenon DEF AccessInv, Typed
    <3>2. i + 1 \in DOMAIN events[c] /\ Tail(events[c])[i] = events[c][i + 1]
      BY <1>2, <2>1, <3>1, TailElements, Zenon
    <3> QED
      BY <2>1, <3>1, <3>2, Zenon
  <2>2. CASE d # c
    BY <1>2, <2>2, Zenon DEF AccessInv, Typed
  <2> QED
    BY <2>1, <2>2
<1>5. \A d, s, p : Granted(d, s, p)' = Granted(d, s, p)
  BY <1>1, GrantsStay, Zenon
<1>6. HeardIfGranted'
  <2>1. \A x \in Heard(c, e) : Granted(x[1], x[2], "listen")
    BY <1>3, SMT, Z3 DEF Heard, AccessInv
  <2> QED
    BY <1>2, <1>5, <2>1, Zenon DEF AccessInv, HeardIfGranted
<1>7. ExecutedIfGranted'
  BY <1>1, <1>5, Zenon DEF AccessInv, ExecutedIfGranted
<1>8. \A d \in Clients : \A i \in DOMAIN events'[d] :
        events'[d][i].kind = "signal" => Granted(d, events'[d][i].section, "listen")
  <2> SUFFICES ASSUME NEW d \in Clients, NEW i \in DOMAIN events'[d],
                      events'[d][i].kind = "signal"
               PROVE  Granted(d, events'[d][i].section, "listen")
    BY Zenon
  <2>1. PICK j \in DOMAIN events[d] : events'[d][i] = events[d][j]
    BY <1>4, Zenon
  <2> QED
    BY <2>1, Zenon DEF AccessInv
<1> QED
  BY <1>1, <1>5, <1>6, <1>7, <1>8, Zenon DEF AccessInv

\* A request is executed only with the privilege it needs.
LEMMA ProcessAccess ==
  ASSUME AccessInv, Typed', NEW c \in Clients, NEW outcome \in {"value", "failed"},
         Process(c, outcome)
  PROVE  AccessInv'
<1> DEFINE q == Head(requests[c])
           kind == IF Permitted(c, q.method) THEN outcome ELSE "denied"
           e == Reply(kind, q.id)
<1>1. UNCHANGED <<config, account, server, heard>>
  BY Zenon DEF Process
<1>2. /\ requests[c] # <<>>
      /\ executed' = executed \cup {Handled(c, q, o) : o \in {kind} \ {"denied"}}
      /\ events' = [events EXCEPT ![c] = Sent(@, e)]
  BY Zenon DEF Process
<1>3. events[c] \in Seq(Event) /\ requests[c] \in Seq(Request)
  BY Zenon DEF AccessInv, Typed
<1>4. q \in Request
  BY <1>2, <1>3, HeadTyped, Zenon
<1>5. kind \in {outcome, "denied"} /\ (kind # "denied" => Permitted(c, q.method))
  BY Zenon
<1>6. e.kind = kind /\ e \in Event
  BY <1>4, <1>5, Zenon DEF Reply, Event, Answers, Request
<1> HIDE DEF q, kind, e
<1>7. \A d, s, p : Granted(d, s, p)' = Granted(d, s, p)
  BY <1>1, GrantsStay, Zenon
<1>8. ExecutedIfGranted'
  <2> SUFFICES ASSUME NEW x \in executed'
               PROVE  \/ Handlers[x.method][2] = "none"
                      \/ Granted(x.client, Handlers[x.method][1], Handlers[x.method][2])
    BY <1>7, Zenon DEF ExecutedIfGranted
  <2>1. CASE x \in executed
    BY <2>1, Zenon DEF AccessInv, ExecutedIfGranted
  <2>2. CASE x \notin executed
    <3>1. PICK o \in {kind} \ {"denied"} : x = Handled(c, q, o)
      BY <1>2, <2>2, Zenon
    <3>2. x.client = c /\ x.method = q.method /\ Permitted(c, q.method)
      BY <1>5, <3>1, Zenon DEF Handled
    <3>3. q.method \in Methods
      BY <1>4, Zenon DEF Request
    <3> QED
      BY <3>2, <3>3, HandlersNeed, HasPrivilegeGranted, Zenon DEF Permitted
  <2> QED
    BY <2>1, <2>2, Zenon
<1>9. \A d \in Clients : \A i \in DOMAIN events'[d] :
        events'[d][i].kind = "signal" => Granted(d, events'[d][i].section, "listen")
  <2> SUFFICES ASSUME NEW d \in Clients, NEW i \in DOMAIN events'[d],
                      events'[d][i].kind = "signal"
               PROVE  Granted(d, events'[d][i].section, "listen")
    BY Zenon
  <2>1. CASE d = c
    <3>1. events'[c] = Sent(events[c], e)
      BY <1>2, Zenon DEF AccessInv, Typed
    <3>2. events'[c][i] = e \/ (i \in DOMAIN events[c] /\ events'[c][i] = events[c][i])
      BY <1>3, <1>6, <2>1, <3>1, SMT, Z3 DEF Sent
    <3>3. e.kind # "signal"
      BY <1>5, <1>6, Zenon
    <3> QED
      BY <2>1, <3>2, <3>3, Zenon DEF AccessInv
  <2>2. CASE d # c
    BY <1>2, <2>2, Zenon DEF AccessInv, Typed
  <2> QED
    BY <2>1, <2>2, Zenon
<1>10. HeardIfGranted'
  BY <1>1, <1>7, Zenon DEF AccessInv, HeardIfGranted
<1> QED
  BY <1>1, <1>7, <1>8, <1>9, <1>10, Zenon DEF AccessInv

\* A signal goes only to the connections that may listen.
LEMMA BroadcastAccess ==
  ASSUME AccessInv, Typed', NEW s \in {"Devices", "Parameters", "Exceptions"}, Broadcast(s)
  PROVE  AccessInv'
<1>1. UNCHANGED <<config, account, server, executed, heard>>
  BY Zenon DEF Broadcast
<1>2. \A d, x, p : Granted(d, x, p)' = Granted(d, x, p)
  BY <1>1, GrantsStay, Zenon
<1>3. \A d \in Clients : \A i \in DOMAIN events'[d] :
        events'[d][i].kind = "signal" => Granted(d, events'[d][i].section, "listen")
  <2> SUFFICES ASSUME NEW d \in Clients, NEW i \in DOMAIN events'[d],
                      events'[d][i].kind = "signal"
               PROVE  Granted(d, events'[d][i].section, "listen")
    BY Zenon
  <2>1. events'[d] = IF Listens(d, s) THEN Sent(events[d], Signal(s)) ELSE events[d]
    BY Zenon DEF Broadcast
  <2>2. events[d] \in Seq(Event)
    BY Zenon DEF AccessInv, Typed
  <2>3. CASE Listens(d, s)
    <3>1. Granted(d, s, "listen")
      BY <2>3, HasPrivilegeGranted, Zenon DEF Listens, Sections, Privileges
    <3>2. Signal(s).section = s
      BY Zenon DEF Signal
    <3>3. events'[d][i] = Signal(s) \/ (i \in DOMAIN events[d] /\ events'[d][i] = events[d][i])
      BY <2>1, <2>2, <2>3, SMT, Z3 DEF Sent
    <3> QED
      BY <3>1, <3>2, <3>3, Zenon DEF AccessInv
  <2>4. CASE ~Listens(d, s)
    BY <2>1, <2>4, Zenon DEF AccessInv
  <2> QED
    BY <2>3, <2>4, Zenon
<1>4. ExecutedIfGranted' /\ HeardIfGranted'
  BY <1>1, <1>2, Zenon DEF AccessInv, ExecutedIfGranted, HeardIfGranted
<1> QED
  BY <1>1, <1>2, <1>3, <1>4, Zenon DEF AccessInv

\* The invariant, at first.
LEMMA AccessInit ==
  ASSUME Counting, Init
  PROVE  AccessInv
<1>1. Typed /\ config \in Configurations
  BY TypeInit, Zenon DEF Init
<1>2. server \in [Clients -> Connection]
  BY ClosedTyped, Zenon DEF Init
<1>3. ExecutedIfGranted /\ HeardIfGranted
  BY Zenon DEF Init, ExecutedIfGranted, HeardIfGranted
<1>4. \A c \in Clients, s \in Sections : server[c].access[s] = {}
  BY ClosedTyped, Zenon DEF Init
<1>5. \A c \in Clients : DOMAIN events[c] = {}
  <2>1. DOMAIN <<>> = {}
    BY SMT, Z3
  <2> QED
    BY <2>1, Zenon DEF Init
<1> QED
  BY <1>1, <1>2, <1>3, <1>4, <1>5, Zenon DEF AccessInv

\* Every step keeps the invariant.
LEMMA AccessStep == AccessInv /\ [Next]_vars => AccessInv'
<1> SUFFICES ASSUME AccessInv, [Next]_vars PROVE AccessInv'
  OBVIOUS
<1>1. Typed'
  BY TypeStep, Zenon DEF AccessInv
<1>2. ASSUME UNCHANGED <<config, account, server, events, executed, heard>> PROVE AccessInv'
  BY <1>1, <1>2, AccessQuiet, Zenon DEF AccessInv
<1>3. ASSUME NEW c \in Clients, NEW lookup \in BOOLEAN, Connect(c, lookup) PROVE AccessInv'
  BY <1>1, <1>3, ConnectAccess
<1>4. ASSUME NEW c \in Clients, NEW m \in Methods, BeginCall(c, m) PROVE AccessInv'
  BY <1>2, <1>4, Zenon DEF BeginCall
<1>5. ASSUME NEW c \in Clients, Caller(c) PROVE AccessInv'
  BY <1>2, <1>5, Zenon DEF Caller, Send, Timeout, GetValue, EraseSlot
<1>6. ASSUME NEW c \in Clients, Receive(c) PROVE AccessInv'
  BY <1>1, <1>6, ReceiveAccess
<1>7. ASSUME NEW c \in Clients, ReceiveUnexpected(c) \/ Disconnect(c) PROVE AccessInv'
  BY <1>1, <1>7, HangupQuiet, AccessQuiet, Zenon DEF ReceiveUnexpected, Disconnect
<1>8. ASSUME NEW c \in Clients, ReceiveError(c) PROVE AccessInv'
  BY <1>2, <1>8, Zenon DEF ReceiveError
<1>9. ASSUME NEW c \in Clients, NEW outcome \in {"value", "failed"}, Process(c, outcome)
      PROVE  AccessInv'
  BY <1>1, <1>9, ProcessAccess
<1>10. ASSUME NEW s \in {"Devices", "Parameters", "Exceptions"}, Broadcast(s) PROVE AccessInv'
  BY <1>1, <1>10, BroadcastAccess, Zenon
<1>11. CASE Stop
  <2>1. server' \in [Clients -> Connection] /\ \A c \in Clients : server'[c] = Closed
    BY <1>11, ClosedTyped, Zenon DEF Stop
  <2>2. \A c \in Clients : events'[c] = <<>>
    BY <1>11, Zenon DEF Stop
  <2>3. UNCHANGED <<config, account, executed, heard>>
    BY <1>11, Zenon DEF Stop
  <2> QED
    BY <1>1, <2>1, <2>2, <2>3, AccessQuiet, SMT, Z3, SMTT(20), Z3T(20)
<1>12. CASE UNCHANGED vars
  BY <1>2, <1>12, Zenon DEF vars
<1> QED
  BY <1>3, <1>4, <1>5, <1>6, <1>7, <1>8, <1>9, <1>10, <1>11, <1>12, Zenon DEF Next

-----------------------------------------------------------------------------
(* Counting *)

\* Facts about finite sets and induction
INSTANCE FiniteSetTheorems
INSTANCE WellFoundedInduction

\* A set of natural numbers that is not empty has a least element.
LEMMA LeastElement ==
  ASSUME NEW S \in SUBSET Nat, S # {}
  PROVE  \E i \in S : \A j \in S : i <= j
<1>1. IsWellFoundedOn(OpToRel(<, Nat), Nat)
  BY NatLessThanWellFounded, Zenon
<1>2. PICK x \in S : \A y \in S : ~(<<y, x>> \in OpToRel(<, Nat))
  BY <1>1, WFMin, Zenon
<1>3. \A y \in S : ~(y < x)
  BY <1>2, Zenon DEF OpToRel
<1> QED
  BY <1>3, SMT, Z3, SMTT(20), Z3T(20)

\* The facts that the invariants assume.
LEMMA CountingHolds == Counting
<1>1. \A S \in SUBSET Nat : S # {} => \E i \in S : \A j \in S : i <= j
  BY LeastElement, ZenonT(30)
<1>2. IsFiniteSet({}) /\ Cardinality({}) = 0
  BY FS_EmptySet, ZenonT(30)
<1>3. ASSUME NEW S, IsFiniteSet(S)
      PROVE  /\ Cardinality(S) \in Nat
             /\ \A T \in SUBSET S : IsFiniteSet(T)
             /\ \A x : /\ IsFiniteSet(S \cup {x})
                       /\ Cardinality(S \cup {x}) = IF x \in S THEN Cardinality(S)
                                                    ELSE Cardinality(S) + 1
  BY <1>3, FS_CardinalityType, FS_Subset, FS_AddElement, Zenon
<1> QED  BY <1>1, <1>2, <1>3, ZenonT(30) DEF Counting

-----------------------------------------------------------------------------
(* The theorems *)

\* Every call returns what became of its own request, leaves no slot behind, and
\* every connection is signalled to end once (IPCClientPrivate::qbIPCSendRecvMessage,
\* IPCServerPrivate::handleIPCPayload), whatever the numbers of clients, calls and
\* connections and the length of the queues.
THEOREM CallsAccountedFor == Spec => []CallsAccounted
<1>1. Init => CallsInv
  BY CallsInit, CountingHolds, Zenon
<1>2. CallsInv /\ [Next]_vars => CallsInv'
  BY CallsStep, Zenon
<1>3. CallsInv => CallsAccounted
  BY CallsInvSuffices, Zenon
<1> QED
  BY <1>1, <1>2, <1>3, PTL DEF Spec

\* Methods are executed and signals are given only as IPCAllowedUsers,
\* IPCAllowedGroups and the access control files say
\* (IPCServerPrivate::handleIPCPayload, qbIPCBroadcastData, matchACLByUID and the
\* others), for all files, accounts and groups and any number of clients.
THEOREM PrivilegesAreRespected == Spec => []PrivilegesRespected
<1>1. Init => AccessInv
  BY AccessInit, CountingHolds, Zenon
<1>2. AccessInv /\ [Next]_vars => AccessInv'
  BY AccessStep, Zenon
<1>3. AccessInv => PrivilegesRespected
  BY Zenon DEF AccessInv, PrivilegesRespected
<1> QED
  BY <1>1, <1>2, <1>3, PTL DEF Spec

=============================================================================
