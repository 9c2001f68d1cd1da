--------------------------------- MODULE IPC ---------------------------------
(***************************************************************************)
(* The IPC interface: the server in the daemon (IPCServerPrivate), and in  *)
(* every client process one connection (IPCClientPrivate) with a thread    *)
(* that calls methods and the client thread that receives.                 *)
(*                                                                         *)
(* libqb carries requests to the server and events (responses, exceptions, *)
(* signals) to the client in two queues per connection; a send to a full   *)
(* queue or on a closed connection fails, which both sides ignore.  What a *)
(* method does to the policy or to a device is left to the other modules.  *)
(***************************************************************************)
EXTENDS AccessControl, FiniteSets

CONSTANTS
  Clients,
  Accounts,        \* the [uid, gid] that a client may run with
  Configurations,  \* the configurations of the daemon (AccessControl)
  Methods,         \* the methods that are called
  MaxCalls, MaxSignals, MaxConnects, MaxStops,   \* bounds on what happens
  QueueSize        \* the capacity of a queue

VARIABLES
  config,     \* the configuration of this daemon
  account,    \* [Clients -> Accounts]
  server,     \* [Clients -> the connection in the server]
  requests,   \* [Clients -> the requests in the queue]
  events,     \* [Clients -> the events in the queue]
  linked,     \* the clients whose _qb_conn is set
  call,       \* [Clients -> the call that the calling thread is in]
  slots,      \* [Clients -> _return_map, a set of [id, value]]
  executed,   \* the requests that the server executed, with their outcome
  results,    \* what the calls returned
  heard,      \* the signals that clients were given
  count       \* connects and disconnects of each client; signals and stops

vars == <<config, account, server, requests, events, linked, call, slots, executed,
          results, heard, count>>

NoCall == [pc |-> "idle", id |-> 0, method |-> "none", out |-> "none"]
Closed == [open |-> FALSE, access |-> NoAccess]
NoValue == "none"

\* registerHandler: the privilege that each method needs
Handlers ==
  [appendRule |-> <<"Policy", "modify">>, removeRule |-> <<"Policy", "modify">>,
   listRules |-> <<"Policy", "list">>, applyDevicePolicy |-> <<"Devices", "modify">>,
   listDevices |-> <<"Devices", "list">>, setParameter |-> <<"Parameters", "modify">>,
   getParameter |-> <<"Parameters", "list">>, checkIPCPermissions |-> <<"ALL", "none">>]

\* tokenizeString leaves no empty name in a setting
ASSUME ConstantsAssumption ==
  /\ Methods \subseteq DOMAIN Handlers
  /\ {MaxCalls, MaxSignals, MaxConnects, MaxStops, QueueSize} \subseteq Nat
  /\ \A c \in Configurations :
       DOMAIN c.files \subseteq Nat /\ "" \notin c.users \cup c.groups

Signal(s) == [kind |-> "signal", id |-> 0, section |-> s]
Reply(kind, id) == [kind |-> kind, id |-> id, section |-> "none"]

\* qb_ipcs_event_sendv: what is in the queue afterwards
Sent(queue, message) == IF Len(queue) < QueueSize THEN Append(queue, message) ELSE queue

-----------------------------------------------------------------------------
(* The client *)

\* IPCClientPrivate::disconnect: IPCDisconnected is called if there was a connection
Disconnected(st) ==
  IF st.linked THEN [linked |-> FALSE, signalled |-> st.signalled + 1] ELSE st

ClientLink(c) == [linked |-> c \in linked, signalled |-> count.disconnects[c]]

SetLink(c, st) ==
  /\ linked' = IF st.linked THEN linked \cup {c} ELSE linked \ {c}
  /\ count' = [count EXCEPT !.disconnects[c] = st.signalled]

\* libqb notices on the server's side that the client has closed its end
Hangup(c) ==
  /\ server' = [server EXCEPT ![c] = Closed]
  /\ requests' = [requests EXCEPT ![c] = <<>>]
  /\ events' = [events EXCEPT ![c] = <<>>]

\* IPCServerPrivate::qbIPCConnectionAcceptFn: the access of the new connection, or
\* none if it is refused
Accepted(c, lookup) ==
  LET map == LoadMaps(config)
      keys == MatchedKeys(map, account[c].uid, account[c].gid, lookup)
  IN  IF ConnectionAllowed(map, keys) THEN {MergedAccess(map, keys)} ELSE {}

\* IPCClientPrivate::connect; only an idle client connects
Connect(c, lookup) ==
  /\ c \notin linked /\ call[c].pc = "idle" /\ ~server[c].open
  /\ count.connects[c] < MaxConnects
  /\ \E access \in Accepted(c, lookup) :
       server' = [server EXCEPT ![c] = [open |-> TRUE, access |-> access]]
  /\ linked' = linked \cup {c}
  /\ count' = [count EXCEPT !.connects[c] = @ + 1]
  /\ UNCHANGED <<config, account, requests, events, call, slots, executed, results, heard>>

\* IPCClientPrivate::qbIPCSendRecvMessage up to the check of the connection
BeginCall(c, m) ==
  /\ call[c].pc = "idle" /\ Cardinality({r \in results : r.client = c}) < MaxCalls
  /\ c \in linked
  /\ call' = [call EXCEPT ![c] = [pc |-> "send", id |-> 0, method |-> m, out |-> "none"]]
  /\ UNCHANGED <<config, account, server, requests, events, linked, slots, executed,
                 results, heard, count>>

\* generateMessageID, the slot and qb_ipcc_sendv, under _return_mutex
Send(c) ==
  LET id == Cardinality({r \in results : r.client = c}) + 1
  IN  /\ call[c].pc = "send"
      /\ call' = [call EXCEPT ![c].pc = "wait", ![c].id = id]
      /\ slots' = [slots EXCEPT ![c] = @ \cup {[id |-> id, value |-> NoValue]}]
      /\ requests' = [requests EXCEPT ![c] =
           IF c \in linked /\ server[c].open
           THEN Sent(@, [id |-> id, method |-> call[c].method]) ELSE @]
      /\ UNCHANGED <<config, account, server, events, linked, executed, results, heard, count>>

\* Mutation: the wait has no time limit while there is a connection
TimeoutIfUnlinked(c) ==
  /\ call[c].pc = "wait" /\ c \notin linked
  /\ [id |-> call[c].id, value |-> NoValue] \in slots[c]
  /\ call' = [call EXCEPT ![c].pc = "erase", ![c].out = "timeout"]
  /\ UNCHANGED <<config, account, server, requests, events, linked, slots, executed,
                 results, heard, count>>

\* future.wait_for runs into its time limit
Timeout(c) ==
  /\ call[c].pc = "wait"
  /\ [id |-> call[c].id, value |-> NoValue] \in slots[c]
  /\ call' = [call EXCEPT ![c].pc = "erase", ![c].out = "timeout"]
  /\ UNCHANGED <<config, account, server, requests, events, linked, slots, executed,
                 results, heard, count>>

\* future.get
GetValue(c) ==
  /\ call[c].pc = "wait"
  /\ \E slot \in slots[c] :
       /\ slot.id = call[c].id /\ slot.value # NoValue
       /\ call' = [call EXCEPT ![c].pc = "erase", ![c].out = slot.value]
  /\ UNCHANGED <<config, account, server, requests, events, linked, slots, executed,
                 results, heard, count>>

Erased(c) == {slot \in slots[c] : slot.id # call[c].id}

\* The slot is removed, and the call returns or throws
EraseSlot(c) ==
  /\ call[c].pc = "erase"
  /\ slots' = [slots EXCEPT ![c] = Erased(c)]
  /\ results' = results \cup {[client |-> c, id |-> call[c].id, method |-> call[c].method,
                               out |-> call[c].out]}
  /\ call' = [call EXCEPT ![c] = NoCall]
  /\ UNCHANGED <<config, account, server, requests, events, linked, executed, heard, count>>

\* Mutation: a reply is taken for the call that waits, whatever its ID
WaitingSlotAnyID(c, event) ==
  {slot \in slots[c] : event.kind # "signal" /\ slot.value = NoValue}

\* handleMethodResponse and handleException: the slot of the reply, if it waits
WaitingSlot(c, event) == {slot \in slots[c] : slot.id = event.id /\ slot.value = NoValue}

\* handleDevicePresenceChangedSignal and the other handlers of signals
Heard(c, event) == IF event.kind = "signal" THEN {<<c, event.section>>} ELSE {}

\* IPCClientPrivate::processReceiveEvent with an event: a reply fulfils its
\* promise, a signal goes to its callback
Receive(c) ==
  /\ c \in linked /\ events[c] # <<>>
  /\ LET event == Head(events[c])
         slot == WaitingSlot(c, event)
     IN  /\ event.kind = "signal" \/ slot # {}
         /\ slots' = [slots EXCEPT ![c] =
              (@ \ slot) \cup {[id |-> s.id, value |-> event.kind] : s \in slot}]
         /\ heard' = heard \cup Heard(c, event)
  /\ events' = [events EXCEPT ![c] = Tail(@)]
  /\ UNCHANGED <<config, account, server, requests, linked, call, executed, results, count>>

\* A reply that nobody waits for is an exception, which disconnects
ReceiveUnexpected(c) ==
  /\ c \in linked /\ events[c] # <<>>
  /\ Head(events[c]).kind # "signal" /\ WaitingSlot(c, Head(events[c])) = {}
  /\ SetLink(c, Disconnected(ClientLink(c)))
  /\ Hangup(c)
  /\ UNCHANGED <<config, account, call, slots, executed, results, heard>>

\* IPCClientPrivate::receive fails because the server has closed the connection:
\* it disconnects and throws, and processReceiveEvent disconnects once more
ReceiveError(c) ==
  /\ c \in linked /\ ~server[c].open
  /\ SetLink(c, Disconnected(Disconnected(ClientLink(c))))
  /\ UNCHANGED <<config, account, server, requests, events, call, slots, executed, results, heard>>

\* The application calls IPCClient::disconnect
Disconnect(c) ==
  /\ c \in linked
  /\ SetLink(c, Disconnected(ClientLink(c)))
  /\ Hangup(c)
  /\ UNCHANGED <<config, account, call, slots, executed, results, heard>>

-----------------------------------------------------------------------------
(* The server *)

\* The check in IPCServerPrivate::handleIPCPayload
Permitted(c, m) == HasPrivilege(server[c].access, Handlers[m][1], Handlers[m][2])

\* handleAppendRule, handleRemoveRule, ...: the method of the daemon returns a value or
\* throws
Handled(c, request, outcome) ==
  [client |-> c, id |-> request.id, method |-> request.method, outcome |-> outcome]

\* IPCServerPrivate::qbIPCMessageProcessFn and handleIPCPayload: the method is
\* executed, or the client is sent the exception
Process(c, outcome) ==
  /\ server[c].open /\ requests[c] # <<>>
  /\ LET request == Head(requests[c])
         kind == IF Permitted(c, request.method) THEN outcome ELSE "denied"
     IN  /\ executed' = executed \cup {Handled(c, request, o) : o \in {kind} \ {"denied"}}
         /\ events' = [events EXCEPT ![c] = Sent(@, Reply(kind, request.id))]
  /\ requests' = [requests EXCEPT ![c] = Tail(@)]
  /\ UNCHANGED <<config, account, server, linked, call, slots, results, heard, count>>

Listens(c, s) == server[c].open /\ HasPrivilege(server[c].access, s, "listen")

\* IPCServerPrivate::qbIPCBroadcastMessage, called by any thread of the daemon
Broadcast(s) ==
  /\ count.signals < MaxSignals
  /\ events' = [c \in Clients |-> IF Listens(c, s) THEN Sent(events[c], Signal(s))
                                  ELSE events[c]]
  /\ count' = [count EXCEPT !.signals = @ + 1]
  /\ UNCHANGED <<config, account, server, requests, linked, call, slots, executed, results, heard>>

\* The daemon stops, or crashes, and is started again
Stop ==
  /\ count.stops < MaxStops
  /\ server' = [c \in Clients |-> Closed]
  /\ requests' = [c \in Clients |-> <<>>] /\ events' = [c \in Clients |-> <<>>]
  /\ count' = [count EXCEPT !.stops = @ + 1]
  /\ UNCHANGED <<config, account, linked, call, slots, executed, results, heard>>

-----------------------------------------------------------------------------

Init ==
  /\ config \in Configurations /\ account \in [Clients -> Accounts]
  /\ server = [c \in Clients |-> Closed]
  /\ requests = [c \in Clients |-> <<>>] /\ events = [c \in Clients |-> <<>>]
  /\ linked = {}
  /\ call = [c \in Clients |-> NoCall] /\ slots = [c \in Clients |-> {}]
  /\ executed = {} /\ results = {} /\ heard = {}
  /\ count = [connects |-> [c \in Clients |-> 0], disconnects |-> [c \in Clients |-> 0],
              signals |-> 0, stops |-> 0]

Caller(c) == Send(c) \/ Timeout(c) \/ GetValue(c) \/ EraseSlot(c)

Next ==
  \/ \E c \in Clients :
       \/ \E lookup \in BOOLEAN : Connect(c, lookup)
       \/ \E m \in Methods : BeginCall(c, m)
       \/ Caller(c) \/ Receive(c) \/ ReceiveUnexpected(c) \/ ReceiveError(c) \/ Disconnect(c)
       \/ \E outcome \in {"value", "failed"} : Process(c, outcome)
  \/ \E s \in {"Devices", "Parameters", "Exceptions"} : Broadcast(s)
  \/ Stop

Spec == Init /\ [][Next]_vars

\* The calling thread runs on, and the clock of its wait does
FairSpec == Spec /\ \A c \in Clients : WF_vars(Caller(c))

-----------------------------------------------------------------------------
(* Properties *)

\* Types of the state; an access never has more than its sections offer.
TypeOK ==
  /\ \A c \in Clients :
       /\ \A s \in Sections : server[c].access[s] \subseteq Available(s)
       /\ Len(requests[c]) <= QueueSize /\ Len(events[c]) <= QueueSize
       /\ call[c].pc \in {"idle", "send", "wait", "erase"}
       /\ call[c].out \in {"none", "value", "failed", "denied", "timeout"}
  /\ linked \subseteq Clients

\* usbguard-daemon.conf(5), "IPC ACCESS CONTROL": the names that stand for a client
NamesUser(user, c) == user # "" /\ user \in {account[c].uid, UserName[account[c].uid]}
NamesGroup(group, c) ==
  /\ group # ""
  /\ \/ group \in {account[c].gid, GroupName[account[c].gid]}
     \/ UserName[account[c].uid] \in Members[group]

\* Does IPCAllowedUsers or IPCAllowedGroups name a client?
Configured(c) ==
  \/ \E user \in config.users : NamesUser(user, c)
  \/ \E group \in config.groups : NamesGroup(group, c)

\* Does a valid file that names a client give it the privilege?
GrantedByFile(file, c, s, p) ==
  /\ NamesUser(file.user, c) \/ NamesGroup(file.group, c)
  /\ LinesValid(file.lines)
  /\ \E j \in DOMAIN file.lines :
       LET line == file.lines[j]
       IN  line[1] \in {s, "ALL"} /\ \E k \in DOMAIN line[2] : line[2][k] \in {p, "ALL"}

Granted(c, s, p) ==
  Configured(c) \/ \E i \in DOMAIN config.files : GrantedByFile(config.files[i], c, s, p)

\* A method is executed only for a client that the configuration names or a file gives
\* the privilege to (registerHandler, handleIPCPayload, the merging of access controls).
ExecutedIfGranted ==
  \A x \in executed : LET need == Handlers[x.method] IN
    need[2] = "none" \/ Granted(x.client, need[1], need[2])

\* A signal reaches only a client that the configuration names or a file gives the
\* privilege to listen (qbIPCBroadcastData).
HeardIfGranted == \A x \in heard : Granted(x[1], x[2], "listen")

\* A call returns what became of its own request: a value or an exception of the
\* method if this request was executed with that outcome, and "permission denied"
\* only if it was not executed.  Only after a timeout the caller does not know.
ResultsTrue ==
  \A r \in results :
    LET runs == {x \in executed : x.client = r.client /\ x.id = r.id}
    IN  /\ Cardinality(runs) <= 1
        /\ r.out \in {"value", "failed"} =>
             \E x \in runs : x.outcome = r.out /\ x.method = r.method
        /\ r.out = "denied" => runs = {}

\* Between calls _return_map is empty: no path of qbIPCSendRecvMessage leaves a
\* slot behind for a late reply.
SlotsReleased == \A c \in Clients : call[c].pc = "idle" => slots[c] = {}

\* Methods are executed and signals are sent only as IPCAllowedUsers, IPCAllowedGroups
\* and the access control files say (IPCServerPrivate::handleIPCPayload,
\* qbIPCBroadcastData).
PrivilegesRespected == ExecutedIfGranted /\ HeardIfGranted

\* IPCDisconnected is called exactly once for every connection that ends, also when
\* receive and processReceiveEvent both disconnect.
DisconnectedOnce ==
  \A c \in Clients :
    count.connects[c] = count.disconnects[c] + (IF c \in linked THEN 1 ELSE 0)

\* A call returns what became of its own request and leaves no slot behind that a
\* late reply could fill, and every connection is signalled to end once
\* (IPCClientPrivate::qbIPCSendRecvMessage, disconnect).
CallsAccounted == ResultsTrue /\ SlotsReleased /\ DisconnectedOnce

\* Every call returns, also if its request or its reply is lost or the connection
\* ends meanwhile.
EveryCallReturns == \A c \in Clients : call[c].pc # "idle" ~> call[c].pc = "idle"
=============================================================================
