---------------------------- MODULE DeviceObject ----------------------------
(***************************************************************************)
(* The construction of a Device object from what sysfs says of the device: *)
(* DeviceBase::DeviceBase, which reads the attributes, waits for the       *)
(* connect type, and runs the USB descriptor parser over the descriptors,  *)
(* collecting the interface types and the data that is hashed.             *)
(*                                                                         *)
(* A descriptor in the stream is a record of its type, its bLength, the    *)
(* bytes that are there of it (fewer than bLength only at the end of the   *)
(* stream), and its content.  The hash is the sequence of what is hashed.  *)
(***************************************************************************)
EXTENDS Integers, Sequences, SequencesExt

CONSTANTS
  Descriptors,       \* the descriptors that may be in the stream
  MaxDescriptors,    \* bound on their number
  AuthorizedValues   \* what the attribute "authorized" may hold

HeaderSize == 2

\* The sizes that parseUSBDescriptor accepts, by type
DescriptorSizes ==
  [device |-> {18}, configuration |-> {9}, interface |-> {9}, endpoint |-> {7, 9}]

DescriptorTypes == DOMAIN DescriptorSizes

ASSUME DescriptorsAssumption ==
  /\ \A d \in Descriptors : /\ d.length \in 0 .. 255 /\ d.available \in 1 .. 255
                            /\ d.length >= HeaderSize => d.available <= d.length
  /\ MaxDescriptors \in Nat

VARIABLES
  device,    \* the Device object
  stream     \* the descriptors that were read

deviceVars == <<device, stream>>

NewDevice ==
  [pc |-> "attributes", port |-> "none", target |-> "invalid", retry |-> 0,
   connectType |-> "", have |-> {}, count |-> [t \in DescriptorTypes |-> 0],
   size |-> 0, interfaces |-> <<>>, hash |-> <<>>]

Failed == [NewDevice EXCEPT !.pc = "failed"]

-----------------------------------------------------------------------------

\* A part that cannot be read, is too long or, for the IDs, is empty raises an
\* exception.  An unexpected value of "authorized" counts as blocked.
ReadAttributes(port, authorized, valid) ==
  /\ device.pc = "attributes"
  /\ device' = IF ~valid THEN Failed
               ELSE [device EXCEPT !.port = port,
                       !.target = IF authorized = "1" THEN "allow" ELSE "block",
                       !.pc = IF port = "controller" THEN "descriptors" ELSE "connect"]
  /\ UNCHANGED stream

MaxRetries == 30

\* The connect type may not be there yet.  After the last try the device has none.
ReadConnectType(value) ==
  /\ device.pc = "connect"
  /\ device' = IF value = "" /\ device.retry + 1 < MaxRetries
               THEN [device EXCEPT !.retry = @ + 1]
               ELSE [device EXCEPT !.pc = "descriptors", !.connectType = value, !.retry = 0]
  /\ UNCHANGED stream

\* USBDescriptorParserHooks::parseUSBDescriptor
ExpectedSize(d) ==
  d.type \in DescriptorTypes => d.length \in DescriptorSizes[d.type]

IsLinuxRootHub(d) == d.type = "device" /\ d.content.id = "linux-root-hub"

\* Mutation: only the known descriptors are hashed
HashKnownOnly(h, d) ==
  IF d.type \in DescriptorTypes THEN Append(h, d) ELSE h

\* DeviceBase::parseUSBDescriptor.  The version of the kernel in the descriptor of
\* a root hub is left out.  The name, the ID and the serial number, which
\* DevicePrivate::initializeHash puts before the descriptors without separators, are
\* not part of the model: h is what follows them.
UpdateHash(h, d) ==
  Append(h, IF IsLinuxRootHub(d) THEN [d EXCEPT !.content.bcdDevice = 0] ELSE d)

\* The exceptions of loadDeviceDescriptor, loadConfigurationDescriptor,
\* loadInterfaceDescriptor and loadEndpointDescriptor
HasParentDescriptor(have, d) ==
  CASE d.type = "device"        -> "device" \notin have
    [] d.type = "configuration" -> "device" \in have
    [] d.type = "interface"     -> "configuration" \in have
    [] d.type = "endpoint"      -> "interface" \in have
    [] OTHER                    -> TRUE

\* Mutation: a configuration does not end the interfaces of the one before
LoadDescriptorKeepsState(dev, d) ==
  CASE d.type = "device"    -> [dev EXCEPT !.interfaces = <<>>]
    [] d.type = "interface" -> [dev EXCEPT !.interfaces = Append(@, d.content)]
    [] OTHER                -> dev

\* Their effect otherwise
LoadDescriptor(dev, d) ==
  CASE d.type = "device"        -> [dev EXCEPT !.interfaces = <<>>]
    [] d.type = "configuration" -> [dev EXCEPT !.have = @ \ {"interface", "endpoint"}]
    [] d.type = "interface"     -> [dev EXCEPT !.interfaces = Append(@, d.content)]
    [] OTHER                    -> dev

\* USBDescriptorParser::setDescriptor
SetDescriptor(dev, d) ==
  [dev EXCEPT !.have = @ \cup {d.type},
              !.count = [t \in DOMAIN @ |-> IF t = d.type THEN @[t] + 1 ELSE @[t]],
              !.size = @ + d.length]

\* One round of USBDescriptorParser::parse
Parsed(dev, d) ==
  IF \/ d.available < HeaderSize \/ d.length < HeaderSize \/ d.available < d.length
     \/ ~ExpectedSize(d) \/ ~HasParentDescriptor(dev.have, d)
  THEN Failed
  ELSE SetDescriptor(LoadDescriptor([dev EXCEPT !.hash = UpdateHash(@, d)], d), d)

ReadDescriptor(d) ==
  /\ device.pc = "descriptors" /\ Len(stream) < MaxDescriptors
  /\ device' = Parsed(device, d)
  /\ stream' = Append(stream, d)

MinimalSize == 18   \* sizeof(USBDeviceDescriptor)

EndOfStream ==
  /\ device.pc = "descriptors"
  /\ device' = IF device.size < MinimalSize THEN Failed ELSE [device EXCEPT !.pc = "built"]
  /\ UNCHANGED stream

DeviceInit == device = NewDevice /\ stream = <<>>

DeviceNext ==
  \/ \E port \in {"controller", "port"}, a \in AuthorizedValues, valid \in BOOLEAN :
       ReadAttributes(port, a, valid)
  \/ \E value \in {"", "hotplug"} : ReadConnectType(value)
  \/ \E d \in Descriptors : ReadDescriptor(d)
  \/ EndOfStream

-----------------------------------------------------------------------------
(* Properties *)

\* The part of the stream before position n that is of one type
Before(n, type) == {i \in 1 .. n - 1 : stream[i].type = type}

\* What a stream of descriptors should look like: the descriptors are complete
\* and of the size of their type, there is one device descriptor, it comes before
\* every configuration, an interface is part of a configuration, and an endpoint
\* is part of an interface of the same configuration.
WellFormed ==
  \A n \in DOMAIN stream :
    LET d == stream[n]
    IN  /\ d.available = d.length
        /\ d.type = "device" => d.length = 18 /\ Before(n, "device") = {}
        /\ d.type = "configuration" => d.length = 9 /\ Before(n, "device") # {}
        /\ d.type = "interface" => d.length = 9 /\ Before(n, "configuration") # {}
        /\ d.type = "endpoint" =>
             /\ d.length \in {7, 9}
             /\ \E i \in Before(n, "interface") :
                  \A j \in Before(n, "configuration") : j < i

\* A device object is built only from a stream of descriptors that is well
\* formed, with exactly the interface types of the stream, of every
\* configuration and in their order (USBDescriptorParser::parse and the load
\* functions of DevicePrivate; comment: "Checking the sanity of the parsed
\* descriptor data is up to the higher layers").
InterfacesComplete ==
  device.pc = "built" =>
    /\ WellFormed
    /\ LET interfaces == SelectSeq(stream, LAMBDA d : d.type = "interface")
       IN  device.interfaces = [i \in DOMAIN interfaces |-> interfaces[i].content]

\* What the same device says under another version of the kernel
OtherKernel(d) ==
  IF d.type = "device" /\ d.content.id = "linux-root-hub"
  THEN [d EXCEPT !.content.bcdDevice = 1 - @] ELSE d

\* The hash of a device stands for its descriptors: what was hashed after the name,
\* the ID and the serial number is a stream from which the same object is built, so
\* devices that agree in these and in the hash have the same interface types; and the
\* hash of a root hub is the same under another version of the kernel (DeviceBase::parseUSBDescriptor,
\* updateHashLinuxRootHubDeviceDescriptor).
HashStandsForDevice ==
  device.pc = "built" =>
    LET start == [NewDevice EXCEPT !.pc = "descriptors"]
        again == FoldLeft(Parsed, start, device.hash)
        later == FoldLeft(Parsed, start, [n \in DOMAIN stream |-> OtherKernel(stream[n])])
    IN  /\ again.interfaces = device.interfaces /\ again.size = device.size
        /\ again.count = device.count
        /\ later.hash = device.hash
=============================================================================
