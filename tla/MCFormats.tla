------------------------------ MODULE MCFormats ------------------------------
(***************************************************************************)
(* Instance of Formats.  Rule texts: one attribute of each kind and the    *)
(* two that name the place of a device; values with and without "*", valid *)
(* and invalid escapes.  Devices with equal, empty and unusual names, with *)
(* and without a serial number.  Descriptors of every type, of the wrong   *)
(* size, cut off, and of the wrong parent.  Bytes at the boundaries of     *)
(* both encodings.                                                         *)
(***************************************************************************)
EXTENDS Formats

MCAttributes == ToSet(AttributeOrder)
MCTextAttributes == {"id", "name", "via-port", "with-interface", "if", "label"}

MCIds == {<<"1d6b", "0002">>, <<"1d6b", "*">>, <<"*", "*">>, <<"*", "0002">>}

MCInterfaces == {<<"03", "01", "01">>, <<"03", "*", "*">>, <<"03", "*", "01">>}

MCLiterals == {<<"chr">>, <<"backslash", "quote">>, <<"backslash", "x", "hex", "hex">>,
               <<"backslash", "x", "hex">>, <<"backslash", "chr">>}

Cond(id, param, neg) == [id |-> id, param |-> param, neg |-> neg]

MCConditions == {Cond("localtime", "08:00", TRUE), Cond("localtime", "", FALSE),
                 Cond("true", "p", FALSE), Cond("rule-applied", "", FALSE),
                 Cond("rule-evaluated", "00:10", TRUE)}

Usb(id, serial, name, hash, port, interfaces) ==
  [a \in MCAttributes |->
     CASE a = "id" -> <<id>> [] a = "name" -> <<name>> [] a = "via-port" -> <<port>>
       [] a = "serial" -> <<serial>> [] a = "hash" -> <<hash>>
       [] a = "parent-hash" -> <<<<"hex", "hex">>>>
       [] a = "with-connect-type" -> <<IF serial = <<>> THEN <<>> ELSE <<"chr">>>>
       [] a = "with-interface" -> interfaces [] OTHER -> <<>>]

MCDevices ==
  {Usb(<<"1d6b", "0002">>, <<>>, <<>>, <<"hex">>, <<"chr">>,
       <<<<"03", "01", "01">>, <<"03", "00", "00">>>>),
   Usb(<<"1d6b", "0001">>, <<"quote">>, <<"quote", "ctl", "hex">>, <<"hex", "chr">>,
       <<"chr", "chr">>,
       <<<<"03", "01", "01">>, <<"08", "06", "50">>, <<"03", "01", "01">>>>),
   Usb(<<"dead", "0002">>, <<"chr">>, <<"chr", "backslash", "backslash", "x", "hex">>,
       <<"chr", "hex">>, <<"chr">>, <<>>),
   Usb(<<"1d6b", "0002">>, <<>>, <<"ctl">>, <<"hex">>, <<"hex">>, <<<<"03", "01", "01">>>>)}

Desc(type, length, available, content) ==
  [type |-> type, length |-> length, available |-> available, content |-> content]

DeviceContent(id, version) == [id |-> id, bcdDevice |-> version]

MCDescriptors ==
  {Desc("device", 18, 18, DeviceContent("linux-root-hub", 0)),
   Desc("device", 18, 18, DeviceContent("linux-root-hub", 1)),
   Desc("device", 18, 18, DeviceContent("other", 1)),
   Desc("device", 17, 17, DeviceContent("other", 0)),
   Desc("configuration", 9, 9, "c"), Desc("configuration", 9, 8, "c"),
   Desc("interface", 9, 9, "i"), Desc("interface", 9, 9, "j"), Desc("interface", 8, 8, "i"),
   Desc("endpoint", 7, 7, "e"), Desc("endpoint", 9, 9, "e"), Desc("endpoint", 8, 8, "e"),
   Desc("other", 5, 5, "o"), Desc("other", 1, 1, "o"), Desc("other", 0, 2, "o")}

MCBytes == {0, 3, 32, 34, 63, 64, 65, 127, 128, 240, 255}

Nl == <<"nl">>
MCConfigFiles ==
  {<<"a", "=", "1">> \o Nl \o <<"b", " ", "=", "1">>,
   <<"#", "a", "=">> \o Nl \o <<"a", "=">> \o Nl \o Nl \o <<"b", "=", "2", "=", " ">> \o Nl,
   <<"a", "=", "1">> \o Nl \o <<"b", "=", "1">> \o Nl \o <<"a", "=", "2">>,
   <<"a", "1">>, <<"=", "1">>, <<"c", "=", "1">> \o Nl, <<" ">>, <<>>}

MCKnownNames == {<<"a">>, <<"b">>}
MCSettingValues == {<<>>, <<"1">>, <<"2", "=", "1">>}

MCNSSwitchFiles ==
  {<<"usbguard", ":", " ", "ldap">>, <<"usbguard", " ", ":", "ldap", "files">> \o Nl,
   <<"passwd", ":", "files">> \o Nl \o <<"usbguard", ":", "ldap", "tab">> \o Nl \o
     <<"usbguard", ":", "files">>,
   <<"usbguard", ":">> \o Nl \o <<"usbguard", ":", "ldap">>,
   <<"#", "usbguard", ":", "ldap">>, <<"usbguard", "ldap">>}

LDAPLine(key) == <<key, " ", "v">> \o Nl
MCLDAPFiles ==
  LET all == LDAPLine("uri") \o LDAPLine("base") \o LDAPLine("rootdn") \o LDAPLine("rootpw")
  IN  {all, all \o <<"updateinterval", " ", "number">>, all \o LDAPLine("updateinterval"),
       all \o LDAPLine("other"), <<"#">> \o all, <<"uri", " ">> \o Nl \o all, <<>>}

MCGrants == {<<>>, <<<<"Devices", <<"list">>>>, <<"Devices", <<"modify", "listen">>>>>>,
             <<<<"Policy", <<"ALL">>>>, <<"Exceptions", <<"listen">>>>>>,
             <<<<"Policy", <<"list">>>>, <<"Exceptions", <<"modify">>>>>>}

Node(id, hash, parent) == [id |-> id, hash |-> hash, parent |-> parent]
MCListable == {Node(1, "hub", "pci"), Node(2, "disk", "hub"), Node(3, "hub2", "hub"),
               Node(4, "key", "hub2"), Node(5, "hub", "hub"), Node(6, "other", "pci2")}

MCInherited == <<<<"PATH", "p">>, <<"USBGUARD_MESSAGE", "m">>>>

MCUserName == [x \in {} |-> ""]
=============================================================================
