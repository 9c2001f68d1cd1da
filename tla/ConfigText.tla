----------------------------- MODULE ConfigText -----------------------------
(***************************************************************************)
(* The configuration file: reading it into lines and settings, changing a  *)
(* setting, and writing the lines over the file, which is not truncated.   *)
(* nsswitch.conf and usbguard-ldap.conf are read by the same parser.       *)
(*                                                                         *)
(* A text is a sequence of characters; "nl" ends a line.  Letters of either *)
(* case are the same character: the names in it are always spelled alike.  *)
(***************************************************************************)
EXTENDS Naturals, Sequences, SequencesExt

CONSTANTS
  ConfigFiles,     \* the texts that a file may have
  KnownNames,      \* the names of settings, as sequences of characters
  SettingValues,   \* the values that settings are given; without white space
                   \* at their ends and without "nl"
  NSSwitchFiles,   \* the texts that nsswitch.conf may have
  LDAPFiles        \* the texts that usbguard-ldap.conf may have

VARIABLES
  configFile,   \* the text on the disk
  config,       \* the ConfigFile object
  rules         \* where the daemon takes its rules from, and the two files

configVars == <<configFile, config>>

Spaces == {" ", "tab", "nl"}

-----------------------------------------------------------------------------
(* Parsing *)

\* Utility::trim
Trim(s) ==
  LET ends == {i \in DOMAIN s : s[i] \notin Spaces}
      first == CHOOSE i \in ends : \A j \in ends : i <= j
      last == CHOOSE i \in ends : \A j \in ends : j <= i
  IN  IF ends = {} THEN <<>> ELSE SubSeq(s, first, last)

\* std::getline, until the end of the text; the last line may lack its end
Lines(text) ==
  LET step(ls, c) == IF c = "nl" THEN Append(ls, <<>>)
                     ELSE [ls EXCEPT ![Len(ls)] = Append(@, c)]
      split == FoldLeft(step, <<<<>>>>, text)
  IN  IF split[Len(split)] = <<>> THEN Front(split) ELSE split

Find(s, c) == {i \in DOMAIN s : s[i] = c /\ \A j \in 1 .. i - 1 : s[j] # c}

\* Is the line read at all?
Counts(line) == line # <<>> /\ line[1] # "#"

\* KeyValueParser::parseLine, with the keys that are valid; {} if any key is.  The
\* result is a set of one pair, or {} for an exception.
ParseLine(line, separator, keys) ==
  {p \in {[key |-> Trim(SubSeq(line, 1, i - 1)), value |-> Trim(SubSeq(line, i + 1, Len(line)))] :
            i \in Find(line, separator)} : keys = {} \/ p.key \in keys}

ParsedConfigLine(line) == ParseLine(line, "=", KnownNames)

\* ConfigFilePrivate::parse: of several settings of a name the last counts.
\* A line that is not valid raises an exception.
ParseConfig(text) ==
  LET lines == Lines(text)
      counted == {n \in DOMAIN lines : Counts(lines[n])}
      parsed(n) == CHOOSE p \in ParsedConfigLine(lines[n]) : TRUE
      last(name) == CHOOSE n \in counted :
                      /\ parsed(n).key = name
                      /\ \A m \in counted : parsed(m).key = name => m <= n
  IN  IF \E n \in counted : ParsedConfigLine(lines[n]) = {} THEN {}
      ELSE {[lines |-> lines,
             settings |-> [name \in {parsed(n).key : n \in counted} |->
                             [value |-> parsed(last(name)).value, line |-> last(name)]]]}

-----------------------------------------------------------------------------
(* The configuration file object *)

NotOpened == [pc |-> "closed", readonly |-> TRUE, dirty |-> FALSE, lines |-> <<>>,
           settings |-> <<>>]

\* ConfigFilePrivate::open; without a file, or if it is not valid, an exception
Open(readonly) ==
  /\ config.pc = "closed"
  /\ config' = IF ParseConfig(configFile) = {} THEN [config EXCEPT !.pc = "failed"]
               ELSE LET parsed == CHOOSE p \in ParseConfig(configFile) : TRUE
                    IN  [pc |-> "open", readonly |-> readonly, dirty |-> FALSE,
                         lines |-> parsed.lines, settings |-> parsed.settings]
  /\ UNCHANGED configFile

\* ConfigFilePrivate::setSettingValue; a setting that is not there is not added
SetSettingValue(name, value) ==
  /\ config.pc = "open" /\ name \in DOMAIN config.settings
  /\ config' = [config EXCEPT !.settings[name].value = value, !.dirty = TRUE]
  /\ UNCHANGED configFile

\* Mutation: the lines are counted from one
UpdatedLinesNext ==
  [n \in DOMAIN config.lines |->
     IF \E name \in DOMAIN config.settings : config.settings[name].line + 1 = n
     THEN LET name == CHOOSE x \in DOMAIN config.settings : config.settings[x].line + 1 = n
          IN  name \o <<"=">> \o config.settings[name].value
     ELSE config.lines[n]]

\* "Update _lines"
UpdatedLines ==
  [n \in DOMAIN config.lines |->
     IF config.dirty /\ \E name \in DOMAIN config.settings : config.settings[name].line = n
     THEN LET name == CHOOSE x \in DOMAIN config.settings : config.settings[x].line = n
          IN  name \o <<"=">> \o config.settings[name].value
     ELSE config.lines[n]]

Text(lines) == FlattenSeq([n \in DOMAIN lines |-> Append(lines[n], "nl")])

\* seekp(0) and the output of the lines: the rest of a longer file stays
Overwritten(file, text) == text \o SubSeq(file, Len(text) + 1, Len(file))

\* ConfigFilePrivate::write; read-only files raise an exception
Write ==
  /\ config.pc = "open" /\ ~config.readonly
  /\ configFile' = Overwritten(configFile, Text(UpdatedLines))
  /\ config' = [config EXCEPT !.lines = UpdatedLines, !.dirty = FALSE]

\* ConfigFilePrivate::close
Close ==
  /\ config.pc = "open"
  /\ configFile' = IF config.dirty /\ ~config.readonly
                   THEN Overwritten(configFile, Text(UpdatedLines)) ELSE configFile
  /\ config' = [config EXCEPT !.pc = "done", !.dirty = FALSE]

-----------------------------------------------------------------------------
(* The source of the rules *)

\* Mutation: the last value of a key is kept
ParseStreamLast(text, separator, keys) ==
  LET lines == SelectSeq(Lines(text), Counts)
      pairs == [n \in DOMAIN lines |-> ParseLine(lines[n], separator, keys)]
      parsed(n) == CHOOSE p \in pairs[n] : TRUE
      last(key) == CHOOSE n \in DOMAIN lines :
                     /\ parsed(n).key = key
                     /\ \A m \in n + 1 .. Len(lines) : parsed(m).key # key
  IN  IF \E n \in DOMAIN lines : pairs[n] = {} THEN {}
      ELSE {[key \in {parsed(n).key : n \in DOMAIN lines} |-> parsed(last(key)).value]}

\* KeyValueParser::parseStream, which keeps the first value of a key; {} is an
\* exception
ParseStream(text, separator, keys) ==
  LET lines == SelectSeq(Lines(text), Counts)
      pairs == [n \in DOMAIN lines |-> ParseLine(lines[n], separator, keys)]
      parsed(n) == CHOOSE p \in pairs[n] : TRUE
      first(key) == CHOOSE n \in DOMAIN lines :
                      /\ parsed(n).key = key
                      /\ \A m \in 1 .. n - 1 : parsed(m).key # key
  IN  IF \E n \in DOMAIN lines : pairs[n] = {} THEN {}
      ELSE {[key \in {parsed(n).key : n \in DOMAIN lines} |-> parsed(first(key)).value]}

Option(options, key) == IF key \in DOMAIN options THEN options[key] ELSE <<>>

\* NSHandler::parseNSSwitch; a build without LDAP takes local rules instead
ParseNSSwitch ==
  /\ rules.source = "unknown"
  /\ rules' = [rules EXCEPT !.source =
       LET parsed == ParseStream(rules.nsswitch, ":", {})
       IN  CASE ~rules.readable -> "local"
             [] rules.readable /\ parsed = {} -> "failed"
             [] OTHER -> LET options == CHOOSE o \in parsed : TRUE
                         IN  IF rules.haveLDAP /\ Option(options, <<"usbguard">>) = <<"ldap">>
                             THEN "ldap" ELSE "local"]

\* LDAPHandler::_configValues and what validateConf requires
LDAPRequired == {<<"uri">>, <<"base">>, <<"rootdn">>, <<"rootpw">>}
LDAPOptions == LDAPRequired \cup {<<"usbguardbase">>, <<"rulequery">>, <<"updateinterval">>}

\* LDAPHandler::parseConf and validateConf; an update interval is a number
ValidLDAPConf(text) ==
  \E options \in ParseStream(text, " ", LDAPOptions) :
    /\ \A key \in LDAPRequired : Option(options, key) # <<>>
    /\ Option(options, <<"updateinterval">>) \in {<<>>, <<"number">>}

\* NSHandler::getRuleSet and getLDAPHandler.  The connection to the directory and
\* the query may fail; any exception ends the start of the daemon.
ConnectLDAP(answers) ==
  /\ rules.source = "ldap"
  /\ rules' = [rules EXCEPT !.source =
       IF ValidLDAPConf(rules.ldapConf) /\ answers THEN "directory" ELSE "failed"]

-----------------------------------------------------------------------------

ConfigInit == configFile \in ConfigFiles /\ config = NotOpened

ConfigNext ==
  \/ \E readonly \in BOOLEAN : Open(readonly)
  \/ \E name \in KnownNames, value \in SettingValues : SetSettingValue(name, value)
  \/ Write
  \/ Close

SourceInit ==
  \E haveLDAP, readable \in BOOLEAN, n \in NSSwitchFiles, l \in LDAPFiles :
    rules = [source |-> "unknown", haveLDAP |-> haveLDAP, readable |-> readable,
             nsswitch |-> n, ldapConf |-> l]

SourceNext ==
  \/ ParseNSSwitch
  \/ \E answers \in BOOLEAN : ConnectLDAP(answers)

-----------------------------------------------------------------------------
(* Properties *)

\* What a file says: the settings without the numbers of their lines
Says(text) ==
  {[name \in DOMAIN p.settings |-> p.settings[name].value] : p \in ParseConfig(text)}

\* Lines that are not settings
Comments(lines) == SelectSeq(lines, LAMBDA line : ~Counts(line))

\* When a configuration file that was changed is written or closed, reading it
\* again gives the settings that were in memory, and its comments are unchanged,
\* also if a name occurs on several lines or the last line lacks its end
\* (ConfigFilePrivate::write, close).  This is so only if the text has not become
\* shorter: the file is not truncated, and what is left of the old text follows
\* the new one.
ConfigKept ==
  [][(Write \/ Close) /\ ~config.readonly /\ Len(Text(UpdatedLines)) >= Len(configFile)
       => /\ Says(configFile') = {[name \in DOMAIN config.settings |->
                                    config.settings[name].value]}
          /\ Comments(Lines(configFile')) = Comments(config.lines)]_configVars

\* The first line for usbguard in nsswitch.conf, without white space
UsbguardLine ==
  LET lines == Lines(rules.nsswitch)
      bare(n) == SelectSeq(lines[n], LAMBDA c : c \notin Spaces)
      mentions == {n \in DOMAIN lines : IsPrefix(<<"usbguard", ":">>, bare(n))}
  IN  IF ~rules.readable \/ mentions = {} THEN <<>>
      ELSE bare(CHOOSE n \in mentions : \A m \in mentions : n <= m)

\* A daemon that was built with LDAP takes its rules from a directory if and only if
\* the first line for usbguard in nsswitch.conf names it and nothing else, one built
\* without never does; it does not fall back to local rules if the directory or its
\* configuration is not as it should be, and the configuration names the server, the
\* base and the credentials
\* (NSHandler::parseNSSwitch, LDAPHandler::validateConf).
SourceAsConfigured ==
  LET ldap == UsbguardLine = <<"usbguard", ":", "ldap">>
  IN  /\ rules.source \in {"ldap", "directory"} => ldap /\ rules.haveLDAP
      /\ rules.source = "local" => ~ldap \/ ~rules.haveLDAP
      /\ rules.source = "directory" =>
           \A key \in LDAPRequired :
             \E line \in ToSet(Lines(rules.ldapConf)) : IsPrefix(key \o <<" ">>, line)
=============================================================================
