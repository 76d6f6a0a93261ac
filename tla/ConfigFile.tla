----------------------------- MODULE ConfigFile -----------------------------
(***************************************************************************)
(* The configuration, read once at start: get_server_config asks for each  *)
(* value with get_int_value, which searches the file from its beginning    *)
(* (main.c, config_opt.c).                                                 *)
(*                                                                         *)
(* A line of the file is what one fgets returns, at most 255 characters of *)
(* it.  A key line holds the name of a key at its beginning; set tells     *)
(* whether only spaces and = follow.  A value is what atoi makes of it, or *)
(* NoValue when it is empty or begins with a semicolon.                    *)
(***************************************************************************)
EXTENDS Integers, Sequences

CONSTANTS
  SettingNames,   \* GbListenPort, UseRtcp, MaxConnections
  DefaultOf,      \* 5060, 0 and 100
  ThreadsName,    \* MaxConnections
  ConfigLines,    \* the lines a file is made of
  MaxFileLines,   \* bound: lines of a file
  NoValue

ASSUME ConfigAssumption ==
  /\ DefaultOf \in [SettingNames -> Int]
  /\ ThreadsName \in SettingNames /\ DefaultOf[ThreadsName] >= 1
  /\ NoValue \notin Int /\ MaxFileLines \in Nat
  /\ \A l \in ConfigLines : l.kind = "key" => l.value \in Int \cup {NoValue}

VARIABLES
  file,      \* the lines of config.ini
  settings   \* glGlobleArgs, or empty before it is read

configAll == <<file, settings>>

ConfigInit == file = <<>> /\ settings = <<>>

WriteLine(l) ==
  /\ settings = <<>> /\ Len(file) < MaxFileLines
  /\ file' = Append(file, l)
  /\ UNCHANGED settings

\* get_string_content_value: the outer loop
SearchSection(f, section) ==
  LET from[i \in 1 .. Len(f) + 1] ==
        IF i > Len(f) THEN i
        ELSE IF f[i].kind = "section" /\ f[i].name = section THEN i + 1
        ELSE from[i + 1]
  IN  from[1]

EndsNever(l) == FALSE                      \* mutant: on into the next section
EndsSection(l) == l.kind = "section"
\* the inner loop, from a line of the section on
SearchKey(f, start, name) ==
  LET from[i \in start .. Len(f) + 1] ==
        IF i > Len(f) THEN NoValue
        ELSE IF f[i].kind = "key" /\ f[i].name = name /\ f[i].set THEN f[i].value
        ELSE IF EndsSection(f[i]) THEN NoValue
        ELSE from[i + 1]
  IN  from[start]

StringContent(f, section, name) ==
  LET start == SearchSection(f, section)
  IN  IF start > Len(f) THEN NoValue ELSE SearchKey(f, start, name)

IntValue(f, section, name) ==
  LET v == StringContent(f, section, name)
  IN  IF v = NoValue THEN DefaultOf[name] ELSE v

AsItIs(name, v) == v                       \* mutant: also 0 and less
AtLeastOne(name, v) == IF name = ThreadsName /\ v < 1 THEN 1 ELSE v

GetServerConfig ==
  /\ settings = <<>>
  /\ settings' = [n \in SettingNames |->
                    AtLeastOne(n, IntValue(file, "SERVER_CONFIG", n))]
  /\ UNCHANGED file

ConfigNext == (\E l \in ConfigLines : WriteLine(l)) \/ GetServerConfig

ConfigSpec == ConfigInit /\ [][ConfigNext]_configAll

-----------------------------------------------------------------------------
\* Properties

ConfigTypeOK ==
  /\ file \in Seq(ConfigLines) /\ Len(file) <= MaxFileLines
  /\ settings # <<>> =>
       settings \in [SettingNames -> Int] /\ settings[ThreadsName] >= 1

\* A setting is what the file says: the first line that sets it, in the first
\* section of that name and before the next section; its default when there
\* is none, or when the value is left out; and the pool has a thread.  Lines
\* of other sections, comments, and names that only begin like it do not count
\* (config_opt.c:30-99, main.c:34-40).
ConfigExact ==
  settings # <<>> =>
    \A n \in SettingNames :
      LET heads == {i \in 1 .. Len(file) : file[i].kind = "section"}
          mine  == {i \in heads : file[i].name = "SERVER_CONFIG"}
          sets  == {i \in 1 .. Len(file) :
                      /\ file[i].kind = "key" /\ file[i].name = n /\ file[i].set
                      /\ \E h \in mine :
                           /\ h < i /\ \A j \in mine : h <= j
                           /\ \A j \in heads : j <= h \/ i < j}
          value == IF sets = {} THEN NoValue
                   ELSE file[CHOOSE i \in sets : \A j \in sets : i <= j].value
          given == IF value = NoValue THEN DefaultOf[n] ELSE value
      IN  settings[n] = IF n = ThreadsName /\ given < 1 THEN 1 ELSE given
=============================================================================
