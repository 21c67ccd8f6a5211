--------------------------- MODULE Configuration ---------------------------
(***************************************************************************)
(* How the programs of aviso load their configuration, in the constructor  *)
(* of the class Config that each has a copy of (UserConfig in the client):  *)
(* defaults, then files, then environment variables, then arguments, each  *)
(* merged by deep_update into what was there; a program whose              *)
(* configuration cannot be loaded exits.                                   *)
(*                                                                         *)
(* A configuration has scalars at the top and sections with options; a run *)
(* of this specification follows one section (part) and the scalars of its *)
(* program.  A value is True, False, or a text; "true" is any text that    *)
(* folds to it, "text" any other value.  What an argument replaces whole,  *)
(* a list or a mapping of the REST frontend or of the proxy (skips, cache, *)
(* monitor_servers), is a scalar.                                          *)
(***************************************************************************)
EXTENDS Naturals, FiniteSets

CONSTANTS
  Options,        \* the options of the section
  Scalars,        \* the options outside the section
  Nullable,       \* the scalars that may be missing: username, listeners
  Switches,       \* the options and scalars that the programs use as booleans
  Unchecked,      \* the options that no program but the client looks for
  None,           \* None of Python, null of YAML
  Absent,         \* what a layer does not mention
  OwnFiles,       \* what the files of the client, merged, may say on the host of aviso-rest
  Width           \* bound on the options that a layer mentions

ASSUME NamesAssumption ==
  /\ Options \cap Scalars = {} /\ Nullable \subseteq Scalars
  /\ Absent # None
  /\ {None, Absent} \cap {"True", "False", "true", "text"} = {}
  /\ {None, Absent} \cap [Options -> {None, Absent, "True", "False", "true", "text"}] = {}
  /\ OwnFiles \subseteq [Options -> {None, Absent, "True", "False", "true", "text"}]

(* The sections, by the program they belong to                             *)
Parts == {
  "engine",       \* client: notification_engine, configuration_engine
  "aviso",        \* aviso-rest: a configuration of the client
  "collectors",   \* aviso-rest, aviso-auth: monitoring, a configuration of the collectors
  "server",       \* aviso-auth: the servers that it asks, backend, frontend
  "job",          \* aviso-admin: compactor, cleaner
  "reporters",    \* aviso-admin: monitoring, the arguments of the monitoring
  "reporter",     \* monitoring: udp_server, the reporters
  "probe",        \* monitoring: kube_state_metrics
  "transmitter"}  \* collectors

(* Sections that are configuration objects of another program, made from a *)
(* dictionary: a second one replaces the first.  Of these and of the       *)
(* arguments of the monitoring, nothing in a file means the defaults.      *)
Nested == {"aviso", "collectors"}
Forgetful == Nested \cup {"reporters"}

VARIABLES
  part,
  step,      \* the layer that comes next, or how the loading ended
  fresh,     \* the section if no file of the program has one
  files,     \* current_config of _parse_config_files, while it runs
  config,    \* self._config
  wins       \* history: what the layers so far would give, option by option

configVars == <<part, step, fresh, files, config, wins>>

Strings == {"true", "text"}
Settings == {"True", "False"} \cup Strings

(***************************************************************************)
(* The layers                                                              *)
(***************************************************************************)
Dicts(names, values) == [names -> values \cup {Absent}]
Mentions(d) == {o \in DOMAIN d : d[o] # Absent}
Empty(d) == Mentions(d) = {}
GivesNothing(section) == section \in {Absent, None} \/ Empty(section)

Layers(sections, values) ==
  {l \in [section : sections, scalars : Dicts(Scalars, values)] :
     Cardinality(Mentions(l.scalars))
       + (IF GivesNothing(l.section) THEN 0 ELSE Cardinality(Mentions(l.section)))
     <= Width}

(* In a file the section may be there with nothing below it, which YAML    *)
(* reads as None                                                           *)
FileLayers == Layers(Dicts(Options, Settings \cup {None}) \cup {Absent, None}, Settings \cup {None})

(* Variables of the environment are texts, but one of the client may say   *)
(* None; those of a nested configuration are of the other program; there   *)
(* are none for the monitoring                                             *)
EnvironmentLayers ==
  [p \in Parts |->
     Layers(IF p = "reporters" THEN {Absent}
            ELSE {d \in Dicts(Options, Strings \cup {None}) :
                    \A o \in Options : d[o] = None => p \in {"engine", "aviso"} /\ o \notin Switches},
            Strings)]

(* An argument that is None was not given                                  *)
ArgumentLayers == Layers(Dicts(Options, Settings \cup {None}) \cup {Absent}, Settings)

(***************************************************************************)
(* deep_update(d, u): a mapping of u is merged into that of d, anything    *)
(* else replaces it.  A mapping cannot be merged into None, unless it is   *)
(* empty.                                                                  *)
(***************************************************************************)
Update(d, u) == [o \in DOMAIN d |-> IF u[o] = Absent THEN d[o] ELSE u[o]]

(* Mutant: a layer only adds what is missing *)
UpdateSection_Keep(d, u) ==
  IF u = Absent THEN d
  ELSE IF u = None \/ d = Absent THEN u
  ELSE IF d = None THEN None ELSE Update(u, d)
UpdateSection(d, u) ==
  IF u = Absent THEN d
  ELSE IF u = None \/ d = Absent THEN u
  ELSE IF d = None THEN None ELSE Update(d, u)

Fails(d, u) ==
  d.section = None /\ u.section \notin {Absent, None} /\ ~ Empty(u.section)

DeepUpdate(d, u) ==
  [section |-> UpdateSection(d.section, u.section), scalars |-> Update(d.scalars, u.scalars)]

Nothing == [section |-> Absent, scalars |-> [o \in Scalars |-> Absent]]

(* The defaults: a text for what has no other use, False for a switch, and *)
(* None for the name and the password of a server and the token of a probe *)
Default(o) == IF o \in Switches THEN "False" ELSE "text"

DefaultSections(p) ==
  {d \in [Options -> {"text", "False", None}] :
     \A o \in Options : d[o] = Default(o) \/ (d[o] = None /\ o \notin Switches /\ p \in {"server", "probe"})}

DefaultScalars(p) ==
  [o \in Scalars |-> IF p = "engine" /\ o \in Nullable THEN None ELSE Default(o)]

(***************************************************************************)
(* Where a program starts.  The client may be given a dictionary instead   *)
(* of its files, as the REST frontend does.  A configuration of the client *)
(* that is made without one reads the files of the client.                 *)
(***************************************************************************)
Starts(p) ==
  CASE p = "engine" -> {"system", "option"}
    [] p \in {"aviso", "collectors", "server", "job", "reporters"} -> {"system"}
    [] p = "transmitter" -> {"option"}
    [] p \in {"reporter", "probe"} -> {"arguments"}

(* What files, that are not those of the program, make of its defaults     *)
Elsewhere(p) ==
  IF p = "aviso" THEN OwnFiles ELSE {[o \in Options |-> Absent]}

(* Before its files a program has no object for a nested section, and no   *)
(* argument for the monitoring                                             *)
ConfigInit ==
  /\ part \in Parts
  /\ step \in Starts(part)
  /\ \E d \in DefaultSections(part), e \in Elsewhere(part) :
        /\ fresh = Update(d, e)
        /\ config = [section |-> CASE part \in Nested -> None
                                   [] part = "reporters" -> [o \in Options |-> Absent]
                                   [] OTHER -> d,
                     scalars |-> DefaultScalars(part)]
  /\ files = Nothing
  /\ wins = [o \in Options \cup Scalars |->
               IF o \in Options THEN fresh[o] ELSE DefaultScalars(part)[o]]

(* What a layer says of an option: a section that it empties says None of  *)
(* all, unless it means that nothing is said; and what holds if it says    *)
(* nothing                                                                 *)
Says(o, l) ==
  IF o \in Scalars THEN l.scalars[o]
  ELSE IF l.section = Absent \/ (l.section = None /\ part \in Forgetful) THEN Absent
  ELSE IF l.section = None THEN None ELSE l.section[o]
Win(l, otherwise) ==
  wins' = [o \in Options \cup Scalars |->
             IF Says(o, l) # Absent THEN Says(o, l)
             ELSE IF o \in Options THEN otherwise[o] ELSE wins[o]]

Exit ==
  /\ step' = "exit"
  /\ UNCHANGED <<part, fresh, files, config, wins>>

(***************************************************************************)
(* The files: that of the system, that of the user, the one an environment *)
(* variable names and the one of the option -c.  The first two may not be  *)
(* there; an unreadable file, an empty one and a missing one that was      *)
(* named end the program.                                                  *)
(***************************************************************************)
Files == <<"system", "home", "named", "option", "logging">>

Skip(i) ==
  /\ step = Files[i]
  /\ step' = Files[i + 1]
  /\ UNCHANGED <<part, fresh, files, config, wins>>

(* In a section that forgets, a file that empties it takes back what the   *)
(* files before it said; the first that gives a nested one something makes *)
(* it from the defaults                                                    *)
Unsaid(l) ==
  [o \in Options |->
     IF part \in Forgetful /\ l.section = None THEN fresh[o]
     ELSE IF part \in Nested /\ GivesNothing(files.section) /\ ~ GivesNothing(l.section)
          THEN Default(o)
     ELSE wins[o]]

ReadFile(i) ==
  /\ step = Files[i]
  /\ \/ \E l \in FileLayers :
          /\ ~ Fails(files, l)
          /\ files' = DeepUpdate(files, l)
          /\ Win(l, Unsaid(l))
          /\ step' = Files[i + 1]
          /\ UNCHANGED <<part, fresh, config>>
     \/ Exit

(* A nested configuration is made from what the files say of it: from the  *)
(* defaults and that, or, if it is nothing, as if it were not given        *)
FromFiles ==
  IF part \in Nested /\ files.section # Absent
  THEN IF GivesNothing(files.section) THEN fresh
       ELSE Update([o \in Options |-> Default(o)], files.section)
  ELSE UpdateSection(config.section, files.section)

(* The files are merged into the defaults; logging is set up with a file,  *)
(* or with what the configuration says so far                              *)
SetUpLogging ==
  /\ step = "logging"
  /\ \/ /\ config' = [section |-> FromFiles, scalars |-> Update(config.scalars, files.scalars)]
        /\ files' = Nothing
        /\ step' = "environment"
        /\ UNCHANGED <<part, fresh, wins>>
     \/ part # "transmitter" /\ Exit

(***************************************************************************)
(* The setters.  The client asks that the options be there, the others     *)
(* that most have a value, and a probe for its token if its switch is on.  *)
(***************************************************************************)
MayBeNone(section, o) ==
  \/ part \in {"engine", "aviso"}
  \/ part \in {"server", "job", "reporters", "reporter"} /\ o \in Unchecked
  \/ part = "probe" /\ o \notin Switches /\ \A s \in Switches \cap Options : section[s] \in {"False", "text"}

Complete(section) ==
  /\ section # None
  /\ \A o \in Options : section[o] # Absent /\ (section[o] = None => MayBeNone(section, o))

(* A variable that should be a number and is not ends the program; a       *)
(* nested configuration is given the variables, and checked, when it is    *)
(* made                                                                    *)
ReadEnvironment ==
  /\ step = "environment"
  /\ \/ \E l \in EnvironmentLayers[part] :
          /\ part \notin Nested => ~ Fails(config, l)
          /\ config' = DeepUpdate(config, l)
          /\ part \in Nested /\ config.section # None => Complete(config.section')
          /\ fresh' = UpdateSection(fresh, l.section)
          /\ Win(l, wins)
          /\ step' = "arguments"
          /\ UNCHANGED <<part, files>>
     \/ Exit

(* Only some of the switches are made boolean: aviso-auth leaves those of  *)
(* its servers (monitor) as they are, the monitoring that of its probe, and *)
(* that of the collectors is left to Collector.                            *)
Folded(p) ==
  Switches \cap (    (IF p \in {"engine", "aviso", "job", "reporters", "reporter"} THEN Options ELSE {})
                \cup (IF p \in {"transmitter", "reporter", "probe"} THEN {} ELSE Scalars))

(* value.casefold() == "true".casefold(), for a text *)
Fold(p, o, v) ==
  IF o \in Folded(p) /\ v \in Strings
  THEN IF v = "true" THEN "True" ELSE "False"
  ELSE v

(* The section with the argument of its setter *)
Set(section, arg) == IF section = None /\ arg # Absent THEN arg ELSE UpdateSection(section, arg)

(* The object of a section that has one: an argument makes a nested one    *)
(* anew, the monitoring is made from what the layers have left             *)
Made(section, arg) ==
  LET given == IF part \in Nested /\ arg # Absent THEN arg ELSE Set(section, arg)
  IN IF part \notin Forgetful THEN given
     ELSE IF given = None THEN fresh ELSE Update(fresh, given)

SetArguments ==
  /\ step = "arguments"
  /\ \/ \E l \in ArgumentLayers :
          LET section == Made(config.section, l.section)
              scalars == Update(config.scalars, l.scalars)
          IN /\ Complete(section)
             /\ \A o \in Scalars : scalars[o] = None => part = "engine" /\ o \in Nullable
             /\ config' = [section |-> [o \in Options |-> Fold(part, o, section[o])],
                           scalars |-> [o \in Scalars |-> Fold(part, o, scalars[o])]]
             /\ Win(l, IF part \in Nested /\ l.section # Absent THEN fresh ELSE wins)
             /\ step' = "loaded"
             /\ UNCHANGED <<part, fresh, files>>
     \/ Exit

ConfigNext ==
  \/ \E i \in 1..4 : Skip(i) \/ ReadFile(i)
  \/ SetUpLogging \/ ReadEnvironment \/ SetArguments

ConfigSpec == ConfigInit /\ [][ConfigNext]_configVars

(***************************************************************************)
(* "each step merges on the previous one" (docs/source/reference/          *)
(* configuration.rst): whatever the layers contain, in a configuration     *)
(* that was loaded every option has the value of the last layer that       *)
(* mentions it, as a boolean if it is one that the program converts.       *)
(* Three sections are exceptions, in which a layer takes back what the     *)
(* files said: the nested ones, when an argument is given, and these and   *)
(* the arguments of the monitoring, when a later file empties the section. *)
(* An option has then what it has without those files.                     *)
(***************************************************************************)
HighestWins ==
  step = "loaded" =>
    /\ \A o \in Options : config.section[o] = Fold(part, o, wins[o])
    /\ \A o \in Scalars : config.scalars[o] = Fold(part, o, wins[o])
=============================================================================
