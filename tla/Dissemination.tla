--------------------------- MODULE Dissemination ---------------------------
(***************************************************************************)
(* From NotificationManager.notify to the triggers of a listener: the keys *)
(* of a notification, the keys a listener watches, its filter, and the     *)
(* triggers it runs.                                                       *)
(*                                                                         *)
(* A listener watches the base of a key, and filters by the rest of it.    *)
(* A key is the texts that its attributes take: the schema's formats keep  *)
(* them apart.  Polling shows how the notifications of a watched key reach *)
(* the callback: here, as there, a reader finds the last value of a key.   *)
(***************************************************************************)
EXTENDS Validation

CONSTANTS
  Listeners,
  BaseOrder,         \* the attributes of "base" in the schema, in order
  StemAttributes,    \* those of "stem"
  Schema,            \* per attribute, its handlers
  Requests,          \* the requests a listener may be given
  Notifications,     \* the parameters a provider may give to notify
  TriggersOf,        \* per listener, its triggers in order
  MaxNotifications  \* bound on the notifications

ASSUME RequestsAssumption ==
  \A r \in Requests : \A a \in DOMAIN r : r[a].values # <<>>

VARIABLES
  notified,   \* the number of notifications
  mode,       \* "off" or "on"
  asked,      \* the request of each listener as it was written
  request,    \* the same dictionary now: a validation rewrites it
  watch,      \* the bases the listener watches
  filter,     \* per attribute, the values it accepts
  pending,    \* notifications on their way to the thread of their base
  jobs,       \* callbacks running their triggers
  fired,      \* history: effects of triggers
  owed,       \* history: notifications that listeners have asked for
  served      \* history: notifications that passed the filter

listenerVars == <<mode, asked, request, watch, filter>>
historyVars == <<owed, served>>
vars == <<notified, listenerVars, pending, jobs, fired, historyVars>>

BaseAttributes == Range(BaseOrder)

(***************************************************************************)
(* EventListener.derive_notification_keys                                  *)
(***************************************************************************)
TextsOf(params, attributes) ==
  [a \in attributes |-> Canonised(params, Schema)[a].values[1].text]

KeyOf(params) ==
  [base |-> TextsOf(params, BaseAttributes),
   stem |-> TextsOf(params, StemAttributes)]

Derivable(params) ==
  /\ Valid(params, Schema)
  /\ BaseAttributes \cup StemAttributes \subseteq DOMAIN params

TextAt(key, a) == IF a \in BaseAttributes THEN key.base[a] ELSE key.stem[a]

(***************************************************************************)
(* EventListener.key_expansion, before the request is validated: one base  *)
(* for each choice of values.  Each list is replaced in the text of the    *)
(* key wherever it occurs, so equal lists take the same value; a number in *)
(* a list is no text to replace it by.                                     *)
(***************************************************************************)
Expandable(r) ==
  /\ BaseAttributes \subseteq DOMAIN r
  /\ \A a \in BaseAttributes : r[a].list => \A v \in Range(r[a].values) : ~ v.int

Leader(r, a) ==
  BaseOrder[Min({i \in DOMAIN BaseOrder : BaseOrder[i] = a \/ (r[a].list /\ r[BaseOrder[i]] = r[a])})]

Longest(r) == Max({Len(r[a].values) : a \in BaseAttributes})
Pairings(r) ==
  {c \in [BaseAttributes -> 1..Longest(r)] :
     \A a \in BaseAttributes : c[a] \in DOMAIN r[a].values}

KeyExpansion(r) ==
  {[a \in BaseAttributes |-> r[a].values[c[Leader(r, a)]].text] : c \in Pairings(r)}

(* EventListener.filter_expansion *)
FilterExpansion(r) == [a \in DOMAIN r |-> Canonised(r, Schema)[a].values]

(* Mutant: no conversion to the type of the filter *)
Passes_Text(values, text) ==
  values # <<>> /\ Str(text) \in Range(values)

(* Mutant: the first attribute that matches decides *)
IsExpected_One(f, key) == \E a \in DOMAIN f : Passes_Text(f[a], TextAt(key, a))

(* EventListener._is_expected, for one attribute: the type of the first    *)
(* value of the filter decides.  Without a value, or without a number to   *)
(* compare with one, it raises, and the engine ignores the notification.   *)
Passes(values, text) ==
  /\ values # <<>>
  /\ IF values[1].int
     THEN Whole(Number[text]) \in Range(values)
     ELSE Str(text) \in Range(values)

IsExpected(f, key) == \A a \in DOMAIN f : Passes(f[a], TextAt(key, a))

(***************************************************************************)
(* What a listener asks for: the notifications whose attributes mean one   *)
(* of the values of the request.                                           *)
(***************************************************************************)
Wants(r, params) ==
  \A a \in DOMAIN r :
    Meaning(Schema[a], params[a].values[1]) \in Meanings(Schema[a], r[a])

Init ==
  /\ notified = 0
  /\ mode = [l \in Listeners |-> "off"]
  /\ asked \in [Listeners -> Requests]
  /\ request = asked
  /\ watch = [l \in Listeners |-> {}]
  /\ filter = [l \in Listeners |-> <<>>]
  /\ pending = {} /\ jobs = {} /\ fired = {} /\ owed = {} /\ served = {}

(***************************************************************************)
(* A listener starts: EventListener.__init__ and listen.  The request is   *)
(* rewritten in the dictionary of the program, which may start it again,   *)
(* also after an error; the validation that refuses it may have cut it.    *)
(***************************************************************************)
Start(l) ==
  /\ mode[l] = "off"
  /\ IF Expandable(request[l]) /\ Valid(request[l], Schema)
     THEN /\ mode' = [mode EXCEPT ![l] = "on"]
          /\ watch' = [watch EXCEPT ![l] = KeyExpansion(request[l])]
          /\ filter' = [filter EXCEPT ![l] = FilterExpansion(request[l])]
          /\ request' = [request EXCEPT ![l] = Canonised(@, Schema)]
     ELSE /\ IF Expandable(request[l])
             THEN \E r \in Spoilt(request[l], Schema) : request' = [request EXCEPT ![l] = r]
             ELSE UNCHANGED request
          /\ UNCHANGED <<mode, watch, filter>>
  /\ UNCHANGED <<notified, asked, pending, jobs, fired, historyVars>>

(* A stop lets a running callback end, and those of the notifications that *)
(* were fetched with it; what is pending besides is not fetched            *)
Stop(l) ==
  /\ mode[l] = "on"
  /\ \E fetched \in SUBSET {p \in pending : p.to = l /\ IsExpected(filter[l], p.key)} :
       jobs' = jobs \cup {[to |-> l, key |-> p.key, next |-> 1] : p \in fetched}
  /\ mode' = [mode EXCEPT ![l] = "off"]
  /\ watch' = [watch EXCEPT ![l] = {}]
  /\ pending' = {p \in pending : p.to # l}
  /\ owed' = {o \in owed : o.to # l}
  /\ UNCHANGED <<notified, asked, request, filter, fired, served>>

(***************************************************************************)
(* NotificationManager.notify: the payload goes along with the key.        *)
(***************************************************************************)
Notify(params) ==
  LET key == KeyOf(params)
      to(l) == [to |-> l, key |-> key]
      on == {l \in Listeners : mode[l] = "on"}
  IN /\ notified < MaxNotifications  \* bound
     /\ Derivable(params)
     /\ notified' = notified + 1
     /\ pending' = pending \cup {to(l) : l \in {m \in on : key.base \in watch[m]}}
     /\ owed' = owed \cup {to(l) : l \in {m \in on : Wants(asked[m], params)}}
     /\ served' = served \ {to(l) : l \in Listeners}
     /\ UNCHANGED <<listenerVars, jobs, fired>>

(***************************************************************************)
(* EventListener.callback, called by the thread of a base: one callback at *)
(* a time.                                                                 *)
(***************************************************************************)
Callback(p) ==
  /\ \A j \in jobs : ~ (j.to = p.to /\ j.key.base = p.key.base)
  /\ pending' = pending \ {p}
  /\ IF IsExpected(filter[p.to], p.key)
     THEN /\ jobs' = jobs \cup
               {[to |-> p.to, key |-> p.key, next |-> 1]}
          /\ served' = served \cup {p}
     ELSE UNCHANGED <<jobs, served>>
  /\ UNCHANGED <<notified, listenerVars, fired, owed>>

(* What a trigger may do: have its effect or not, and fail or not.  A      *)
(* command fails if it writes to its standard error, whatever its status;  *)
(* a post whose answer does not come in time fails, and may have arrived.  *)
Outcome(effect, ok) == [effect |-> effect, ok |-> ok]
Outcomes(type) ==
  [echo |-> {Outcome(TRUE, TRUE)},
   log |-> {Outcome(TRUE, TRUE), Outcome(FALSE, FALSE)},
   function |-> {Outcome(TRUE, TRUE), Outcome(TRUE, FALSE), Outcome(FALSE, FALSE)},
   command |-> {Outcome(e, o) : e \in BOOLEAN, o \in BOOLEAN},
   post |-> {Outcome(TRUE, TRUE), Outcome(TRUE, FALSE), Outcome(FALSE, FALSE)}][type]

(* EventListener.execute_triggers: the first failure ends it *)
RunTrigger(j) ==
  \E outcome \in Outcomes(TriggersOf[j.to][j.next]) :
    /\ fired' = IF outcome.effect
                THEN fired \cup {[to |-> j.to, key |-> j.key, trigger |-> j.next]}
                ELSE fired
    /\ jobs' = (jobs \ {j}) \cup
         (IF outcome.ok /\ j.next < Len(TriggersOf[j.to])
          THEN {[j EXCEPT !.next = @ + 1]} ELSE {})
    /\ UNCHANGED <<notified, listenerVars, pending, historyVars>>

Next ==
  \/ \E l \in Listeners : Start(l) \/ Stop(l)
  \/ \E params \in Notifications : Notify(params)
  \/ \E p \in pending : Callback(p)
  \/ \E j \in jobs : RunTrigger(j)

Spec == Init /\ [][Next]_vars

(***************************************************************************)
(* A trigger runs only for what the listener asks for, however the request *)
(* and the notification spell their values, and whatever the validation    *)
(* made of the lists of the request: _is_expected is the only guard, a     *)
(* base that is watched is no promise.                                     *)
(***************************************************************************)
OnlyWanted ==
  \A f \in fired :
    \E n \in Notifications :
      Derivable(n) /\ KeyOf(n) = f.key /\ Wants(asked[f.to], n)

(***************************************************************************)
(* A request is well asked if the base has no two equal lists, and values  *)
(* that are canonical and can be spelled in one way; if the first handler  *)
(* accepts all the values of a list; and if the filter compares numbers    *)
(* only with numbers, texts only with texts that can be spelled in one way.*)
(***************************************************************************)
OneWay(handlers, v) ==
  \A w \in Values :
    Known(handlers, w) /\ Meaning(handlers, w) = Meaning(handlers, v) =>
      Validate(handlers, One(w)).param.values[1].text
        = Validate(handlers, One(v)).param.values[1].text

WellAsked(r) ==
  /\ \A a \in BaseAttributes :
       /\ Leader(r, a) = a
       /\ \A v \in Range(r[a].values) :
            /\ v.text = Validate(Schema[a], One(v)).param.values[1].text
            /\ OneWay(Schema[a], v)
  /\ \A a \in DOMAIN r :
       /\ r[a].list => Refused(Schema[a][1], r[a]) = {}
       /\ LET values == Range(Validate(Schema[a], r[a]).param.values)
          IN \/ \A v \in values : v.int
             \/ \A v \in values : ~ v.int /\ OneWay(Schema[a], v)

(***************************************************************************)
(* What is well asked is heard: a notification that a listener asks for is *)
(* on its way to it, or has passed its filter.                             *)
(***************************************************************************)
WellAskedIsHeard ==
  \A o \in owed : WellAsked(asked[o.to]) => o \in pending \cup served

(***************************************************************************)
(* What the inputs are: a schema that keeps what a value means, a request  *)
(* of values and lists of values, and a notification with one value for    *)
(* each attribute.                                                         *)
(***************************************************************************)
FaithfulInputs ==
  /\ DOMAIN Schema \subseteq BaseAttributes \cup StemAttributes
  /\ \A a \in DOMAIN Schema : Schema[a] \in Seq(Range(Schema[a])) /\ Faithful(Schema[a])
  /\ \A r \in Requests : \A a \in DOMAIN r : r[a] \in Parameters
  /\ \A n \in Notifications : \A a \in DOMAIN n :
       n[a] \in Parameters /\ ~ n[a].list /\ Len(n[a].values) = 1

(* A schema whose canonical forms are settled                              *)
SettledInputs ==
  /\ BaseOrder \in Seq(BaseAttributes)
  /\ \A a \in DOMAIN Schema : Settled(Schema[a])
  /\ \A r \in Requests : \A a \in DOMAIN r : ~ r[a].list => Len(r[a].values) = 1
=============================================================================
