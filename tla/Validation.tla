----------------------------- MODULE Validation -----------------------------
(***************************************************************************)
(* Validation of listeners and notifications: the handlers of              *)
(* src/pyaviso/event_listeners/validation and EventListener._validate.     *)
(*                                                                         *)
(* A value is a Python string or int: its text and its type.  A handler is *)
(* the set of the values it accepts and the canonical form of each.  What  *)
(* upper, int, strftime and a format do to a text is a parameter.          *)
(***************************************************************************)
EXTENDS Naturals, Sequences, Functions, FiniteSetsExt

CONSTANTS
  Texts,
  Number    \* int(text) printed again, or "NaN"

ASSUME NumberAssumption == Number \in [Texts -> Texts \cup {"NaN"}]

Values == [int : BOOLEAN, text : Texts]
Str(t) == [int |-> FALSE, text |-> t]
Whole(t) == [int |-> TRUE, text |-> t]
Numeric(v) == Number[v.text] # "NaN"

(* The values accepted and their canonical form: TypeHandler.process.      *)
(* Two values of one attribute are the same if they mean the same.  What   *)
(* is refused with another error than a ValueError fails the validation.   *)
Handler(accepts, form(_), means(_)) ==
  [accepts |-> accepts,
   fails |-> {},
   canonise |-> [v \in accepts |-> form(v)],
   means |-> [v \in accepts |-> means(v)]]

Same(accepts, form(_)) == Handler(accepts, form, LAMBDA v : form(v).text)

StringHandler(case) == Same(Values, LAMBDA v : Str(case[v.text]))

(* The range is the set of the numbers inside it *)
IntHandler(canonic, range) ==
  Same({v \in Values : Numeric(v) /\ Number[v.text] \in range},
          LAMBDA v : Str(canonic[Number[v.text]]))

FloatHandler(canonic) ==
  Same({v \in Values : v.text \in DOMAIN canonic},
          LAMBDA v : Str(canonic[v.text]))

DateHandler(canonic) ==
  Same({v \in Values : v.text \in DOMAIN canonic},
          LAMBDA v : Str(canonic[v.text]))

(* An int is no text to match: re.match raises a TypeError                 *)
RegexHandler(matching) ==
  [Same({v \in Values : ~ v.int /\ v.text \in matching}, LAMBDA v : v)
     EXCEPT !.fails = {v \in Values : v.int}]

(* EnumHandler.valid converts the value to the type of the first of the    *)
(* values, to compare: canonise returns what it was given                  *)
Defaulted(v, default) == IF v = Str("") THEN default ELSE v
Converted(v, values) ==
  IF values[1].int THEN Whole(Number[v.text]) ELSE Str(v.text)
Listed(v, values) ==
  /\ values[1].int => Numeric(v)
  /\ Converted(v, values) \in Range(values)

EnumHandler(values, default) ==
  Handler({v \in Values : Listed(Defaulted(v, default), values)},
          LAMBDA v : Defaulted(v, default),
          LAMBDA v : Converted(Defaulted(v, default), values).text)

TimeHandler(values, canonic) ==
  Handler({v \in Values : Listed(v, values)},
          LAMBDA v : Str(canonic[v.text]),
          LAMBDA v : Converted(v, values).text)

(***************************************************************************)
(* A parameter is one value or a list of values.                           *)
(***************************************************************************)
One(v) == [list |-> FALSE, values |-> <<v>>]
Many(s) == [list |-> TRUE, values |-> s]

Refused(h, p) == {i \in DOMAIN p.values : p.values[i] \notin h.accepts}

(* One handler: it writes a list anew value by value, up to the first one  *)
(* it refuses; a single value stays as it is when refused                  *)
Process(h, p) ==
  IF Refused(h, p) = {}
  THEN [p EXCEPT !.values = [i \in DOMAIN @ |-> h.canonise[@[i]]]]
  ELSE IF ~ p.list THEN p
  ELSE Many([i \in 1..(Min(Refused(h, p)) - 1) |-> h.canonise[p.values[i]]])

(* The handlers of an attribute, one after the other, until one accepts    *)
(* all that the ones before it have left                                   *)
Stages(handlers, p) ==
  LET before[i \in 1..(Len(handlers) + 1)] ==
        IF i = 1 THEN p ELSE Process(handlers[i - 1], before[i - 1])
  IN before

Validate(handlers, p) ==
  LET before == Stages(handlers, p)
      good == {i \in DOMAIN handlers : Refused(handlers[i], before[i]) = {}}
  IN IF good = {} THEN [ok |-> FALSE, param |-> p]
     ELSE [ok |-> TRUE, param |-> before[Min(good) + 1]]

(* The value that a handler refuses first is one that it fails on          *)
Failing(h, p) == Refused(h, p) # {} /\ p.values[Min(Refused(h, p))] \in h.fails

(* The handlers that end the validation, by accepting or by failing        *)
Ending(handlers, p) ==
  LET before == Stages(handlers, p)
  IN {i \in DOMAIN handlers :
        Refused(handlers[i], before[i]) = {} \/ Failing(handlers[i], before[i])}

FailsOn(handlers, p) ==
  /\ Ending(handlers, p) # {}
  /\ LET i == Min(Ending(handlers, p)) IN Refused(handlers[i], Stages(handlers, p)[i]) # {}

(* What it leaves of a parameter that is not valid: of a list, what the    *)
(* handlers have kept                                                      *)
Left(handlers, p) ==
  LET ends == Ending(handlers, p)
  IN Stages(handlers, p)[IF ends = {} THEN Len(handlers) + 1 ELSE Min(ends) + 1]

(* EventListener._validate: each attribute of a request or a notification  *)
ValidAt(params, schema, a) ==
  /\ a \in DOMAIN schema
  /\ Validate(schema[a], params[a]).ok
  /\ ~ FailsOn(schema[a], params[a])
Valid(params, schema) == \A a \in DOMAIN params : ValidAt(params, schema, a)
Canonised(params, schema) ==
  [a \in DOMAIN params |-> Validate(schema[a], params[a]).param]

(* What it leaves of them if they are not valid: it ends with an attribute *)
(* that is not, after some of those that are                               *)
Spoilt(params, schema) ==
  LET good == {a \in DOMAIN params : ValidAt(params, schema, a)}
  IN {[a \in DOMAIN params |->
         IF a \in done THEN Validate(schema[a], params[a]).param
         ELSE IF a = bad /\ a \in DOMAIN schema THEN Left(schema[a], params[a])
         ELSE params[a]] : done \in SUBSET good, bad \in DOMAIN params \ good}

(***************************************************************************)
(* What the schema means by a parameter: each value as the first handler   *)
(* that accepts it takes it.                                               *)
(***************************************************************************)
Meaning(handlers, v) ==
  LET by == Min({i \in DOMAIN handlers : v \in handlers[i].accepts})
  IN <<by, handlers[by].means[v]>>

Known(handlers, v) == \E i \in DOMAIN handlers : v \in handlers[i].accepts

Meanings(handlers, p) ==
  {Meaning(handlers, p.values[i]) : i \in {j \in DOMAIN p.values : Known(handlers, p.values[j])}}

(***************************************************************************)
(* A chain of handlers is faithful if the canonical form of a value means  *)
(* what the value does, and if two canonical forms mean the same whenever  *)
(* a filter takes one for the other.  An int is printed by its text.       *)
(***************************************************************************)
Proper == {v \in Values : v.int => Number[v.text] = v.text /\ v.text # "NaN"}
Parameters == [list : BOOLEAN, values : Seq(Proper)]

Forms(handlers) ==
  UNION {{handlers[i].canonise[v] : v \in handlers[i].accepts \cap Proper} : i \in DOMAIN handlers}

Equal(v, w) == v = Str(w.text) \/ (v.int /\ v = Whole(Number[w.text]))

Faithful(handlers) ==
  /\ \A i \in DOMAIN handlers : \A v \in handlers[i].accepts \cap Proper :
       LET form == handlers[i].canonise[v]
       IN /\ form \in Proper /\ Known(handlers, form)
          /\ Meaning(handlers, form) = Meaning(handlers, v)
  /\ \A v, w \in Forms(handlers) : Equal(v, w) => Meaning(handlers, v) = Meaning(handlers, w)

(***************************************************************************)
(* It is settled if a canonical form is its own canonical form, and if the *)
(* number that a text stands for is the only number with its meaning.      *)
(***************************************************************************)
Canon(handlers, v) ==
  LET by == Min({i \in DOMAIN handlers : v \in handlers[i].accepts})
  IN handlers[by].canonise[v]

Canons(handlers) == {Canon(handlers, v) : v \in {w \in Proper : Known(handlers, w)}}

Settled(handlers) ==
  /\ \A v \in Canons(handlers) : Canon(handlers, v) = v
  /\ \A v, w \in Canons(handlers) :
       v.int /\ Meaning(handlers, v) = Meaning(handlers, w) => v = Whole(Number[w.text])
=============================================================================
