-------------------------- MODULE MCDissemination --------------------------
(***************************************************************************)
(* An instance of Dissemination for TLC: two attributes in the base, texts *)
(* in upper case; below it a day, a time with two digits, a step out of    *)
(* two numbers, and a kind: a number, a decimal, or else a text in lower   *)
(* case.  An area may be a number too, which has two spellings.            *)
(***************************************************************************)
EXTENDS Dissemination

SomeTexts == {"a", "A", "B", "0", "00", "6", "06", "NaN", ""}
SomeNumber ==
  [t \in SomeTexts |->
     IF t \in {"0", "00"} THEN "0" ELSE IF t \in {"6", "06"} THEN "6" ELSE "NaN"]

Upper == [t \in SomeTexts |-> IF t = "a" THEN "A" ELSE t]
Lower == [t \in SomeTexts |-> IF t = "A" THEN "a" ELSE t]
Plain == [t \in SomeTexts |-> t]
Padded == [t \in SomeTexts |-> IF t = "0" THEN "00" ELSE IF t = "6" THEN "06" ELSE t]

Numbers == <<Whole("0"), Whole("6")>>
SomeSchema ==
  [dest |-> <<StringHandler(Upper)>>,
   area |-> <<RegexHandler({"A", "B"}), EnumHandler(Numbers, Whole("6"))>>,
   date |-> <<DateHandler([t \in {"0", "00"} |-> "00"])>>,
   time |-> <<TimeHandler(Numbers, Padded)>>,
   step |-> <<EnumHandler(Numbers, Whole("6"))>>,
   kind |-> <<IntHandler(Plain, {"0"}), FloatHandler([t \in {"6", "06"} |-> "6"]),
              StringHandler(Lower)>>]

SomeOrder == <<"dest", "area">>
SomeStem == {"date", "time", "step", "kind"}

A == One(Str("A"))
AB == Many(<<Str("A"), Str("B")>>)
BA == Many(<<Str("B"), Str("A")>>)
Asked(a, p) == [b \in {"dest", "area", a} |-> IF b = a THEN p ELSE A]

Steps == {One(Whole("0")), One(Str("0")), One(Str("")), Many(Numbers),
          Many(<<Whole("0"), Str("6")>>), Many(<<Whole("0"), Str("a")>>)}
Times == {One(Whole("0")), One(Str("6")), Many(<<Str("00"), Str("06")>>)}
Kinds == {A, One(Str("00")), Many(<<Str("00"), Str("0")>>),
          Many(<<Str("0"), Str("a")>>), Many(<<Str("a"), Str("0")>>)}

SomeRequests ==
  {[dest |-> A, area |-> A],
   [dest |-> One(Str("a")), area |-> A],
   [dest |-> AB, area |-> AB],
   [dest |-> AB, area |-> BA],
   [dest |-> A, kind |-> A],
   [dest |-> Many(<<Whole("0")>>), area |-> A],
   [dest |-> A, area |-> One(Whole("0"))]}
  \cup {Asked("step", p) : p \in Steps} \cup {Asked("time", p) : p \in Times}
  \cup {Asked("kind", p) : p \in Kinds} \cup {Asked("date", One(Whole("0")))}

Notice(d, s, k) ==
  [dest |-> One(Str(d)), area |-> A, date |-> One(Str("0")), time |-> One(Str(k)),
   step |-> One(Str(s)), kind |-> One(Str(k))]

SomeNotifications ==
  {Notice(d, "0", "0") : d \in {"A", "a", "B"}}
  \cup {Notice("A", s, k) : s \in {"0", "00", ""}, k \in {"0", "06"}}
  \cup {[Notice("A", "0", "0") EXCEPT !.kind = A]}
  \cup {[Notice("A", "0", "0") EXCEPT !.area = One(Str(t))] : t \in {"0", "00"}}

SomeTriggers == [l \in Listeners |-> <<"function", "command">>]

(* The hypotheses of the theorems hold here *)
ASSUME InputsAssumption == FaithfulInputs /\ SettledInputs
=============================================================================
