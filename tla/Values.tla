------------------------------- MODULE Values -------------------------------
(***************************************************************************)
(* How a typed value travels as a string (values.py).                      *)
(*                                                                         *)
(* A type is [base, depth]: what it carries after lower-casing, and how    *)
(* often [] follows it.  A Python value and a JSON value is a tree: a      *)
(* function from the paths of its nodes, sequences of positions, to what   *)
(* stands there, a scalar or LIST.  The numbers INF and -INF stand for the *)
(* infinities and |n| > MAXDOUBLE for an integer too large for a double.   *)
(* A text is Text(t), for a text that is no JSON array, or Array(tree).    *)
(***************************************************************************)
EXTENDS Integers, Sequences, Functions

CONSTANTS
    MAXDOUBLE, INF,
    IntWritten, FloatWritten,   \* what json.dumps writes for an integer and for a float
    IntTexts, FloatTexts        \* what int() and float() make of the texts that are numbers

STATUSES == {"UNINITIALIZED", "READY", "BUSY", "WARNING", "ERROR"}
TEXTTYPES == {"string", "roisidentifier", "datetime"}
CHECKED == {"int", "float", "bool", "status"}

Whole(n) == [is |-> "int", n |-> n]
Float(n) == [is |-> "float", n |-> n]
Bool(b) == [is |-> "bool", b |-> b]
Str(t) == [is |-> "str", t |-> t]
DateTime(t) == [is |-> "datetime", t |-> t]
LIST == [is |-> "list"]
Just(scalar) == [path \in {<<>>} |-> scalar]
Text(t) == [is |-> "text", t |-> t]
Array(tree) == [is |-> "array", tree |-> tree]

\* A wrong Double: the sign is forgotten.
DoubleUnsigned(n) == IF n # -INF /\ (n > MAXDOUBLE \/ n < -MAXDOUBLE) THEN INF ELSE n

\* float() of a number: what a double cannot hold is the infinity of its sign.
Double(n) == IF n > MAXDOUBLE THEN INF ELSE IF n < -MAXDOUBLE THEN -INF ELSE n

\* A number is read as what was written for it, and a float is a double.
ASSUME NumbersAssumption ==
    /\ MAXDOUBLE \in Nat /\ INF \in Nat /\ INF > MAXDOUBLE
    /\ DOMAIN IntWritten \cup DOMAIN FloatWritten \subseteq Int
    /\ \A n \in DOMAIN IntWritten :
          /\ IntWritten[n] \in DOMAIN IntTexts /\ IntTexts[IntWritten[n]] = n
          /\ Double(n) = n => n \in DOMAIN FloatWritten
    /\ \A n \in DOMAIN FloatWritten :
          /\ FloatWritten[n] \in DOMAIN FloatTexts /\ FloatTexts[FloatWritten[n]] = n
          /\ Double(n) = n
-----------------------------------------------------------------------------
(* Writing. The result is {} where ValueError is raised, and {the result} otherwise. *)

\* {the function to the members of singletons}, {} when one of them is empty.
AllOrNone(sets) ==
    IF \E i \in DOMAIN sets : sets[i] = {} THEN {}
    ELSE {[i \in DOMAIN sets |-> CHOOSE x \in sets[i] : TRUE]}

When(condition, result) == IF condition THEN {result} ELSE {}

\* What _to_json makes of an item that is not of an array type.
ScalarToJson(base, value) ==
    CASE base \in {"int", "bool"} -> When(value.is = base, value)
      [] base = "float" ->
            IF value.is = "float" THEN {value}
            ELSE When(value.is = "int" /\ Double(value.n) = value.n, Float(value.n))
      [] base = "status" -> When(value.is = "str" /\ value.t \in STATUSES, value)
      [] OTHER -> IF value.is = "datetime" THEN {Str(value.t)}
                  ELSE When(value.is = "str" \/ base \notin TEXTTYPES, value)

\* _to_json: the JSON value that stands for a value. Above the items there are lists; what is
\* below an item belongs to it.
ToJson(type, value) ==
    AllOrNone([path \in DOMAIN value |->
        IF Len(path) < type.depth THEN When(value[path].is = "list", LIST)
        ELSE IF Len(path) = type.depth THEN ScalarToJson(type.base, value[path]) ELSE {value[path]}])

\* json.dumps and str of one scalar.
ScalarText(item) ==
    CASE item.is = "bool" -> IF item.b THEN "true" ELSE "false"
      [] item.is = "int" -> IntWritten[item.n]
      [] item.is = "float" -> FloatWritten[item.n]
      [] OTHER -> item.t
-----------------------------------------------------------------------------
(* Reading *)

\* A scalar of a text (the second half of decode_value).
Scalar(base, text) ==
    CASE base = "int" -> IF text \in DOMAIN IntTexts THEN {Whole(IntTexts[text])} ELSE {}
      [] base = "float" ->
            IF text \in DOMAIN FloatTexts THEN {Float(Double(FloatTexts[text]))} ELSE {}
      [] base = "bool" -> When(text \in {"true", "false"}, Bool(text = "true"))
      [] base = "status" -> When(text \in STATUSES, Str(text))
      [] OTHER -> {Str(text)}

\* What _from_json makes of an item that is not of an array type.
ScalarFromJson(base, item) ==
    CASE base \in {"int", "bool"} -> When(item.is = base, item)
      [] base = "float" -> IF item.is \in {"int", "float"} THEN {Float(Double(item.n))} ELSE {}
      [] OTHER -> IF item.is = "str" THEN Scalar(base, item.t) ELSE {}

\* _from_json: the value that a JSON value stands for.
FromJson(type, tree) ==
    AllOrNone([path \in DOMAIN tree |->
        IF Len(path) < type.depth THEN When(tree[path].is = "list", LIST)
        ELSE IF Len(path) = type.depth THEN ScalarFromJson(type.base, tree[path]) ELSE {tree[path]}])

\* decode_value.
Decode(type, text) ==
    IF type.depth = 0
    THEN IF text.is = "text" THEN {Just(s) : s \in Scalar(type.base, text.t)}
         ELSE When(type.base \notin CHECKED, Just(Str("an array")))
    ELSE IF text.is = "text" THEN {} ELSE FromJson(type, text.tree)

\* encode_value: a str is the text itself, checked against the type.
Encode(type, value) ==
    IF value[<<>>].is = "str"
    THEN IF Decode(type, Text(value[<<>>].t)) = {} THEN {} ELSE {Text(value[<<>>].t)}
    ELSE IF type.depth > 0 THEN {Array(tree) : tree \in ToJson(type, value)}
    ELSE {Text(ScalarText(tree[<<>>])) : tree \in ToJson(type, value)}
=============================================================================
