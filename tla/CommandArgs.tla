---------------------------- MODULE CommandArgs ----------------------------
(***************************************************************************)
(* The arguments of a command on their way between a C node and a J node.  *)
(* command.c turns an argument into a CBOR item and an item into an        *)
(* argument; the J node uses the cbor library of jamserver, which follows  *)
(* the CBOR standard: an integer is a kind and a natural number, and the   *)
(* kind NEGINT with n means -1 - n.  command.c writes and reads it as -n.  *)
(* JavaScript has one type of number: the library writes those without a   *)
(* fraction as integers, whatever they came from, and the rest as floating *)
(* point numbers, of which -0, NaN and the infinities get two bytes.       *)
(***************************************************************************)
EXTENDS Integers, Sequences

CONSTANTS
  Half,      \* 2^31: an int is in -Half .. Half - 1
  MaxSafe,   \* Number.MAX_SAFE_INTEGER
  Texts,     \* what strings are taken from
  Wholes,    \* doubles without a fraction
  Fractions, \* the other finite doubles
  Specials   \* minus zero, not-a-number, the infinities

Word == 2 * Half

ASSUME CommandArgsAssumption ==
  Half \in Nat \ {0} /\ MaxSafe \in Nat /\ Word <= MaxSafe /\ Wholes \subseteq Int

Ints == -Half .. Half - 1

(* WHOLE, FRACTION and SPECIAL are the DOUBLE_TYPE of command.h, and a     *)
(* J node's numbers.                                                       *)
Arg(type, val) == [type |-> type, val |-> val]
IntArgs == {Arg("INT", i) : i \in Ints}
Strings == {Arg("STRING", x) : x \in Texts}
Doubles == {Arg("WHOLE", x) : x \in Wholes} \cup {Arg("FRACTION", x) : x \in Fractions}
             \cup {Arg("SPECIAL", x) : x \in Specials}
Args == IntArgs \cup Strings \cup Doubles

Item(major, val) == [major |-> major, val |-> val]

(* abs of an int, taken as unsigned: the least int stays what it is.       *)
Abs32(i) == IF i < 0 THEN -i ELSE i

IntItem(i) == Item(IF i < 0 THEN "NEGINT" ELSE "UINT", Abs32(i))

(* An argument as command_new, command_new_using_arg and                   *)
(* command_qargs_alloc add it to the array; a NULL_TYPE is sent as 0.      *)
ToItem(a) ==
  CASE a.type = "INT" -> IntItem(a.val)
    [] a.type = "NULL" -> IntItem(0)
    [] OTHER -> Item(a.type, a.val)

(* An unsigned 32 bit number as an int. *)
AsInt(u) == IF u < Half THEN u ELSE u - Word

ReadInt_standard(item) ==  \* mutant: reads NEGINTs as the standard has them
  IF item.major = "NEGINT" THEN -1 - item.val ELSE item.val

(* cbor_get_integer: the product is unsigned, and cut to an int.           *)
ReadInt(item) ==
  AsInt(IF item.major = "NEGINT" THEN (Word - item.val) % Word ELSE item.val % Word)

(* What command_from_data may put into args for an item.  It takes any     *)
(* float for one of eight bytes: of a half only four are there to read.    *)
FromItem(item) ==
  CASE item.major \in {"UINT", "NEGINT"} -> {Arg("INT", ReadInt(item))}
    [] item.major = "HALF" -> Doubles
    [] OTHER -> {Arg(item.major, item.val)}

(* The J node's library, reading an item and writing a value.              *)
JValue(item) ==
  CASE item.major = "UINT" -> Arg("WHOLE", item.val)
    [] item.major = "NEGINT" -> Arg("WHOLE", -1 - item.val)
    [] OTHER -> Arg(item.major, item.val)

JItem(v) ==
  CASE v.type = "WHOLE" /\ v.val \in 0..MaxSafe -> Item("UINT", v.val)
    [] v.type = "WHOLE" /\ -1 - v.val \in 0..MaxSafe -> Item("NEGINT", -1 - v.val)
    [] v.type = "SPECIAL" -> Item("HALF", v.val)
    [] OTHER -> Item(v.type, v.val)

(* The result of a function, by the code the translator has given it:      *)
(* activity_complete knows "d" but not the "f" of a float.                 *)
Result(code, a) == IF code \in {"s", "i", "d"} THEN a ELSE Arg("NULL", 0)

(* What goes through the arguments of a call, one by one.                  *)
Each(op(_), s) == [i \in DOMAIN s |-> op(s[i])]
Arrivals(s) == {e \in [DOMAIN s -> Args] : \A i \in DOMAIN s : e[i] \in FromItem(s[i])}
=============================================================================
