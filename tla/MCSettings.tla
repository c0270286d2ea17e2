----------------------------- MODULE MCSettings -----------------------------
(* A small instance of Settings for TLC: a setting of each kind.           *)
EXTENDS Settings, TLC

CONSTANTS one, zeroOne, nine, word, NaN

\* "1" and "01" are the same number, "9" is no option, and a word no number.
MCNumberOf == one :> 1 @@ zeroOne :> 1 @@ nine :> 9 @@ word :> NaN

Row(type, context, isDefinedOptions, options) ==
    [type |-> type, context |-> context, isDefinedOptions |-> isDefinedOptions,
     options |-> options]

MCSetting ==
    1 :> Row("Binary", "System", FALSE, {}) @@
    2 :> Row("SingleSelect", "User", TRUE, {1, 2}) @@
    3 :> Row("SingleSelect", "System", FALSE, {}) @@
    4 :> Row("MultiSelect", "System", TRUE, {1, 3})

Data(s, enable, selection, selections) ==
    [settingId |-> s, enable |-> enable, selection |-> selection, selections |-> selections]

On      == Data(1, TRUE, Undefined, Undefined)
Off     == Data(1, FALSE, Undefined, Undefined)
Option  == Data(2, Undefined, zeroOne, Undefined)
Other   == Data(2, Undefined, nine, Undefined)
Text    == Data(3, Undefined, word, Undefined)
Several == Data(4, Undefined, Undefined, <<one, zeroOne>>)
Stray   == Data(4, Undefined, Undefined, <<one, word>>)
Unknown == Data(5, TRUE, Undefined, Undefined)

MCItems == {On, Off, Option, Other, Text, Several, Stray, Unknown}

MCBatches == {<<On, Several, Off>>, <<Off, Unknown, Text>>, <<Stray, Other>>, <<Option>>}
=============================================================================
