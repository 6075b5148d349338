-------------------------------- MODULE Amounts --------------------------------
(***************************************************************************)
(* HAC amounts: a text mantissa:unit stands for mantissa * 10^unit, and    *)
(* the hub counts in Zhu, 10^UnitZhu, with integers of a fixed width.      *)
(* Parsing strips zeroes of the mantissa, then scales with checked         *)
(* arithmetic; formatting strips zeroes of the Zhu.  A text is the pair    *)
(* of its numbers: the digits of a number are not modelled.                *)
(***************************************************************************)
EXTENDS Integers

CONSTANTS
  MaxWord,      \* u64::MAX
  MaxUnit,      \* u8::MAX
  UnitZhu,      \* 240
  UnitMei,      \* 248
  Mantissas,    \* bound: the mantissas tried, some beyond MaxWord
  Counts,       \* bound: whole Mei and satoshi tried
  Error

ASSUME AmountsAssumption ==
  /\ {MaxWord, MaxUnit, UnitZhu, UnitMei} \subseteq Nat
  /\ UnitZhu <= UnitMei /\ UnitMei <= MaxUnit
  /\ Mantissas \subseteq Nat /\ Counts \subseteq Nat /\ Error \notin Nat

VARIABLES
  text,    \* the text in hand
  value,   \* what it was parsed to, Error, or not parsed yet
  first    \* the text the request brought

amountVars == <<text, value, first>>

-----------------------------------------------------------------------------
Unparsed == -1
Empty == [mantissa |-> 0, unit |-> 0]
Texts == [mantissa : Mantissas, unit : 0 .. MaxUnit + 1]

\* Power[k] is 10^k.
Power[k \in 0 .. MaxUnit + 1] == IF k = 0 THEN 1 ELSE 10 * Power[k - 1]

(* Strip zeroes of the mantissa into the unit, as far as a unit can go. *)
Stripped(t) ==
  LET k == CHOOSE n \in 0 .. (IF t.unit <= MaxUnit THEN MaxUnit - t.unit ELSE 0) :
             /\ t.mantissa % Power[n] = 0
             /\ t.unit + n < MaxUnit => t.mantissa % Power[n + 1] # 0
  IN [mantissa |-> t.mantissa \div Power[k], unit |-> t.unit + k]

Checked(n) == IF n <= MaxWord THEN n ELSE Error

\* Mutant of Parse: digits below one Zhu are cut off.
ParseCutting(t) ==
  IF t.mantissa = 0 THEN 0
  ELSE IF t.mantissa > MaxWord \/ t.unit > MaxUnit THEN Error
  ELSE LET s == Stripped(t)
       IN IF s.unit < UnitZhu THEN s.mantissa \div Power[UnitZhu - s.unit]
          ELSE Checked(s.mantissa * Power[s.unit - UnitZhu])

\* Mutant of Parse: the product is not checked.
ParseUnchecked(t) ==
  IF t.mantissa = 0 THEN 0
  ELSE IF t.mantissa > MaxWord \/ t.unit > MaxUnit THEN Error
  ELSE LET s == Stripped(t)
       IN IF s.unit < UnitZhu THEN Error ELSE s.mantissa * Power[s.unit - UnitZhu]

(***************************************************************************)
(* HacAmount::parse: Zhu, or an error for a number that is too wide, finer *)
(* than one Zhu, or too large.  A zero mantissa with a readable unit is 0. *)
(***************************************************************************)
Parse(t) ==
  IF t = Empty THEN 0
  ELSE IF t.mantissa > MaxWord \/ t.unit > MaxUnit THEN Error
  ELSE IF t.mantissa = 0 THEN 0
  ELSE LET s == Stripped(t)
       IN IF s.unit < UnitZhu \/ Power[s.unit - UnitZhu] > MaxWord THEN Error
          ELSE Checked(s.mantissa * Power[s.unit - UnitZhu])

(* format_zhu. *)
Format(zhu) ==
  IF zhu = 0 THEN Empty ELSE Stripped([mantissa |-> zhu, unit |-> UnitZhu])

(* AmountInput::resolve: the text, or whole Mei under either of two names. *)
Resolve(t, mei, alias) ==
  LET whole == IF mei > 0 THEN mei ELSE alias
  IN IF t = Empty /\ whole > 0 THEN [mantissa |-> whole, unit |-> UnitMei] ELSE t
-----------------------------------------------------------------------------
AmountTypeOK ==
  /\ text \in [mantissa : Nat, unit : 0 .. MaxUnit + 1]
  /\ first \in [mantissa : Nat, unit : 0 .. MaxUnit + 1]
  /\ value \in 0 .. MaxWord \cup {Unparsed, Error}

(* A request with an amount in any of its fields. *)
AmountInit ==
  /\ \E t \in Texts, mei, alias \in Counts : first = Resolve(t, mei, alias)
  /\ text = first /\ value = Unparsed

ParseAmount ==
  /\ value = Unparsed
  /\ value' = Parse(text)
  /\ UNCHANGED <<text, first>>

(* normalize_hac: the amount goes on to sessions and peers as formatted. *)
FormatAmount ==
  /\ value \notin {Unparsed, Error}
  /\ text' = Format(value) /\ value' = Unparsed
  /\ UNCHANGED first

AmountStep == ParseAmount \/ FormatAmount

AmountSpec == AmountInit /\ [][AmountStep]_amountVars
-----------------------------------------------------------------------------
(* Properties.                                                             *)

(* An amount is accepted exactly when it is a whole number of Zhu that the *)
(* width can hold, and then parsed to that number; a reformatted one is    *)
(* never refused and never changed, however often it is passed on.         *)
ValueExact ==
  value # Unparsed =>
    LET amount == first.mantissa * Power[first.unit]
        readable == first = Empty \/ (first.mantissa <= MaxWord /\ first.unit <= MaxUnit)
    IN /\ (value # Error) <=> /\ readable
                              /\ amount % Power[UnitZhu] = 0
                              /\ amount \div Power[UnitZhu] <= MaxWord
       /\ value # Error => amount = value * Power[UnitZhu]

(* Amounts are read and written back exactly, within the width.            *)
AmountExact == AmountTypeOK /\ ValueExact
=============================================================================
