------------------------------ MODULE Settings ------------------------------
(***************************************************************************)
(* What a process reads before it does anything: its settings (`.env` and  *)
(* the environment, src/config.rs) and the values of its input wires       *)
(* (src/inputs.rs).  Both are files of one pair per line, read from the    *)
(* top: the first line that is not well-formed is the error, a pair that   *)
(* is given twice counts as it is given last.                              *)
(***************************************************************************)
EXTENDS Integers, Sequences

CONSTANTS
  NumberOf,   \* the texts that parse as a usize, and which number
  RealOf,     \* the texts that parse as a real, and which one
  SizeRange,  \* how many values a usize has
  Checked     \* whether the build checks for overflow

ASSUME SettingsAssumption ==
  /\ DOMAIN NumberOf \subseteq STRING /\ DOMAIN RealOf \subseteq STRING
  /\ SizeRange \in Nat \ {0}
  /\ Checked \in BOOLEAN
  /\ \A text \in DOMAIN NumberOf : NumberOf[text] \in 0 .. SizeRange - 1

(* A line, once comments and surrounding space are gone.                   *)
Blank             == [kind |-> "blank"]
Broken            == [kind |-> "broken"]
Entry(key, value) == [kind |-> "entry", key |-> key, value |-> value]

Places(lines, key) ==
  {i \in DOMAIN lines : lines[i].kind = "entry" /\ lines[i].key = key}

GivenLast(lines, key) ==
  lines[CHOOSE i \in Places(lines, key) : \A j \in Places(lines, key) : j <= i].value

-----------------------------------------------------------------------------
(* Config::load.  A process sees its own environment over the file.        *)

Widths == {"N_BIT", "I_BIT", "L_BIT"}

(* The settings in the order in which they are looked up.                  *)
Keys == <<"N_BIT", "I_BIT", "L_BIT",
          "CIRCUIT", "PREPROCESSING_DIR", "INPUT_DIR", "PARTY0_ADDR">>

Setting(env, lines, key) ==
  IF key \in DOMAIN env THEN env[key] ELSE GivenLast(lines, key)

SettingFault(env, lines, key) ==
  IF key \notin DOMAIN env /\ Places(lines, key) = {} THEN "missing"
  ELSE IF key \in Widths /\ Setting(env, lines, key) \notin DOMAIN NumberOf
  THEN "not a number"
  ELSE "none"

(* Slip: a sum that wraps is taken for the width in every build.           *)
AddsUpWrapped(n, i, l) == (i + l) % SizeRange = n

(* The sum of validate: one that overflows stops a build that checks for   *)
(* it, and wraps around in one that does not.                              *)
AddsUp(n, i, l) ==
  IF Checked THEN i + l < SizeRange /\ i + l = n ELSE (i + l) % SizeRange = n

IsValid(n, i, l) ==
  /\ 2 <= n /\ n <= 64
  /\ AddsUp(n, i, l)
  /\ i >= 2

(* What is wrong with the settings, or "none".                             *)
ConfigFault(env, lines) ==
  LET faulty == {k \in DOMAIN Keys : SettingFault(env, lines, Keys[k]) # "none"}
      width(key) == NumberOf[Setting(env, lines, key)]
  IN  IF \E i \in DOMAIN lines : lines[i] = Broken THEN "syntax"
      ELSE IF faulty # {}
      THEN SettingFault(env, lines, Keys[CHOOSE k \in faulty : \A j \in faulty : k <= j])
      ELSE IF ~IsValid(width("N_BIT"), width("I_BIT"), width("L_BIT")) THEN "invalid"
      ELSE "none"

(* The settings of a process, when nothing is wrong with them.             *)
Configuration(env, lines) ==
  LET width(key) == NumberOf[Setting(env, lines, key)]
  IN  [n_bit |-> width("N_BIT"), i_bit |-> width("I_BIT"), l_bit |-> width("L_BIT"),
       circuit |-> Setting(env, lines, "CIRCUIT")]

-----------------------------------------------------------------------------
(* Inputs::parse.                                                          *)

InputLineFault(line) ==
  CASE line = Broken -> "syntax"
    [] line.kind = "entry" /\ line.value \notin DOMAIN RealOf -> "not a number"
    [] OTHER -> "none"

InputFault(lines) ==
  LET faulty == {i \in DOMAIN lines : InputLineFault(lines[i]) # "none"}
  IN  IF faulty = {}
      THEN "none"
      ELSE InputLineFault(lines[CHOOSE i \in faulty : \A j \in faulty : i <= j])

(* The wires that are given, and their values.                             *)
InputValues(lines) ==
  [wire \in {lines[i].key : i \in {j \in DOMAIN lines : lines[j].kind = "entry"}} |->
     RealOf[GivenLast(lines, wire)]]
=============================================================================
