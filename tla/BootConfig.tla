----------------------------- MODULE BootConfig -----------------------------
(***************************************************************************)
(* josh_boot_config_parse (boot/core/config.c).  The file is read line by  *)
(* line and invented as it is read: each line is any line.  Blank and      *)
(* comment lines change nothing and are left out.  The value of a text     *)
(* field is valid or not (entry names also have an identity); numbers are  *)
(* read digit by digit in a 32-bit word, flag lists token by token.        *)
(***************************************************************************)
EXTENDS Integers, Sequences, FiniteSets, Functions

CONSTANTS
  UMax,         \* UINT32_MAX
  MaxTimeout,   \* 30 in the code
  Digits,       \* digits that occur in a number
  MaxLength     \* bound: digits of a number, tokens of a flag list

ASSUME BootConfigAssumption ==
  /\ UMax \in Nat \ {0}
  /\ MaxTimeout \in Nat
  /\ Digits \subseteq 0..9
  /\ MaxLength \in Nat

Paths    == {"kernel", "previous_kernel", "recovery_kernel"}
Names    == {"default", "entry"}
Numbers  == {"version", "timeout"}
Fields   == Paths \cup Names \cup Numbers \cup {"name", "cmdline", "flags"}

Required == {"version", "default", "timeout", "entry", "name", "kernel"}

Tokens == {"recovery", "development", "other"}
Absent == "absent"

\* In the history: a value that is no number.
NoNumber == -1

\* Values of a text field: entry_id_valid, display_name_valid, path_valid and
\* command_line_valid take all but "bad".
Texts(f) == IF f \in Names THEN {"e1", "e2", "bad"} ELSE {"valid", "bad"}

VARIABLES
  parse,
  seen,      \* fields seen
  config,    \* josh_boot_config_t; Absent for a zeroed field
  key,       \* field of the line being read
  text,      \* its digits or tokens so far
  number,    \* parse_u32's result
  flags,     \* parse_flags' result
  verdict,
  spelled,   \* history: the number the digits spell, whatever its size
  given      \* history: what the lines of the file so far say, the one that
             \* ended the parse included: field, value

parseVars == <<parse, seen, config, key, text, number, flags, verdict, spelled, given>>

ParseInit ==
  /\ parse = "start"
  /\ seen = {}
  /\ config = [f \in Fields |-> Absent]
  /\ key = "none"
  /\ text = <<>>
  /\ number = 0
  /\ flags = {}
  /\ verdict = "none"
  /\ spelled = 0
  /\ given = {}

Judge(s) == parse' = "done" /\ verdict' = s

Stop(s) == Judge(s) /\ UNCHANGED <<seen, config, key, text, number, flags, spelled, given>>

\* An empty file, or one of more than JOSH_BOOT_CONFIG_MAX_BYTES.
WrongSize == parse = "start" /\ Stop("too_large")

Begin ==
  /\ parse = "start"
  /\ parse' = "line"
  /\ UNCHANGED <<seen, config, key, text, number, flags, verdict, spelled, given>>

\* A line that is no assignment, or one to a key the loader does not know.
ForeignLine ==
  /\ parse = "line"
  /\ \E s \in {"syntax", "unknown_key", "unsupported_feature"} : Stop(s)

\* set_field: a key seen before ends the parse; otherwise its value is read.
KeyLine(f) ==
  /\ parse = "line"
  /\ key' = f
  /\ seen' = seen \cup {f}
  /\ IF f \in seen THEN Judge("duplicate_key") ELSE parse' = "value" /\ UNCHANGED verdict
  /\ UNCHANGED <<config, text, number, flags, spelled, given>>

\* Where a field's value is stored.
Destination(f) == f

\* The value is stored and the line's locals are forgotten.
Take(v) ==
  /\ config' = [config EXCEPT ![Destination(key)] = v]
  /\ parse' = "line"
  /\ key' = "none"
  /\ text' = <<>>
  /\ number' = 0
  /\ flags' = {}
  /\ spelled' = 0
  /\ UNCHANGED verdict

Refuse(s) == Judge(s) /\ UNCHANGED <<config, key, text, number, flags, spelled>>

\* The line being read says v.
Says(v) == given' = given \cup {<<key, v>>}

TextValue(v) ==
  /\ parse = "value"
  /\ key \notin Numbers \cup {"flags"}
  /\ Says(v)
  /\ IF v = "bad" THEN Refuse("invalid_value") ELSE Take(v)
  /\ UNCHANGED seen

-----------------------------------------------------------------------------
(* parse_u32, set_version and set_timeout. *)

\* Mutant: no overflow test.
FitsAlways(d) == TRUE

Fits(d) == number <= (UMax - d) \div 10

Digit(d) ==
  /\ parse = "value"
  /\ key \in Numbers
  /\ Len(text) < MaxLength
  /\ text' = Append(text, d)
  /\ number' = (number * 10 + d) % (UMax + 1)
  /\ spelled' = spelled * 10 + d
  /\ IF Fits(d) THEN UNCHANGED <<parse, verdict, given>>
     ELSE Judge("invalid_value") /\ Says(spelled')
  /\ UNCHANGED <<seen, config, key, flags>>

\* Something that is not a digit, or no digit at all.
NotANumber ==
  /\ parse = "value"
  /\ key \in Numbers
  /\ Says(NoNumber)
  /\ Refuse("invalid_value")
  /\ UNCHANGED seen

NumberEnds ==
  /\ parse = "value"
  /\ key \in Numbers
  /\ text # <<>>
  /\ Says(spelled)
  /\ IF key = "version" /\ number # 1 THEN Refuse("unsupported_version")
     ELSE IF key = "timeout" /\ number > MaxTimeout THEN Refuse("invalid_value")
     ELSE Take(number)
  /\ UNCHANGED seen

-----------------------------------------------------------------------------
(* parse_flags. *)

TokenRefused(t) == t = "other" \/ t \in flags

Token(t) ==
  /\ parse = "value"
  /\ key = "flags"
  /\ Len(text) < MaxLength
  /\ text' = Append(text, t)
  /\ flags' = flags \cup {t}
  /\ IF TokenRefused(t) THEN Judge("invalid_value") /\ Says(text')
     ELSE UNCHANGED <<parse, verdict, given>>
  /\ UNCHANGED <<seen, config, key, number, spelled>>

\* An empty token: a leading, doubled or trailing comma.
StrayComma ==
  /\ parse = "value"
  /\ key = "flags"
  /\ Says(Append(text, "empty"))
  /\ Refuse("invalid_value")
  /\ UNCHANGED seen

\* The end of the list; no token at all is the empty value or "none".
FlagsEnd ==
  /\ parse = "value"
  /\ key = "flags"
  /\ Says(text)
  /\ Take(flags)
  /\ UNCHANGED seen

-----------------------------------------------------------------------------
EndOfFile ==
  /\ parse = "line"
  /\ IF ~(Required \subseteq seen) THEN Stop("missing_required")
     ELSE IF config["default"] # config["entry"] THEN Stop("invalid_value")
     ELSE Stop("ok")

ParseNext ==
  \/ WrongSize
  \/ Begin
  \/ ForeignLine
  \/ \E f \in Fields : KeyLine(f)
  \/ \E v \in Texts(key) : TextValue(v)
  \/ \E d \in Digits : Digit(d)
  \/ NotANumber
  \/ NumberEnds
  \/ \E t \in Tokens : Token(t)
  \/ StrayComma
  \/ FlagsEnd
  \/ EndOfFile

ParseSpec == ParseInit /\ [][ParseNext]_parseVars
-----------------------------------------------------------------------------
Given(f) == {g[2] : g \in {h \in given : h[1] = f}}

\* A value that may stand in the file, judged by itself.
Acceptable(f, v) ==
  CASE f = "version" -> v = 1
    [] f = "timeout" -> v \in 0..MaxTimeout /\ v <= UMax
    [] f = "flags"   -> IsInjective(v) /\ Range(v) \subseteq {"recovery", "development"}
    [] OTHER         -> v # "bad"

\* "Parser must fail closed on malformed critical values": a file is accepted
\* only if every assignment in it is acceptable by itself, no key comes twice,
\* nothing required is missing and the default names the entry.  In particular
\* no number is accepted for what it is modulo 2^32.
FailsClosed ==
  verdict = "ok" =>
    /\ \A g \in given : Acceptable(g[1], g[2])
    /\ \A f \in Fields : Cardinality(Given(f)) <= 1
    /\ \A f \in {"version", "default", "timeout", "entry", "name", "kernel"} :
         Given(f) # {}
    /\ Given("default") = Given("entry")

\* Whatever the order of its lines, an accepted file is handed on as it is
\* written: each field holds the value its line gives, and a field without a
\* line is absent.  The loaders take an absent path for "no such kernel"; that
\* the current kernel always has one rests on this.
HandedOn ==
  verdict = "ok" =>
    \A f \in Fields :
      IF Given(f) = {} THEN config[f] = Absent
      ELSE \E v \in Given(f) : config[f] = (IF f = "flags" THEN Range(v) ELSE v)

\* A file that was read to its end (no line was refused) is turned down only if
\* something required is missing or the default names another entry: optional
\* fields may come or not, in any order.
AcceptsComplete ==
  (parse = "done" /\ key = "none" /\ verdict \in {"missing_required", "invalid_value"})
    => \/ \E f \in {"version", "default", "timeout", "entry", "name", "kernel"} :
            Given(f) = {}
       \/ Given("default") # Given("entry")

\* A line ends the parse only if its key had a line before or its value may
\* not stand in any file: no good line is turned down, whatever came before it.
RefusesOnlyUnsound ==
  (parse = "done" /\ key # "none")
    => IF verdict = "duplicate_key" THEN Given(key) # {}
       ELSE \E v \in Given(key) : ~Acceptable(key, v)

\* Of the files of known assignments josh_boot_config_parse accepts exactly the
\* well-formed ones, and hands on what they say.
ParsesExactly == FailsClosed /\ HandedOn /\ AcceptsComplete /\ RefusesOnlyUnsound
=============================================================================
