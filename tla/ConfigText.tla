----------------------------- MODULE ConfigText -----------------------------
(***************************************************************************)
(* The values of a configuration file: Common/Config/ConfigText.h, the log *)
(* levels of Common/Log/LogLevel.h, and the conversions with which the     *)
(* loaders of Server/Config and Client/Config store what they have parsed. *)
(*                                                                         *)
(* A text is a whole number, a number with a fraction, or a word; white    *)
(* space, comments and the case of letters are dropped before anything     *)
(* looks at it, and are dropped here.  A float is kept as a whole number   *)
(* of thousandths.  A file is a sequence of lines, each the head of a      *)
(* section or a key with its text; lines that are neither only cause a     *)
(* warning and are left out, as are all warnings.  Names are in lower      *)
(* case, as the loaders compare them.                                      *)
(*                                                                         *)
(* The largest values of the C++ types are constants, so that a small      *)
(* instance meets every overflow.                                          *)
(***************************************************************************)
EXTENDS Integers

CONSTANTS
    ShortMax,       \* unsigned short
    IntMax,         \* int, RoomId
    UIntMax,        \* std::uint32_t
    LongMax,        \* long long, and the count of every std::chrono duration
    TicksPerMs,     \* ticks of the steady clock in a millisecond
    Infinity        \* the float, in thousandths: above every other float

ASSUME WidthAssumption ==
    /\ {ShortMax, IntMax, UIntMax, LongMax, TicksPerMs} \subseteq Nat \ {0}
    /\ Infinity \in Nat /\ Infinity > 2000 * (LongMax + 1)

ULongMax == 2 * LongMax + 1

Words == {"", "true", "yes", "on", "false", "no", "off", "inf", "nan",
          "trace", "debug", "info", "warning", "warn", "error", "socket", "iocp"}

Number(n) == [form |-> "number", n |-> n, word |-> ""]
Fraction(n) == [form |-> "fraction", n |-> n, word |-> ""]     \* n thousandths
Word(w) == [form |-> "word", n |-> 0, word |-> w]

\* What a file may be made of; no two words are told apart but by the parsers.
Text == [form : {"number", "fraction", "word"}, n : Int, word : STRING]
Lines == [form : {"section"}, name : STRING] \cup [form : {"value"}, key : STRING, text : Text]

SectionLine(name) == [form |-> "section", name |-> name]
ValueLine(key, text) == [form |-> "value", key |-> key, text |-> text]

-----------------------------------------------------------------------------
\* A parser returns the set with the value it found, or the empty set
\* (std::nullopt).

TryParseUnsigned(text) ==
    {n \in {text.n} : text.form = "number" /\ n >= 0 /\ n <= ULongMax}

TryParseSigned(text) ==
    {n \in {text.n} : text.form = "number" /\ n >= -LongMax - 1 /\ n <= LongMax}

TryParseMilliseconds(text) == {n \in TryParseUnsigned(text) : n <= LongMax}

\* std::stof; a NaN fails the comparison that follows in every caller.
TryParseFloat(text) ==
    CASE text.form = "number"   -> {1000 * text.n}
      [] text.form = "fraction" -> {text.n}
      [] text.form = "word"     -> {v \in {Infinity} : text.word = "inf"}

\* 1 for true, 0 for false.
TryParseBool(text) ==
    CASE text.form = "number"   -> {text.n} \cap {0, 1}
      [] text.form = "fraction" -> {}
      [] text.form = "word"     -> {v \in {1} : text.word \in {"true", "yes", "on"}}
                                   \cup {v \in {0} : text.word \in {"false", "no", "off"}}

TryParseLogLevel(text) ==
    IF text.form # "word" THEN {}
    ELSE {l \in {IF text.word = "warn" THEN "warning" ELSE text.word} :
              l \in {"trace", "debug", "info", "warning", "error"}}

Positive(values) == {v \in values : v > 0}
NonNegative(values) == {v \in values : v >= 0}

-----------------------------------------------------------------------------
\* What a conversion to a signed type of that largest value keeps.

Wrapped(n, max) == ((n + max + 1) % (2 * (max + 1))) - (max + 1)

ToInt(n) == Wrapped(n, IntMax)                      \* static_cast<int>
ToCount(n) == Wrapped(n, LongMax)                   \* Seconds(n), Milliseconds(n)
ToDuration(ms) == Wrapped(ms * TicksPerMs, LongMax) \* Duration from Milliseconds

\* A setting takes the value that was parsed and accepted, if there is one.
Kept(values, default) == IF values = {} THEN default ELSE CHOOSE v \in values : TRUE

\* What the validators put in the place of a value that is out of its range.
AboveZero(v, default) == IF v <= 0 THEN default ELSE v
NotBelowZero(v, default) == IF v < 0 THEN default ELSE v
=============================================================================
