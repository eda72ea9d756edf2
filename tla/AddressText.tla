----------------------------- MODULE AddressText -----------------------------
(***************************************************************************)
(* ParseAddress and FormatAddress of src/address.go.                       *)
(*                                                                         *)
(* A text is what the four regular expressions take apart after            *)
(* whitespace, case and the leading % are gone: a record                   *)
(*   form    which expression matches: "db", "memory", "timer", "counter", *)
(*           or "other" when none does                                     *)
(*   prefix  the spelling of the area: I E Q A M, T TM, C CT Z, or DB      *)
(*   db      the digits of the DB number                                   *)
(*   width   X, B, W, D, or "" when there is none                          *)
(*   number  the digits of the offset or index                             *)
(*   bit     the digits behind the dot, or Absent                          *)
(* Digits are the number they denote, TooBig when it exceeds 32 bits.      *)
(***************************************************************************)
EXTENDS Items, Integers

Absent == -1
TooBig == -2

Text(form, prefix, db, width, number, bit) ==
    [form |-> form, prefix |-> prefix, db |-> db, width |-> width, number |-> number,
     bit |-> bit]

\* What the expressions let through, by form.
Digits == Nat \cup {TooBig}
Widths == {"X", "B", "W", "D"}
Texts ==
    [form : {"db"}, prefix : {"DB"}, db : Digits, width : Widths, number : Digits,
     bit : Digits \cup {Absent}]
    \cup [form : {"memory"}, prefix : {"I", "E", "Q", "A", "M"}, db : {0},
          width : Widths \cup {""}, number : Digits, bit : Digits \cup {Absent}]
    \cup [form : {"timer"}, prefix : {"T", "TM"}, db : {0}, width : {""}, number : Digits,
          bit : {Absent}]
    \cup [form : {"counter"}, prefix : {"C", "CT", "Z"}, db : {0}, width : {""},
          number : Digits, bit : {Absent}]
    \cup [form : {"other"}, prefix : {""}, db : {0}, width : {""}, number : {0},
          bit : {Absent}]

\* The switches of parseWidth and FormatAddress.
WidthTransport == [X |-> "bit", B |-> "byte", W |-> "word", D |-> "dword"]
WidthLetter == [bit |-> "X", byte |-> "B", word |-> "W", dword |-> "D", real |-> "D"]
AreaPrefix == [input |-> "I", output |-> "Q", marker |-> "M", db |-> "DB"]

\* parseUint
InRange(number, max) == number # TooBig /\ number <= max

AreaOf(text) ==
    CASE text.form # "memory" -> text.form
      [] text.form = "memory" /\ text.prefix \in {"I", "E"} -> "input"
      [] text.form = "memory" /\ text.prefix \in {"Q", "A"} -> "output"
      [] text.form = "memory" /\ text.prefix = "M" -> "marker"

\* parseWidth's transport; a memory address without a width but with a bit is a
\* bit address.
TransportOf(text) ==
    IF text.form \in {"timer", "counter"} THEN text.form
    ELSE LET width == IF text.form = "memory" /\ text.width = "" /\ text.bit # Absent
                        THEN "X" ELSE text.width
         IN WidthTransport[width]

\* The errors of parseUint and parseWidth.
MalformedText(text) ==
    \/ text.form = "other"
    \/ text.form = "db" /\ (~InRange(text.db, MaxUint16) \/ text.db = 0)
    \/ text.number = TooBig
    \/ text.form \in {"timer", "counter"} /\ ~InRange(text.number, Max24)
    \/ text.form \in {"db", "memory"} /\
         \/ text.width = "" /\ text.bit = Absent
         \/ text.width = "X" /\ text.bit = Absent
         \/ text.width \in {"", "X"} /\ text.bit # Absent /\ ~InRange(text.bit, 7)
         \/ text.width \in {"B", "W", "D"} /\ text.bit # Absent

\* The address and transport hint a well-formed text names, as an item.
Named(text) ==
    [area |-> AreaOf(text), db |-> IF text.form = "db" THEN text.db ELSE 0,
     offset |-> text.number, bit |-> IF text.bit = Absent THEN 0 ELSE text.bit,
     transport |-> TransportOf(text), count |-> 1]

\* The error of ParseAddress; without one its result is Named(text).  Timers and
\* counters are not passed to validateItemAddress.
ParseError(text) ==
    IF MalformedText(text) THEN "invalid"
    ELSE IF text.form \in {"timer", "counter"} THEN NoError
    ELSE AddressError(Named(text))

FormatBitWithoutNumber(item) ==    \* mutant: the bit is left out
    Text(IF item.area = "db" THEN "db" ELSE "memory",
         AreaPrefix[item.area], item.db, WidthLetter[item.transport], item.offset,
         IF item.transport = "bit" THEN 0 ELSE Absent)

FormatInBytes(item) ==
    Text(IF item.area = "db" THEN "db" ELSE "memory",
         AreaPrefix[item.area], item.db, WidthLetter[item.transport], item.offset,
         IF item.transport = "bit" THEN item.bit ELSE Absent)

\* FormatAddress, for an item without AddressError.
FormatAddress(item) ==
    IF item.area = "timer" THEN Text("timer", "T", 0, "", item.offset, Absent)
    ELSE IF item.area = "counter" THEN Text("counter", "C", 0, "", item.offset, Absent)
    ELSE FormatInBytes(item)

-----------------------------------------------------------------------------
\* An accepted text names an item that Read and Write accept too, and its
\* canonical spelling is accepted and names the same item.
TextIsCanonicalized(text) ==
    ParseError(text) = NoError =>
        LET canonical == FormatAddress(Named(text))
        IN /\ AddressError(Named(text)) = NoError
           /\ ParseError(canonical) = NoError
           /\ Named(canonical) = Named(text)
           /\ FormatAddress(Named(canonical)) = canonical

\* The text of a valid item parses back to it; only REAL becomes DWORD, the
\* transport hint of the same width.
ItemSurvivesText(item) ==
    AddressError(item) = NoError =>
        LET text == FormatAddress(item)
        IN /\ ParseError(text) = NoError
           /\ Named(text) =
                [item EXCEPT !.transport = IF @ = "real" THEN "dword" ELSE @, !.count = 1]
=============================================================================
