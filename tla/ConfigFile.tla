----------------------------- MODULE ConfigFile -----------------------------
(***************************************************************************)
(* The configuration (configfile.cpp, property.cpp): the settings of the   *)
(* process and the file they are read from and written back to at every    *)
(* start.  A line is a key, a text and the carriage returns before its     *)
(* line feed; the key is NOKEY when the line has no delimiter.  Empty      *)
(* lines are dropped when the file is read and are not modelled, nor are   *)
(* blanks around keys and values, which are trimmed.                       *)
(***************************************************************************)
EXTENDS Integers, FiniteSets, SequencesExt

CONSTANTS
  Key, Numeric, Flag,  (* the linked keys; those of numbers and of bools   *)
  Text,                (* what can stand for a value, "" included          *)
  Number,              (* [texts stoi takes -> what ToString makes of them] *)
  Default              (* [Key -> Text], the values compiled in            *)

NOKEY == "no key"

(* The values that properties can have, as ToString writes them.           *)
Value(k) == CASE k \in Numeric -> {Number[t] : t \in DOMAIN Number}
              [] k \in Flag -> {"true", "false"}
              [] k \in Key \ (Numeric \cup Flag) -> Text
Config == {c \in [Key -> Text] : \A k \in Key : c[k] \in Value(k)}

ASSUME ConfigAssumption ==
  /\ IsFiniteSet(Key)
  /\ Numeric \subseteq Key /\ Flag \subseteq Key \ Numeric
  /\ NOKEY \notin Key
  /\ {"", "true", "false"} \subseteq Text /\ "" \notin DOMAIN Number
  /\ DOMAIN Number \subseteq Text
  /\ \A t \in DOMAIN Number : Number[t] \in DOMAIN Number
                              /\ Number[Number[t]] = Number[t]
  /\ Default \in Config

Line == [key : Key \cup {NOKEY}, text : Text, returns : Nat]

(* GetPairKeyValueFromLine: a delimiter at the very end is none.           *)
HasPair(line) == line.key # NOKEY /\ (line.text # "" \/ line.returns > 0)

(* FileContentToMap and the [] of MapToConfig: the last line of a key      *)
(* counts, and a key that has none is made with an empty value.            *)
LinesOf(content, k) ==
  {i \in DOMAIN content : HasPair(content[i]) /\ content[i].key = k}
FileMap(content, k) ==
  IF LinesOf(content, k) = {} THEN ""
  ELSE content[CHOOSE i \in LinesOf(content, k) :
                 \A j \in LinesOf(content, k) : j <= i].text

(* Mutant: a flag keeps whatever text stands for it.                       *)
FromString_FlagAsIs(k, text) ==
  IF k \in Numeric THEN Number[text] ELSE text

(* SetFromString of a property: stoi throws, any text but "false" is true. *)
Throws(k, text) == k \in Numeric /\ text \notin DOMAIN Number
FromString(k, text) ==
  CASE k \in Numeric -> Number[text]
    [] k \in Flag -> IF text = "false" THEN "false" ELSE "true"
    [] k \in Key \ (Numeric \cup Flag) -> text

ReadThrows(content) == \E k \in Key : Throws(k, FileMap(content, k))
ReadConfig(content) == [k \in Key |-> FromString(k, FileMap(content, k))]

(* No key is given a value and, further down, a line that ends at the      *)
(* delimiter: that line counts for nothing until it has been rewritten.    *)
NoEmptyRepeat(content) ==
  \A i \in DOMAIN content :
    content[i].key # NOKEY /\ ~HasPair(content[i]) =>
      \A j \in LinesOf(content, content[i].key) : i < j

(* GetLineFromPairKeyValue; ReWriteFile ends every line in CR LF, whatever *)
(* it ended in before.                                                     *)
NewLine(k, text) == [key |-> k, text |-> text, returns |-> 0]
Rewritten(content) ==
  [i \in DOMAIN content |-> [content[i] EXCEPT !.returns = @ + 1]]

(* CompareMapToFile, in some order.                                        *)
MissingKeys(content) == SetToSeq({k \in Key : LinesOf(content, k) = {}})

(* Mutant: a missing key is added with the value compiled in.              *)
SyncToConfig_Defaults(content, values) ==
  LET missing == MissingKeys(content)
  IN Rewritten(content \o [i \in DOMAIN missing |->
                             NewLine(missing[i], Default[missing[i]])])

(* SyncToConfig: the lines of the file, then one for each key it lacks.    *)
SyncToConfig(content, values) ==
  LET missing == MissingKeys(content)
  IN Rewritten(content \o [i \in DOMAIN missing |->
                             NewLine(missing[i], values[missing[i]])])

(* OverWriteConfig, for a file that is not there.                          *)
OverWriteConfig(values) == SyncToConfig(<<>>, values)
=============================================================================
