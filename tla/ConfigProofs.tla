---------------------------- MODULE ConfigProofs ----------------------------
(***************************************************************************)
(* Theorems about ConfigFile for every set of keys, texts and numbers and  *)
(* every file: writing the settings back never changes them.               *)
(***************************************************************************)
EXTENDS ConfigFile, TLAPS, FiniteSetTheorems, WellFoundedInduction

-----------------------------------------------------------------------------
(* What a key's last line is.                                              *)

LEMMA LastExists ==
  ASSUME NEW n \in Nat, NEW L, L \subseteq 1 .. n, L # {}
  PROVE  \E i \in L : \A j \in L : j <= i
<1> DEFINE T == {n - i : i \in L}
<1>1. T \subseteq Nat /\ T # {}
  <2>1. \A i \in L : n - i \in Nat
    OBVIOUS
  <2>2. T # {}
    OBVIOUS
  <2> QED BY <2>1, <2>2, Zenon
<1>2. PICK x \in T : \A y \in T : ~ (<<y, x>> \in OpToRel(<, Nat))
  BY <1>1, NatLessThanWellFounded, WFMin
<1>3. \A y \in T : ~(y < x)
  BY <1>1, <1>2 DEF OpToRel
<1>4. PICK i \in L : x = n - i
  OBVIOUS
<1>5. \A j \in L : j <= i
  <2> TAKE j \in L
  <2>1. n - j \in T
    OBVIOUS
  <2> QED BY <1>3, <1>4, <2>1
<1> QED BY <1>5

LEMMA FileMapIsLast ==
  ASSUME NEW content \in Seq(Line), NEW k,
         NEW i \in LinesOf(content, k), \A j \in LinesOf(content, k) : j <= i
  PROVE  FileMap(content, k) = content[i].text
<1> DEFINE L == LinesOf(content, k)
           Newest(x) == \A j \in L : j <= x
<1>1. L \subseteq Nat
  BY DEF LinesOf
<1>2. \A x, y \in L : Newest(x) /\ Newest(y) => x = y
  BY <1>1
<1>3. i \in L /\ Newest(i)
  OBVIOUS
<1> HIDE DEF L, Newest
<1>4. (CHOOSE x \in L : Newest(x)) = i
  BY <1>2, <1>3
<1> QED BY <1>3, <1>4 DEF FileMap, L, Newest

LEMMA LastLine ==
  ASSUME NEW content \in Seq(Line), NEW k, LinesOf(content, k) # {}
  PROVE  \E i \in LinesOf(content, k) :
           /\ \A j \in LinesOf(content, k) : j <= i
           /\ FileMap(content, k) = content[i].text
<1>1. LinesOf(content, k) \subseteq 1 .. Len(content) /\ Len(content) \in Nat
  BY DEF LinesOf
<1>2. PICK i \in LinesOf(content, k) : \A j \in LinesOf(content, k) : j <= i
  BY <1>1, LastExists
<1> QED BY <1>2, FileMapIsLast

LEMMA FileMapType ==
  ASSUME NEW content \in Seq(Line), NEW k
  PROVE  FileMap(content, k) \in Text
<1>1. CASE LinesOf(content, k) = {}
  BY <1>1, ConfigAssumption DEF FileMap
<1>2. CASE LinesOf(content, k) # {}
  <2>1. PICK i \in LinesOf(content, k) : FileMap(content, k) = content[i].text
    BY <1>2, LastLine
  <2>2. content[i] \in Line
    BY DEF LinesOf
  <2> QED BY <2>1, <2>2 DEF Line
<1> QED BY <1>1, <1>2

-----------------------------------------------------------------------------
(* Text and values.                                                        *)

LEMMA FromStringValue ==
  ASSUME NEW k \in Key, NEW t \in Text, ~Throws(k, t)
  PROVE  FromString(k, t) \in Value(k) /\ FromString(k, t) \in Text
<1>1. CASE k \in Numeric
  BY <1>1, ConfigAssumption DEF FromString, Value, Throws
<1>2. CASE k \in Flag
  BY <1>2, ConfigAssumption DEF FromString, Value
<1>3. CASE k \notin Numeric \cup Flag
  BY <1>3, ConfigAssumption DEF FromString, Value
<1> QED BY <1>1, <1>2, <1>3

(* What ToString wrote, FromString takes, and makes the same value of it.  *)
LEMMA ValueReadBack ==
  ASSUME NEW k \in Key, NEW v \in Value(k)
  PROVE  ~Throws(k, v) /\ FromString(k, v) = v
<1>1. CASE k \in Numeric
  BY <1>1, ConfigAssumption DEF FromString, Value, Throws
<1>2. CASE k \in Flag
  BY <1>2, ConfigAssumption DEF FromString, Value, Throws
<1>3. CASE k \notin Numeric \cup Flag
  BY <1>3, ConfigAssumption DEF FromString, Value, Throws
<1> QED BY <1>1, <1>2, <1>3

LEMMA ReadConfigType ==
  ASSUME NEW content \in Seq(Line), ~ReadThrows(content)
  PROVE  ReadConfig(content) \in Config
<1>1. \A k \in Key : /\ FromString(k, FileMap(content, k)) \in Value(k)
                     /\ FromString(k, FileMap(content, k)) \in Text
  BY FromStringValue, FileMapType DEF ReadThrows
<1> QED BY <1>1 DEF ReadConfig, Config

-----------------------------------------------------------------------------
(* The lines that SyncToConfig leaves.                                     *)

LEMMA MissingKeysListed ==
  ASSUME NEW content
  PROVE  LET m == MissingKeys(content)
         IN /\ m \in Seq(Key)
            /\ \A q \in 1 .. Len(m) : LinesOf(content, m[q]) = {}
            /\ \A q, r \in 1 .. Len(m) : m[q] = m[r] => q = r
            /\ \A k \in Key : LinesOf(content, k) = {} =>
                 \E q \in 1 .. Len(m) : m[q] = k
<1> DEFINE S == {k \in Key : LinesOf(content, k) = {}}
           n == Cardinality(S)
           m == MissingKeys(content)
<1>1. IsFiniteSet(S)
  BY FS_Subset, ConfigAssumption
<1>2. n \in Nat /\ \E f \in [1 .. n -> S] : f \in Bijection(1 .. n, S)
  BY <1>1, FS_CardinalityType, Zenon DEF ExistsBijection, Bijection, Injection
<1>3. m \in [1 .. n -> S] /\ IsInjective(m)
  BY <1>2 DEF MissingKeys, SetToSeq, Bijection, Injection
<1>4. m \in Injection(1 .. n, S)
  BY <1>3 DEF Injection
<1>5. IsFiniteSet(1 .. n) /\ Cardinality(1 .. n) = n
  BY <1>2, FS_Interval
<1>6. m \in Surjection(1 .. n, S)
  BY <1>1, <1>4, <1>5, FS_Injection
<1> HIDE DEF n, m
<1>7. m \in Seq(Key) /\ Len(m) = n
  BY <1>2, <1>3
<1> QED BY <1>3, <1>6, <1>7 DEF IsInjective, Surjection, m

LEMMA NewLines ==
  ASSUME NEW content \in Seq(Line), NEW values \in Config
  PROVE  LET s == SyncToConfig(content, values)
             m == MissingKeys(content)
             n == Len(content)
         IN /\ s \in Seq(Line) /\ Len(s) = n + Len(m)
            /\ \A i \in 1 .. n : /\ s[i].key = content[i].key
                                 /\ s[i].text = content[i].text
                                 /\ s[i].returns > 0
            /\ \A q \in 1 .. Len(m) : /\ s[n + q].key = m[q]
                                      /\ s[n + q].text = values[m[q]]
                                      /\ s[n + q].returns > 0
<1> DEFINE m == MissingKeys(content)
           n == Len(content)
           added == [i \in DOMAIN m |-> NewLine(m[i], values[m[i]])]
           all == content \o added
           s == SyncToConfig(content, values)
<1>1. m \in Seq(Key)
  BY MissingKeysListed
<1>2. \A k \in Key : NewLine(k, values[k]) \in Line
  BY DEF NewLine, Line, Config
<1> HIDE DEF m
<1>3. added \in Seq(Line) /\ Len(added) = Len(m)
  BY <1>1, <1>2
<1>4. \A q \in 1 .. Len(m) : added[q] = NewLine(m[q], values[m[q]])
  BY <1>1
<1> HIDE DEF added
<1>5. /\ all \in Seq(Line) /\ Len(all) = n + Len(m)
      /\ \A i \in 1 .. n : all[i] = content[i]
      /\ \A q \in 1 .. Len(m) : all[n + q] = added[q]
  BY <1>1, <1>3
<1>6. s = [i \in DOMAIN all |-> [all[i] EXCEPT !.returns = @ + 1]]
  BY DEF SyncToConfig, Rewritten, added, m
<1> HIDE DEF all, s
<1>7. \A line \in Line : [line EXCEPT !.returns = @ + 1] \in Line
  BY DEF Line
<1>8. s \in Seq(Line) /\ Len(s) = Len(all)
  BY <1>5, <1>6, <1>7
<1>9. \A i \in 1 .. Len(all) : s[i] = [all[i] EXCEPT !.returns = @ + 1]
  BY <1>5, <1>6
<1>10. ASSUME NEW i \in 1 .. n
       PROVE  /\ s[i].key = content[i].key /\ s[i].text = content[i].text
              /\ s[i].returns > 0
  <2>1. i \in 1 .. Len(all) /\ all[i] = content[i]
    BY <1>1, <1>5
  <2>2. s[i] = [content[i] EXCEPT !.returns = @ + 1]
    BY <1>9, <2>1
  <2>3. content[i] \in Line
    OBVIOUS
  <2> QED BY <2>2, <2>3 DEF Line
<1>11. ASSUME NEW q \in 1 .. Len(m)
       PROVE  /\ s[n + q].key = m[q] /\ s[n + q].text = values[m[q]]
              /\ s[n + q].returns > 0
  <2>1. n + q \in 1 .. Len(all) /\ all[n + q] = NewLine(m[q], values[m[q]])
    BY <1>1, <1>4, <1>5
  <2>2. s[n + q] = [NewLine(m[q], values[m[q]]) EXCEPT !.returns = @ + 1]
    BY <1>9, <2>1
  <2> QED BY <2>2 DEF NewLine
<1> QED BY <1>5, <1>8, <1>10, <1>11 DEF s, m

-----------------------------------------------------------------------------
(* Writing back keeps the settings: every line that counted still does,    *)
(* the last of each key is still the last, and a key that had none gets a  *)
(* line of its own (configfile.cpp:39-47, 149-200).                        *)

LEMMA KeptKey ==
  ASSUME NEW content \in Seq(Line), NEW values \in Config,
         NoEmptyRepeat(content), NEW k \in Key, LinesOf(content, k) # {}
  PROVE  FileMap(SyncToConfig(content, values), k) = FileMap(content, k)
<1> DEFINE m == MissingKeys(content)
           n == Len(content)
           s == SyncToConfig(content, values)
<1>1. PICK i \in LinesOf(content, k) :
        /\ \A j \in LinesOf(content, k) : j <= i
        /\ FileMap(content, k) = content[i].text
  BY LastLine
<1>2. /\ i \in 1 .. n /\ content[i] \in Line
      /\ HasPair(content[i]) /\ content[i].key = k
  BY DEF LinesOf
<1>3. /\ s \in Seq(Line) /\ Len(s) = n + Len(m)
      /\ \A j \in 1 .. n : /\ s[j].key = content[j].key
                           /\ s[j].text = content[j].text
                           /\ s[j].returns > 0
      /\ \A q \in 1 .. Len(m) : s[n + q].key = m[q]
  BY NewLines
<1>4. Len(m) \in Nat /\ n \in Nat
  BY MissingKeysListed
<1>8. \A q \in 1 .. Len(m) : LinesOf(content, m[q]) = {}
  BY MissingKeysListed, Zenon
<1>9. \A j \in 1 .. n : j \in DOMAIN content /\ content[j] \in Line
  OBVIOUS
<1> HIDE DEF s, m, n
<1>5. i \in LinesOf(s, k) /\ s[i].text = content[i].text
  <2>2. s[i].key = k /\ s[i].text = content[i].text /\ s[i].returns > 0
    BY <1>2, <1>3
  <2>3. i \in DOMAIN s
    BY <1>2, <1>3, <1>4
  <2> QED BY <1>2, <2>2, <2>3 DEF LinesOf, HasPair
<1>6. ASSUME NEW j \in LinesOf(s, k) PROVE j <= i
  <2>1. j \in 1 .. n + Len(m) /\ s[j].key = k
    BY <1>3, <1>4 DEF LinesOf
  <2>2. CASE j \in 1 .. n
    <3>1. j \in DOMAIN content /\ content[j].key = k
      BY <1>3, <1>9, <2>1, <2>2
    <3>2. CASE HasPair(content[j])
      <4>1. j \in LinesOf(content, k)
        BY <3>1, <3>2 DEF LinesOf
      <4> QED BY <1>1, <4>1
    <3>3. CASE ~HasPair(content[j])
      <4>1. \A l \in LinesOf(content, k) : j < l
        BY <3>1, <3>3, ConfigAssumption DEF NoEmptyRepeat
      <4> QED BY <1>2, <1>4, <2>2, <4>1
    <3> QED BY <3>2, <3>3
  <2>3. CASE j \notin 1 .. n
    <3>1. PICK q \in 1 .. Len(m) : j = n + q
      <4>1. j - n \in 1 .. Len(m) /\ j = n + (j - n)
        BY <1>4, <2>1, <2>3
      <4> QED BY <4>1
    <3>2. m[q] = k
      BY <1>3, <2>1, <3>1
    <3> QED BY <1>8, <3>2
  <2> QED BY <2>2, <2>3
<1>7. FileMap(s, k) = s[i].text
  BY <1>3, <1>5, <1>6, FileMapIsLast
<1> QED BY <1>1, <1>5, <1>7 DEF s

LEMMA AddedKey ==
  ASSUME NEW content \in Seq(Line), NEW values \in Config,
         NEW k \in Key, LinesOf(content, k) = {}
  PROVE  FileMap(SyncToConfig(content, values), k) = values[k]
<1> DEFINE m == MissingKeys(content)
           n == Len(content)
           s == SyncToConfig(content, values)
<1>1. /\ s \in Seq(Line) /\ Len(s) = n + Len(m)
      /\ \A q \in 1 .. Len(m) : /\ s[n + q].key = m[q]
                                /\ s[n + q].text = values[m[q]]
                                /\ s[n + q].returns > 0
  BY NewLines
<1>2. /\ Len(m) \in Nat /\ n \in Nat /\ m \in Seq(Key)
      /\ \A q, r \in 1 .. Len(m) : m[q] = m[r] => q = r
  BY MissingKeysListed
<1>3. PICK q \in 1 .. Len(m) : m[q] = k
  BY MissingKeysListed
<1> HIDE DEF s, m, n
<1>4. n + q \in LinesOf(s, k) /\ s[n + q].text = values[k]
  <2>1. /\ s[n + q].key = k /\ s[n + q].text = values[k]
        /\ s[n + q].returns > 0
    BY <1>1, <1>3
  <2>2. n + q \in DOMAIN s
    BY <1>1, <1>2
  <2> QED BY <2>1, <2>2, ConfigAssumption DEF LinesOf, HasPair
<1>5. ASSUME NEW j \in LinesOf(s, k) PROVE j <= n + q
  <2>1. j \in 1 .. n + Len(m) /\ s[j].key = k
    BY <1>1, <1>2 DEF LinesOf
  <2>2. CASE j <= n
    BY <1>2, <2>1, <2>2
  <2>3. CASE j > n
    <3>1. PICK r \in 1 .. Len(m) : j = n + r
      <4>1. j - n \in 1 .. Len(m) /\ j = n + (j - n)
        BY <1>2, <2>1, <2>3
      <4> QED BY <4>1
    <3>2. m[r] = k
      BY <1>1, <2>1, <3>1
    <3> QED BY <1>2, <1>3, <3>1, <3>2
  <2> QED BY <1>2, <2>1, <2>2, <2>3
<1>6. FileMap(s, k) = s[n + q].text
  BY <1>1, <1>4, <1>5, FileMapIsLast
<1> QED BY <1>4, <1>6 DEF s

LEMMA RewrittenIsPlain ==
  ASSUME NEW content \in Seq(Line), NEW values \in Config
  PROVE  NoEmptyRepeat(SyncToConfig(content, values))
<1> DEFINE m == MissingKeys(content)
           n == Len(content)
           s == SyncToConfig(content, values)
<1>1. /\ s \in Seq(Line) /\ Len(s) = n + Len(m)
      /\ \A i \in 1 .. n : s[i].returns > 0
      /\ \A q \in 1 .. Len(m) : s[n + q].returns > 0
  BY NewLines
<1>2. Len(m) \in Nat /\ n \in Nat
  BY MissingKeysListed
<1> HIDE DEF s, m, n
<1>4. ASSUME NEW i \in DOMAIN s PROVE s[i].returns > 0
  <2>1. i \in 1 .. n + Len(m)
    BY <1>1
  <2>2. CASE i <= n
    <3>1. i \in 1 .. n
      BY <1>2, <2>1, <2>2
    <3> QED BY <1>1, <3>1
  <2>3. CASE i > n
    <3>1. i - n \in 1 .. Len(m) /\ i = n + (i - n)
      BY <1>2, <2>1, <2>3
    <3>2. s[n + (i - n)].returns > 0
      BY <1>1, <3>1
    <3> QED BY <3>1, <3>2
  <2> QED BY <1>2, <2>1, <2>2, <2>3
<1> QED BY <1>4 DEF NoEmptyRepeat, HasPair, s

(* The settings of a process, and the file it writes: the keys that the    *)
(* file had are as it has them, those it lacked as the process has them.   *)
THEOREM RewritingKeepsSettings ==
  ASSUME NEW content \in Seq(Line), NEW values \in Config,
         NoEmptyRepeat(content),
         \A k \in Key : LinesOf(content, k) # {} =>
           /\ ~Throws(k, FileMap(content, k))
           /\ values[k] = FromString(k, FileMap(content, k))
  PROVE  LET s == SyncToConfig(content, values)
         IN /\ s \in Seq(Line) /\ NoEmptyRepeat(s)
            /\ ~ReadThrows(s) /\ ReadConfig(s) = values
<1> DEFINE s == SyncToConfig(content, values)
<1>1. s \in Seq(Line) /\ NoEmptyRepeat(s)
  BY NewLines, RewrittenIsPlain
<1>2. ASSUME NEW k \in Key
      PROVE  ~Throws(k, FileMap(s, k)) /\ FromString(k, FileMap(s, k)) = values[k]
  <2>1. CASE LinesOf(content, k) # {}
    BY <2>1, KeptKey
  <2>2. CASE LinesOf(content, k) = {}
    BY <2>2, AddedKey, ValueReadBack DEF Config
  <2> QED BY <2>1, <2>2
<1> HIDE DEF s
<1>3. ~ReadThrows(s)
  BY <1>2 DEF ReadThrows
<1>4. ReadConfig(s) = values
  BY <1>2 DEF ReadConfig, Config
<1> QED BY <1>1, <1>3, <1>4 DEF s

(* After a rewriting every key has a line that counts.                     *)
LEMMA NoKeyIsMissing ==
  ASSUME NEW content \in Seq(Line), NEW values \in Config, NEW k \in Key
  PROVE  LinesOf(SyncToConfig(content, values), k) # {}
<1> DEFINE m == MissingKeys(content)
           n == Len(content)
           s == SyncToConfig(content, values)
<1>1. /\ s \in Seq(Line) /\ Len(s) = n + Len(m)
      /\ \A i \in 1 .. n : s[i].key = content[i].key /\ s[i].returns > 0
      /\ \A q \in 1 .. Len(m) : s[n + q].key = m[q] /\ s[n + q].returns > 0
  BY NewLines
<1>2. Len(m) \in Nat /\ n \in Nat
  BY MissingKeysListed
<1>3. LinesOf(content, k) = {} => \E q \in 1 .. Len(m) : m[q] = k
  BY MissingKeysListed, Zenon
<1> HIDE DEF s, m
<1>4. ASSUME NEW i \in 1 .. n + Len(m), s[i].key = k, s[i].returns > 0
      PROVE  LinesOf(s, k) # {}
  <2>1. i \in DOMAIN s
    BY <1>1
  <2>2. HasPair(s[i])
    BY <1>4, ConfigAssumption DEF HasPair
  <2>3. i \in LinesOf(s, k)
    BY <1>4, <2>1, <2>2 DEF LinesOf
  <2> QED BY <2>3
<1>5. CASE LinesOf(content, k) # {}
  <2>1. PICK i \in 1 .. n : content[i].key = k
    BY <1>5 DEF LinesOf
  <2> QED BY <1>1, <1>2, <1>4, <2>1 DEF s
<1>6. CASE LinesOf(content, k) = {}
  <2>1. PICK q \in 1 .. Len(m) : m[q] = k
    BY <1>3, <1>6
  <2>2. n + q \in 1 .. n + Len(m)
    BY <1>2
  <2> QED BY <1>1, <1>4, <2>1, <2>2 DEF s
<1> QED BY <1>5, <1>6

(* A start keeps every line of the file, those of keys that the program    *)
(* does not know included, in its place and with its text; and only the    *)
(* first start adds lines: the next one, whatever the settings then are,   *)
(* changes nothing but the line ends (configfile.cpp:39-47, 149-205).      *)
THEOREM RewritingIsStable ==
  ASSUME NEW content \in Seq(Line), NEW values \in Config, NEW again \in Config
  PROVE  LET s == SyncToConfig(content, values)
         IN /\ \A i \in DOMAIN content :
                 /\ i \in DOMAIN s
                 /\ s[i].key = content[i].key /\ s[i].text = content[i].text
            /\ SyncToConfig(s, again) = Rewritten(s)
<1> DEFINE s == SyncToConfig(content, values)
<1>1. /\ s \in Seq(Line)
      /\ \A i \in DOMAIN content :
           /\ i \in DOMAIN s
           /\ s[i].key = content[i].key /\ s[i].text = content[i].text
  <2> DEFINE m == MissingKeys(content)
             n == Len(content)
  <2>1. /\ s \in Seq(Line) /\ Len(s) = n + Len(m)
        /\ \A i \in 1 .. n : s[i].key = content[i].key
                             /\ s[i].text = content[i].text
    BY NewLines
  <2>2. Len(m) \in Nat /\ n \in Nat /\ DOMAIN content = 1 .. n
    BY MissingKeysListed
  <2> HIDE DEF s, m, n
  <2>3. DOMAIN s = 1 .. n + Len(m)
    BY <2>1
  <2> QED BY <2>1, <2>2, <2>3
<1>2. \A k \in Key : LinesOf(s, k) # {}
  BY NoKeyIsMissing
<1> HIDE DEF s
<1>3. MissingKeys(s) = <<>>
  <2> DEFINE m == MissingKeys(s)
  <2>1. m \in Seq(Key) /\ \A q \in 1 .. Len(m) : LinesOf(s, m[q]) = {}
    BY MissingKeysListed
  <2> HIDE DEF m
  <2>2. \A q \in 1 .. Len(m) : m[q] \in Key
    BY <2>1
  <2>3. 1 .. Len(m) = {}
    BY <1>2, <2>1, <2>2
  <2>4. m = <<>>
    BY <2>1, <2>3
  <2> QED BY <2>4 DEF m
<1>4. SyncToConfig(s, again) = Rewritten(s)
  <2> DEFINE added == [i \in DOMAIN MissingKeys(s) |->
                         NewLine(MissingKeys(s)[i], again[MissingKeys(s)[i]])]
  <2>1. added = <<>>
    BY <1>3
  <2>2. s \o added = s
    BY <1>1, <2>1
  <2> HIDE DEF added
  <2>3. SyncToConfig(s, again) = Rewritten(s \o added)
    BY DEF SyncToConfig, added
  <2> QED BY <2>2, <2>3
<1> QED BY <1>1, <1>4 DEF s
=============================================================================
