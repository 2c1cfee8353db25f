--------------------------- MODULE RetryCycleProofs ---------------------------
(***************************************************************************)
(* Proofs about RetryCycle, Options and EgressKeys: what the options allow, *)
(* which keys are equal, and how the delays of an instance grow, for any    *)
(* options, addresses, word width and number of instances.                  *)
(***************************************************************************)
EXTENDS RetryCycle, InstanceControlProofs, FiniteSetTheorems

-----------------------------------------------------------------------------
(* Powers of two, which the provers know only as sizes of sets of subsets *)

LEMMA PowerIsCardinality ==
  ASSUME NEW n \in Nat
  PROVE  /\ IsFiniteSet(SUBSET (1..n)) /\ Cardinality(SUBSET (1..n)) = 2^n /\ 2^n \in Nat \ {0}
<1>1. IsFiniteSet(1..n) /\ Cardinality(1..n) = n
  BY FS_Interval
<1>2. IsFiniteSet(SUBSET (1..n)) /\ Cardinality(SUBSET (1..n)) = 2^n
  BY <1>1, FS_SUBSET
<1>3. 2^n \in Nat
  BY <1>2, FS_CardinalityType
<1>4. 2^n # 0
  BY <1>2, FS_EmptySet
<1> QED BY <1>2, <1>3, <1>4
LEMMA PowerDoubles ==
  ASSUME NEW n \in Nat
  PROVE  2^(n + 1) = 2 * 2^n
<1> DEFINE A == SUBSET (1..n)
           B == {s \cup {n + 1} : s \in A}
           f == [s \in A |-> s \cup {n + 1}]
<1>1. SUBSET (1..(n + 1)) = A \cup B
  <2>1. \A s \in SUBSET (1..(n + 1)) : s \in A \/ s \in B
    <3> SUFFICES ASSUME NEW s \in SUBSET (1..(n+1)), s \notin A PROVE s \in B
      OBVIOUS
    <3>1. n + 1 \in s
      OBVIOUS
    <3>2. s \ {n + 1} \in A
      OBVIOUS
    <3>3. s = (s \ {n + 1}) \cup {n + 1}
      BY <3>1
    <3>4. (s \ {n + 1}) \cup {n + 1} \in B
      BY <3>2
    <3> QED BY <3>3, <3>4
  <2>2. \A s \in A : s \in SUBSET (1..(n + 1)) /\ s \cup {n + 1} \in SUBSET (1..(n + 1))
    OBVIOUS
  <2>3. \A s \in B : s \in SUBSET (1..(n + 1))
    BY <2>2
  <2>4. A \cup B \subseteq SUBSET (1..(n + 1))
    BY <2>2, <2>3
  <2>5. SUBSET (1..(n + 1)) \subseteq A \cup B
    BY <2>1
  <2> QED BY <2>4, <2>5
<1>2. A \cap B = {}
  OBVIOUS
<1>3. f \in Bijection(A, B)
  <2>1. f \in [A -> B]
    OBVIOUS
  <2>2. \A s, t \in A : f[s] = f[t] => s = t
    <3> SUFFICES ASSUME NEW s \in A, NEW t \in A, s \cup {n + 1} = t \cup {n + 1}
                 PROVE  s = t
      OBVIOUS
    <3>1. n + 1 \notin s /\ n + 1 \notin t
      OBVIOUS
    <3> QED BY <3>1
  <2>3. \A u \in B : \E s \in A : f[s] = u
    OBVIOUS
  <2> QED BY <2>1, <2>2, <2>3 DEF Bijection, Injection, Surjection, IsInjective
<1>4. IsFiniteSet(A) /\ Cardinality(A) = 2^n /\ 2^n \in Nat
  BY PowerIsCardinality
<1>5. IsFiniteSet(B) /\ Cardinality(B) = 2^n
  BY <1>3, <1>4, FS_Bijection DEF ExistsBijection
<1>6. Cardinality(A \cup B) = 2^n + 2^n
  <2>1. Cardinality(A \cup B) = Cardinality(A) + Cardinality(B) - Cardinality(A \cap B)
    BY <1>4, <1>5, FS_Union
  <2>2. Cardinality(A \cap B) = 0
    BY <1>2, FS_EmptySet
  <2> QED BY <1>4, <1>5, <2>1, <2>2
<1>7. Cardinality(SUBSET (1..(n + 1))) = 2^(n + 1)
  BY PowerIsCardinality
<1>8. 2^(n + 1) = 2^n + 2^n
  BY <1>1, <1>6, <1>7
<1> QED BY <1>4, <1>8

-----------------------------------------------------------------------------
(* Options *)

LEMMA DefaultsTyped ==
  ASSUME NEW o \in OptionsRecord
  PROVE  /\ WithDefaults(o) \in OptionsRecord
         /\ WithDefaults(o).keyer \in Keyers
         /\ WithDefaults(o).Min = o.Min /\ WithDefaults(o).Max = o.Max
         /\ WithDefaults(o).max = IfNotPositive(o.max, DefaultMax)
<1>1. /\ IfUnset(o.base, DefaultBase) \in Int \cup {Unset}
      /\ IfUnset(o.keyer, "DedupeByV6") \in Keyers
      /\ IfUnset(o.transport, "socks5") \in Transports \cup {"tcp", Unset}
  BY DefaultsAssumption DEF OptionsRecord, IfUnset, Keyers, Transports
<1>2. /\ IfNotPositive(o.period, DefaultPeriod) \in Int
      /\ IfNotPositive(o.start, DefaultStart) \in Int
      /\ IfNotPositive(o.max, DefaultMax) \in Int
      /\ IfNotPositive(o.concurrency, DefaultConcurrency) \in Int
  BY DefaultsAssumption DEF OptionsRecord, IfNotPositive
<1>3. WithDefaults(o) \in OptionsRecord
  BY <1>1, <1>2 DEF OptionsRecord, WithDefaults
<1>4. /\ WithDefaults(o).keyer = IfUnset(o.keyer, "DedupeByV6")
      /\ WithDefaults(o).Min = o.Min /\ WithDefaults(o).Max = o.Max
      /\ WithDefaults(o).max = IfNotPositive(o.max, DefaultMax)
  BY DEF OptionsRecord, WithDefaults
<1> QED BY <1>1, <1>3, <1>4

(* Options that only set the limits are valid. *)
LEMMA LimitsSuffice ==
  ASSUME NEW o \in OptionsRecord, OnlyLimits(o), o.Min \in 1..o.Max, o.Max <= PortLimit
  PROVE  Valid(WithDefaults(o))
<1> DEFINE w == WithDefaults(o)
<1>1. /\ w.Min = o.Min /\ w.Max = o.Max /\ w.base = DefaultBase /\ w.endpoints = {}
      /\ w.period = DefaultPeriod /\ w.start = DefaultStart /\ w.max = DefaultMax
      /\ w.concurrency = DefaultConcurrency /\ w.transport = "socks5"
  BY DEF OptionsRecord, OnlyLimits, WithDefaults, IfUnset, IfNotPositive
<1>2. o.Min \in Int /\ o.Max \in Int
  BY DEF OptionsRecord
<1> HIDE DEF w
<1>3. Valid(w)
  BY <1>1, <1>2, DefaultsAssumption DEF Valid, IsPort, Transports
<1> QED BY <1>3 DEF w

OptionsInv ==
  /\ made \in {"new", "refused", "running"}
  /\ opts \in OptionsRecord
  /\ made = "running" => Valid(opts) /\ opts.keyer \in Keyers /\ opts.max <= MaxWord
  /\ made # "running" => opts \in Raws
  /\ made = "refused" => ~Valid(WithDefaults(opts))

LEMMA OptionsInit == Init => OptionsInv
BY RetryAssumption DEF Init, OptionsInv

(* The options are settled once. *)
LEMMA OptionsStep == OptionsInv /\ [Next]_vars => OptionsInv'
<1> SUFFICES ASSUME OptionsInv, [Next]_vars PROVE OptionsInv'
  OBVIOUS
<1>1. CASE New
  <2>1. opts \in OptionsRecord /\ opts.max <= MaxWord
    BY <1>1, RetryAssumption DEF New, OptionsInv
  <2>2. WithDefaults(opts).max <= MaxWord
    BY <2>1, DefaultsTyped, RetryAssumption, DefaultsAssumption DEF IfNotPositive
  <2> QED BY <1>1, <2>1, <2>2, DefaultsTyped DEF New, OptionsInv
<1>2. CASE UNCHANGED <<made, opts>>
  BY <1>2 DEF OptionsInv
<1>3. UNCHANGED <<made, opts>> \/ New
  BY DEF Next, Start, Manage, Tick, Coordinator, Call, Lose, Turn, Refused, vars, retryVars
<1> QED BY <1>1, <1>2, <1>3

(* Validate lets through what the rest of the code can start from, and never
   refuses the defaults (options.go:64-166, pool.go:73-98). *)
THEOREM OptionsContractAlways == Spec => []OptionsContract
<1>1. OptionsInv => OptionsContract
  <2> SUFFICES ASSUME OptionsInv PROVE OptionsContract
    OBVIOUS
  <2>1. CASE made = "running"
    <3>1. Valid(opts) /\ opts \in OptionsRecord /\ opts.keyer \in Keyers
      BY <2>1 DEF OptionsInv
    <3>2. /\ opts.Min \in Int /\ opts.Max \in Int /\ opts.start \in Int /\ opts.max \in Int
          /\ opts.period \in Int /\ opts.concurrency \in Int
      BY <3>1 DEF OptionsRecord
    <3> QED BY <2>1, <3>1, <3>2, DefaultsAssumption DEF OptionsContract, Valid, IsPort
  <2>2. CASE made # "running"
    BY <2>2, LimitsSuffice, RetryAssumption DEF OptionsInv, OptionsContract
  <2> QED BY <2>1, <2>2
<1> QED BY <1>1, OptionsInit, OptionsStep, PTL DEF Spec

-----------------------------------------------------------------------------
(* Keys *)

LEMMA PairIs ==
  ASSUME NEW a, NEW b
  PROVE  <<a>> \o <<b>> = <<a, b>>
<1> DEFINE S == {a, b}
<1>1. <<a>> \in Seq(S) /\ <<b>> \in Seq(S) /\ <<a, b>> \in Seq(S)
  OBVIOUS
<1>2. Len(<<a>>) = 1 /\ Len(<<b>>) = 1 /\ Len(<<a, b>>) = 2
  OBVIOUS
<1>3. /\ <<a>> \o <<b>> \in Seq(S) /\ Len(<<a>> \o <<b>>) = 2
      /\ \A n \in 1..2 : (<<a>> \o <<b>>)[n] = IF n <= 1 THEN <<a>>[n] ELSE <<b>>[n - 1]
  BY <1>1, <1>2, ConcatProperties
<1>4. \A n \in 1..2 : (<<a>> \o <<b>>)[n] = <<a, b>>[n]
  BY <1>3
<1> QED BY <1>1, <1>2, <1>3, <1>4, SeqEqual

LEMMA TripleIs ==
  ASSUME NEW a, NEW c, NEW b
  PROVE  <<a, c>> \o <<b>> = <<a, c, b>>
<1> DEFINE S == {a, b, c}
<1>1. <<a, c>> \in Seq(S) /\ <<b>> \in Seq(S) /\ <<a, c, b>> \in Seq(S)
  OBVIOUS
<1>2. Len(<<a, c>>) = 2 /\ Len(<<b>>) = 1 /\ Len(<<a, c, b>>) = 3
  OBVIOUS
<1>3. /\ <<a, c>> \o <<b>> \in Seq(S) /\ Len(<<a, c>> \o <<b>>) = 3
      /\ \A n \in 1..3 : (<<a, c>> \o <<b>>)[n] = IF n <= 2 THEN <<a, c>>[n] ELSE <<b>>[n - 2]
  BY <1>1, <1>2, ConcatProperties
<1>4. \A n \in 1..3 : (<<a, c>> \o <<b>>)[n] = <<a, c, b>>[n]
  BY <1>3
<1> QED BY <1>1, <1>2, <1>3, <1>4, SeqEqual

LEMMA Concats ==
  ASSUME NEW a, NEW b
  PROVE  /\ <<a>> \o <<"|">> = <<a, "|">> /\ <<a, "|">> \o <<b>> = <<a, "|", b>>
         /\ <<>> \o <<"|">> = <<"|">> /\ <<"|">> \o <<b>> = <<"|", b>>
         /\ <<a, "|">> \o <<>> = <<a, "|">>
<1>1. <<"|">> \in Seq({"|"}) /\ <<a, "|">> \in Seq({a, "|"})
  OBVIOUS
<1>2. <<>> \o <<"|">> = <<"|">> /\ <<a, "|">> \o <<>> = <<a, "|">>
  BY <1>1, ConcatEmptySeq
<1> QED BY <1>2, PairIs, TripleIs

(* The key of both families, by what the exit has. *)
LEMMA BothKeyIs ==
  ASSUME NEW e \in Exit
  PROVE  BothKey(e) =
           CASE e.v4 \in Addr4 /\ e.v6 \in Addr6 -> <<e.v4, "|", e.v6>>
             [] e.v4 \in Addr4 /\ e.v6 \notin Addr6 -> <<e.v4, "|">>
             [] e.v4 \notin Addr4 /\ e.v6 \in Addr6 -> <<"|", e.v6>>
             [] OTHER -> <<>>
<1>1. CASE e.v4 \in Addr4
  BY <1>1, Concats DEF BothKey, V4Key, V6Key
<1>2. CASE e.v4 \notin Addr4
  BY <1>2, Concats DEF BothKey, V4Key, V6Key
<1> QED BY <1>1, <1>2

LEMMA KeysExact ==
  ASSUME NEW keyer \in Keyers, NEW e \in Exit, NEW f \in Exit
  PROVE  /\ KeyOf(keyer, e) = KeyOf(keyer, f) <=> Counted(keyer, e) = Counted(keyer, f)
         /\ KeyOf(keyer, e) = <<>> <=> Counted(keyer, e) = {}
<1>1. CASE keyer = "DedupeByV4"
  <2>1. /\ KeyOf(keyer, e) = V4Key(e) /\ KeyOf(keyer, f) = V4Key(f)
        /\ Counted(keyer, e) = {e.v4} \cap Addr4 /\ Counted(keyer, f) = {f.v4} \cap Addr4
    BY <1>1 DEF KeyOf, Counted
  <2> QED BY <2>1 DEF V4Key
<1>2. CASE keyer = "DedupeByV6"
  <2>1. /\ KeyOf(keyer, e) = V6Key(e) /\ KeyOf(keyer, f) = V6Key(f)
        /\ Counted(keyer, e) = {e.v6} \cap Addr6 /\ Counted(keyer, f) = {f.v6} \cap Addr6
    BY <1>2 DEF KeyOf, Counted
  <2> QED BY <2>1 DEF V6Key
<1>3. CASE keyer = "DedupeByBoth"
  <2>1. /\ KeyOf(keyer, e) = BothKey(e) /\ KeyOf(keyer, f) = BothKey(f)
        /\ Counted(keyer, e) = ({e.v4} \cap Addr4) \cup ({e.v6} \cap Addr6)
        /\ Counted(keyer, f) = ({f.v4} \cap Addr4) \cup ({f.v6} \cap Addr6)
    BY <1>3 DEF KeyOf, Counted
  <2>2. "|" \notin Addr4 /\ "|" \notin Addr6 /\ Addr4 \cap Addr6 = {}
    BY AddrAssumption
  <2>3. BothKey(e) = <<>> <=> e.v4 \notin Addr4 /\ e.v6 \notin Addr6
    BY BothKeyIs
  <2>4. BothKey(e) = BothKey(f) <=>
          /\ e.v4 \in Addr4 <=> f.v4 \in Addr4
          /\ e.v6 \in Addr6 <=> f.v6 \in Addr6
          /\ e.v4 \in Addr4 => e.v4 = f.v4
          /\ e.v6 \in Addr6 => e.v6 = f.v6
    BY <2>2, BothKeyIs
  <2>5. Counted(keyer, e) = Counted(keyer, f) <=>
          /\ e.v4 \in Addr4 <=> f.v4 \in Addr4
          /\ e.v6 \in Addr6 <=> f.v6 \in Addr6
          /\ e.v4 \in Addr4 => e.v4 = f.v4
          /\ e.v6 \in Addr6 => e.v6 = f.v6
    BY <2>1, <2>2
  <2>6. Counted(keyer, e) = {} <=> e.v4 \notin Addr4 /\ e.v6 \notin Addr6
    BY <2>1
  <2> QED BY <2>1, <2>3, <2>4, <2>5, <2>6
<1> QED BY <1>1, <1>2, <1>3 DEF Keyers

(* Exits have one key exactly if they share every address the keyer counts
   (egress.go:118-158). *)
THEOREM KeysAreExactAlways == Spec => []KeysAreExact
<1>1. OptionsInv => KeysAreExact
  BY KeysExact, RetryAssumption DEF OptionsInv, KeysAreExact
<1> QED BY <1>1, OptionsInit, OptionsStep, PTL DEF Spec

-----------------------------------------------------------------------------
(* Durations *)

LEMMA PowersGrow ==
  ASSUME NEW n \in Nat, NEW m \in Nat, n <= m
  PROVE  2^n <= 2^m
<1>1. SUBSET (1..n) \in SUBSET (SUBSET (1..m))
  <2>1. 1..n \subseteq 1..m
    OBVIOUS
  <2> QED BY <2>1
<1>2. /\ IsFiniteSet(SUBSET (1..m)) /\ Cardinality(SUBSET (1..m)) = 2^m
      /\ Cardinality(SUBSET (1..n)) = 2^n
  BY PowerIsCardinality
<1>3. SUBSET (1..n) \subseteq SUBSET (1..m)
  BY <1>1
<1>4. Cardinality(SUBSET (1..n)) <= Cardinality(SUBSET (1..m))
  BY <1>2, <1>3, FS_Subset
<1> QED BY <1>2, <1>4

LEMMA WordPowers ==
  /\ 2^WordBits \in Nat \ {0} /\ 2^(WordBits - 1) \in Nat \ {0}
  /\ 2^WordBits = 2 * 2^(WordBits - 1)
<1>1. WordBits \in Nat /\ WordBits - 1 \in Nat /\ (WordBits - 1) + 1 = WordBits
  BY RetryAssumption
<1>2. 2^WordBits \in Nat \ {0}
  BY <1>1, PowerIsCardinality
<1>3. 2^(WordBits - 1) \in Nat \ {0}
  BY <1>1, PowerIsCardinality
<1>4. 2^((WordBits - 1) + 1) = 2 * 2^(WordBits - 1)
  BY <1>1, PowerDoubles
<1> QED BY <1>1, <1>2, <1>3, <1>4

LEMMA WordTyped == \A n \in Int : Word(n) \in Int
BY WordPowers DEF Word

(* A word that is too large for its sign is negative. *)
LEMMA WordIs ==
  ASSUME NEW n \in Nat, n < 2^WordBits
  PROVE  \/ n < 2^(WordBits - 1) /\ Word(n) = n
         \/ n >= 2^(WordBits - 1) /\ Word(n) < 0
<1> DEFINE h == 2^(WordBits - 1)
<1>1. h \in Nat \ {0}
  BY WordPowers
<1>2. 2^WordBits = 2 * h
  BY WordPowers
<1>3. Word(n) = ((n + h) % (2 * h)) - h
  BY <1>2 DEF Word
<1>4. n < 2 * h
  BY <1>2
<1> HIDE DEF h
<1>5. CASE n < h
  <2>1. (n + h) % (2 * h) = n + h
    BY <1>1, <1>5
  <2> QED BY <1>1, <1>3, <1>5, <2>1 DEF h
<1>6. CASE n >= h
  <2>1. (n + h) % (2 * h) = n - h
    BY <1>1, <1>4, <1>6
  <2> QED BY <1>1, <1>3, <1>4, <1>6, <2>1 DEF h
<1> QED BY <1>1, <1>5, <1>6

(* What Validate guarantees about the backoff. *)
LEMMA ValidRange ==
  ASSUME OptionsInv, made = "running"
  PROVE  /\ opts.start \in Nat \ {0} /\ opts.max \in Nat \ {0} /\ opts.start <= opts.max
         /\ opts.max <= MaxWord /\ MaxWord \in Nat
BY RetryAssumption DEF OptionsInv, Valid, OptionsRecord

(* Every delay is positive and at most the maximum, also when the product has
   left the word (instance.go:545-553). *)
LEMMA DelayBounds ==
  ASSUME OptionsInv, made = "running", NEW n \in Nat
  PROVE  BackoffDelay(n) \in 1..opts.max /\ BackoffDelay(n) \in 1..MaxWord
<1>1. opts.start * 2^n \in Int
  BY ValidRange, PowerIsCardinality
<1>2. Word(opts.start * 2^n) \in Int
  BY <1>1, WordTyped
<1> QED BY <1>2, ValidRange DEF BackoffDelay

(* What is returned for a product x that the word, up to h, shows as w. *)
LEMMA ClampedIs ==
  ASSUME NEW start \in Nat \ {0}, NEW max \in Nat, start <= max,
         NEW x \in Nat, start <= x, NEW h \in Nat, NEW w \in Int,
         (x < h /\ w = x) \/ (x >= h /\ w < 0),
         NEW d, d = IF w > max \/ w <= 0 THEN max ELSE w
  PROVE  /\ d \in start..max
         /\ d = IF x >= h \/ x > max THEN max ELSE x
OBVIOUS

(* As long as the product fits the unsigned word, delays grow. *)
LEMMA DelaysGrow ==
  ASSUME OptionsInv, made = "running", FitsShifted, NEW n \in 0..ShiftLimit
  PROVE  /\ BackoffDelay(n) \in opts.start..opts.max
         /\ n < ShiftLimit => BackoffDelay(n) <= BackoffDelay(n + 1)
<1> DEFINE x(m) == opts.start * 2^m
<1>0. n \in Nat /\ ShiftLimit \in Nat /\ n <= ShiftLimit
  BY RetryAssumption
<1>1. ASSUME NEW m \in Nat, m <= ShiftLimit
      PROVE  x(m) \in Nat /\ opts.start <= x(m) /\ x(m) < 2^WordBits
  <2>1. 2^m \in Nat \ {0} /\ 2^ShiftLimit \in Nat /\ 2^m <= 2^ShiftLimit /\ 2^WordBits \in Nat
    BY <1>0, <1>1, PowerIsCardinality, PowersGrow, RetryAssumption
  <2>2. opts.start * 2^m <= opts.start * 2^ShiftLimit /\ opts.start <= opts.start * 2^m
    BY <2>1, ValidRange
  <2>3. opts.start * 2^ShiftLimit < 2^WordBits
    BY DEF FitsShifted
  <2> QED BY <2>1, <2>2, <2>3, ValidRange
<1>2. ASSUME NEW m \in Nat, m <= ShiftLimit
      PROVE  /\ BackoffDelay(m) \in opts.start..opts.max
             /\ BackoffDelay(m) =
                  IF x(m) >= 2^(WordBits - 1) \/ x(m) > opts.max THEN opts.max ELSE x(m)
  <2>1. x(m) \in Nat /\ opts.start <= x(m) /\ x(m) < 2^WordBits
    BY <1>1, <1>2
  <2>2. \/ x(m) < 2^(WordBits - 1) /\ Word(x(m)) = x(m)
        \/ x(m) >= 2^(WordBits - 1) /\ Word(x(m)) < 0
    BY <2>1, WordIs
  <2>3. Word(x(m)) \in Int /\ 2^(WordBits - 1) \in Nat
    BY <2>1, WordTyped, WordPowers
  <2>4. BackoffDelay(m) = IF Word(x(m)) > opts.max \/ Word(x(m)) <= 0 THEN opts.max ELSE Word(x(m))
    BY DEF BackoffDelay
  <2>5. opts.start \in Nat \ {0} /\ opts.max \in Nat /\ opts.start <= opts.max
    BY ValidRange
  <2> QED BY <2>1, <2>2, <2>3, <2>4, <2>5, ClampedIs
<1>3. ASSUME n < ShiftLimit
      PROVE  BackoffDelay(n) <= BackoffDelay(n + 1)
  <2>1. n + 1 \in Nat /\ n + 1 <= ShiftLimit
    BY <1>0, <1>3
  <2>2. x(n + 1) = 2 * x(n)
    <3>1. 2^(n + 1) = 2 * 2^n /\ 2^n \in Nat
      BY <1>0, PowerDoubles, PowerIsCardinality
    <3> QED BY <3>1, ValidRange
  <2>3. x(n) \in Nat /\ x(n + 1) \in Nat /\ 2^(WordBits - 1) \in Nat
    BY <1>0, <1>1, <2>1, WordPowers
  <2>4. /\ BackoffDelay(n) =
             IF x(n) >= 2^(WordBits - 1) \/ x(n) > opts.max THEN opts.max ELSE x(n)
        /\ BackoffDelay(n + 1) =
             IF x(n + 1) >= 2^(WordBits - 1) \/ x(n + 1) > opts.max THEN opts.max ELSE x(n + 1)
    BY <1>0, <1>2, <2>1
  <2>5. opts.max \in Nat
    BY ValidRange
  <2> HIDE DEF x
  <2> QED BY <2>2, <2>3, <2>4, <2>5
<1> QED BY <1>0, <1>2, <1>3

-----------------------------------------------------------------------------
(* Types *)

CountsOK ==
  /\ backoffN \in [Inst -> 0..ShiftLimit]
  /\ empties \in [Inst -> 0..(ProbeFailLimit - 1)]
  /\ calm \in BOOLEAN
  /\ calls \in 0..MaxCalls /\ losses \in 0..MaxCalls

TimesOK ==
  /\ timer \in [Inst -> [len : 0..MaxWord, left : 0..MaxWord]]
  /\ \A i \in Inst : timer[i].left <= timer[i].len
  /\ drawn \in [Inst -> [last : 0..MaxWord, since : 0..MaxWord,
                         faster : BOOLEAN, early : BOOLEAN]]

(* No goroutine runs before newPool has accepted the options. *)
IdleUntilMade == made # "running" => events = <<>> /\ \A i \in Inst : pc[i] = "none"

RetryTyped ==
  /\ FieldsOK /\ QueuesOK /\ EventsOK
  /\ OptionsInv /\ CountsOK /\ TimesOK /\ IdleUntilMade

-----------------------------------------------------------------------------
(* What is true of the delays *)

(* While the timer of a backoff runs it has at least the rest of the delay to
   run, and afterwards the delay has passed. *)
Served(i) ==
  /\ ~drawn[i].early
  /\ pc[i] \in {"build", "reprobe"} => drawn[i].since + timer[i].left >= drawn[i].last
  /\ pc[i] \notin {"build", "reprobe"} => drawn[i].since >= drawn[i].last

(* The last delay is at most the next one. *)
Slowing(i) ==
  /\ ~drawn[i].faster
  /\ \/ drawn[i].last = 0
     \/ /\ drawn[i].last \in opts.start..opts.max
        /\ drawn[i].last <= BackoffDelay(backoffN[i])

SlowInv ==
  /\ made # "running" => \A i \in Inst : drawn[i].last = 0 /\ ~drawn[i].faster
  /\ made = "running" /\ FitsShifted => \A i \in Inst : Slowing(i)

-----------------------------------------------------------------------------
(* What is true of the exits *)

(* An event that does not report an exit of i. *)
Harmless(i) == {e \in Event : ~ (e.inst = i /\ e.kind = "Ready" /\ e.egress # NoExit)}
Unconfirming == CmdKind \ {"Confirm"}

(* An exit that is on its way to being confirmed has been published. *)
NoExitYet(i) ==
  /\ status[i] # "Normal"
  /\ out[i].kind = "Ready" => out[i].egress = NoExit
  /\ events \in Seq(Harmless(i))
  /\ cmds[i] \in Seq(Unconfirming)
  /\ pending[i] \in Seq(Unconfirming)

ExitKnown(i) == egressVal[i] # NoExit \/ NoExitYet(i)

-----------------------------------------------------------------------------
(* Which steps there are *)

LEMMA ManageIsControl ==
  ASSUME NEW i \in Inst, Manage(i)
  PROVE  /\ ControlStep(i) \/ UNCHANGED controlVars
         /\ pc[i] # "none"
<1>1. ControlStep(i) \/ (UNCHANGED controlVars /\ BuildFails(i))
  BY DEF Manage, ConfirmResets, ReprobeWaits, ReplayWaits, DrainWaits, HandleOther, ParkRestarts,
         DrainInterrupted, WaitEnds, BuildFails, BuildSucceeds, ProbeEnds, EmitThen, ControlStep
<1>2. ASSUME ConfirmResets(i) \/ ReprobeWaits(i) \/ ReplayWaits(i) \/ DrainWaits(i) \/ HandleOther(i)
      PROVE  pc[i] # "none"
  <2>1. \/ Confirm(i) \/ Reprobe(i) \/ Replay(i) \/ Drain(i) \/ Disable(i) \/ Enable(i)
        \/ Ignore(i)
    BY <1>2 DEF ConfirmResets, ReprobeWaits, ReplayWaits, DrainWaits, HandleOther
  <2>2. pc[i] = "loop"
    BY <2>1, ControlGuards
  <2> QED BY <2>2
<1>3. ASSUME ParkRestarts(i) \/ DrainInterrupted(i) \/ WaitEnds(i) \/ BuildFails(i)
      PROVE  pc[i] # "none"
  <2>1. pc[i] \in {"build", "reprobe", "drain"}
    BY <1>3 DEF ParkRestarts, DrainInterrupted, WaitEnds, BuildFails, Park, Waiting, DrainDisable,
                ReprobeExpire, DrainExpire
  <2> QED BY <2>1
<1>4. ASSUME BuildSucceeds(i) \/ ProbeEnds(i) \/ EmitThen(i)
      PROVE  pc[i] # "none"
  <2>1. pc[i] \in {"build", "probe", "emit"}
    BY <1>4 DEF BuildSucceeds, ProbeEnds, EmitThen, BuildDone, Probe, Emit
  <2> QED BY <2>1
<1>5. pc[i] # "none"
  BY <1>2, <1>3, <1>4 DEF Manage
<1> QED BY <1>1, <1>5

(* The steps of the goroutine in a pool that is not closed. *)
RunningStep(i) ==
  \/ Confirm(i) \/ Reprobe(i) \/ Replay(i) \/ Drain(i) \/ Disable(i) \/ Enable(i) \/ Ignore(i)
  \/ Park(i) \/ ReprobeExpire(i) \/ DrainExpire(i) \/ DrainDisable(i)
  \/ Create(i) \/ BuildDone(i) \/ Probe(i) \/ Emit(i) \/ HandleLost(i)

LEMMA RunningPart ==
  ASSUME [Next]_vars
  PROVE  UNCHANGED controlVars \/ Coordinator \/ Call \/ \E i \in Inst : RunningStep(i)
<1>1. ASSUME NEW i \in Inst, Manage(i) PROVE RunningStep(i) \/ UNCHANGED controlVars
  BY <1>1 DEF Manage, ConfirmResets, ReprobeWaits, ReplayWaits, DrainWaits, HandleOther,
     ParkRestarts, DrainInterrupted, WaitEnds, BuildFails, BuildSucceeds, ProbeEnds, EmitThen,
     RunningStep
<1>2. CASE \E i \in Inst : Start(i)
  BY <1>2 DEF Start, RunningStep
<1>3. CASE Lose
  BY <1>3 DEF Lose, RunningStep
<1>4. CASE New \/ Tick \/ Turn \/ Refused \/ UNCHANGED vars
  BY <1>4 DEF New, Tick, Turn, Refused, vars
<1> QED BY <1>1, <1>2, <1>3, <1>4 DEF Next

LEMMA ControlPart ==
  ASSUME [Next]_vars
  PROVE  UNCHANGED controlVars \/ Coordinator \/ Call \/ \E i \in Inst : ControlStep(i)
<1>1. \A i \in Inst : RunningStep(i) => ControlStep(i)
  BY DEF RunningStep, ControlStep
<1> QED BY <1>1, RunningPart

(* What is drawn for the next wait. *)
LEMMA Drawing ==
  ASSUME RetryTyped, made = "running", NEW i \in Inst, StartBackoff(i)
  PROVE  \E n \in 0..ShiftLimit, d \in 1..MaxWord :
           /\ n = backoffN[i] /\ d = BackoffDelay(n)
           /\ backoffN' = [backoffN EXCEPT ![i] = Least(n + 1, ShiftLimit)]
           /\ timer' = [timer EXCEPT ![i] = [len |-> d, left |-> d]]
           /\ drawn' = [drawn EXCEPT ![i] =
                [last |-> d, since |-> 0,
                 faster |-> drawn[i].faster \/ d < drawn[i].last,
                 early |-> drawn[i].early \/ drawn[i].since < drawn[i].last]]
<1>1. OptionsInv /\ backoffN[i] \in 0..ShiftLimit /\ ShiftLimit \in Nat
  BY RetryAssumption DEF RetryTyped, CountsOK
<1>2. PICK n \in 0..ShiftLimit : n = backoffN[i]
  BY <1>1
<1>3. n \in Nat
  BY <1>1
<1>4. BackoffDelay(n) \in 1..MaxWord
  BY <1>1, <1>3, DelayBounds
<1>5. PICK d \in 1..MaxWord : d = BackoffDelay(n)
  BY <1>4
<1>6. d = BackoffDelay(backoffN[i])
  BY <1>2, <1>5 DEF BackoffDelay
<1>7. d \in Nat /\ d > 0
  BY <1>5, RetryAssumption
<1>8. backoffN' = [backoffN EXCEPT ![i] = Least(n + 1, ShiftLimit)]
  BY <1>2 DEF StartBackoff
<1>9. timer' = [timer EXCEPT ![i] = [len |-> d, left |-> d]]
  BY <1>6, <1>7 DEF StartBackoff, SetTimer
<1>10. drawn' = [drawn EXCEPT ![i] =
                [last |-> d, since |-> 0,
                 faster |-> drawn[i].faster \/ d < drawn[i].last,
                 early |-> drawn[i].early \/ drawn[i].since < drawn[i].last]]
  BY <1>6 DEF StartBackoff
<1> QED BY <1>2, <1>5, <1>8, <1>9, <1>10

(* An exit without addresses has no key. *)
LEMMA NoExitNoKey == \A keyer \in Keyers : KeyOf(keyer, NoExit) = <<>>
BY AddrAssumption DEF KeyOf, V4Key, V6Key, BothKey, NoExit, Keyers

(* The coordinator sends at most one command to the instance of the event, and
   Confirm only for an exit. *)
LEMMA CoordinatorSends ==
  ASSUME RetryTyped, Coordinator
  PROVE  /\ events # <<>> /\ events' = Tail(events) /\ Head(events) \in Event
         /\ empties' \in [Inst -> 0..(ProbeFailLimit - 1)]
         /\ \/ UNCHANGED cmds
            \/ \E c \in CmdKind :
                 /\ Send(Head(events).inst, c)
                 /\ c = "Confirm" => Head(events).kind = "Ready" /\ Head(events).egress # NoExit
<1>1. events # <<>> /\ events' = Tail(events)
  BY DEF Coordinator
<1>2. Head(events) \in Event
  BY <1>1, HeadTailProperties DEF RetryTyped, EventsOK
<1>3. PICK e \in Event : e = Head(events)
  BY <1>2
<1>4. e.inst \in Inst /\ empties \in [Inst -> 0..(ProbeFailLimit - 1)] /\ ProbeFailLimit \in Nat \ {0}
  BY RetryAssumption DEF Event, RetryTyped, CountsOK
<1>5. CASE e.kind # "Ready"
  BY <1>1, <1>2, <1>3, <1>4, <1>5 DEF Coordinator
<1>6. CASE e.kind = "Ready"
  <2>1. Judge(e.inst, e.egress)
    BY <1>3, <1>6 DEF Coordinator
  <2>2. made = "running" /\ opts.keyer \in Keyers
    BY <1>1 DEF RetryTyped, IdleUntilMade, OptionsInv
  <2>3. empties' \in [Inst -> 0..(ProbeFailLimit - 1)]
    BY <1>4, <2>1 DEF Judge, JudgeEmpty, Forget
  <2>4. \/ Send(e.inst, "Confirm") /\ e.egress # NoExit
        \/ Send(e.inst, "Replay") \/ Send(e.inst, "Reprobe")
    BY <2>1, <2>2, NoExitNoKey DEF Judge, JudgeEmpty, Whitelisted
  <2> QED BY <1>1, <1>2, <1>3, <1>6, <2>3, <2>4 DEF CmdKind
<1> QED BY <1>5, <1>6

-----------------------------------------------------------------------------
(* Every field keeps its type. *)

LEMMA TypedInit == Init => RetryTyped
<1> SUFFICES ASSUME Init PROVE RetryTyped
  OBVIOUS
<1>1. FieldsOK /\ QueuesOK /\ EventsOK
  <2>1. ControlInit("none") /\ "none" \in Places
    BY DEF Init, Places
  <2>2. ControlTypeOK
    BY <2>1, ControlTypeInit
  <2> QED BY <2>2, ControlTypeParts
<1>2. OptionsInv
  BY OptionsInit
<1>3. CountsOK
  <2>1. 0 \in 0..ShiftLimit /\ 0 \in 0..(ProbeFailLimit - 1) /\ 0 \in 0..MaxCalls
    BY RetryAssumption
  <2>2. backoffN = [i \in Inst |-> 0] /\ empties = [i \in Inst |-> 0]
    BY DEF Init
  <2>3. calm = FALSE /\ calls = 0 /\ losses = 0
    BY DEF Init
  <2> QED BY <2>1, <2>2, <2>3 DEF CountsOK
<1>4. TimesOK
  BY RetryAssumption DEF Init, TimesOK, NoTimer, NoDraw
<1>5. IdleUntilMade
  BY DEF Init, IdleUntilMade, ControlInit
<1> QED BY <1>1, <1>2, <1>3, <1>4, <1>5 DEF RetryTyped

LEMMA CallSends ==
  ASSUME Call
  PROVE  \E i \in Inst, c \in CmdKind \ {"Confirm"} : Send(i, c)
BY RetryAssumption DEF Call, CmdKind

LEMMA ControlTypedStep ==
  ASSUME RetryTyped, [Next]_vars
  PROVE  FieldsOK' /\ QueuesOK' /\ EventsOK'
<1>t. FieldsOK /\ QueuesOK /\ EventsOK
  BY DEF RetryTyped
<1>1. CASE UNCHANGED controlVars
  BY <1>t, <1>1 DEF controlVars, FieldsOK, QueuesOK, EventsOK
<1>2. CASE \E i \in Inst : ControlStep(i)
  <2>1. FieldsOK'
    BY <1>t, <1>2, FieldsStep
  <2>2. QueuesOK'
    BY <1>t, <1>2, QueuesStep
  <2>3. EventsOK'
    BY <1>t, <1>2, EventsStep
  <2> QED BY <2>1, <2>2, <2>3
<1>3. CASE Coordinator
  <2>1. FieldsOK'
    BY <1>t, <1>3 DEF Coordinator, face, FieldsOK
  <2>2. EventsOK'
    <3>1. events # <<>> /\ events' = Tail(events) /\ events \in Seq(Event) /\ Len(events) <= EventCap
      BY <1>t, <1>3, CoordinatorSends DEF EventsOK
    <3>2. Tail(events) \in Seq(Event) /\ Len(Tail(events)) = Len(events) - 1 /\ Len(events) \in Nat
      BY <3>1, HeadTailProperties, LenProperties
    <3>3. EventCap \in Nat
      BY ControlAssumption
    <3>4. Len(events') <= EventCap
      BY <3>1, <3>2, <3>3
    <3> QED BY <3>1, <3>2, <3>4 DEF EventsOK
  <2>3. QueuesOK'
    <3>1. Head(events).inst \in Inst
      BY <1>3, CoordinatorSends DEF Event
    <3>2. CASE UNCHANGED cmds
      BY <1>t, <1>3, <3>2 DEF Coordinator, QueuesOK
    <3>3. CASE \E c \in CmdKind : Send(Head(events).inst, c)
      <4>1. cmds' \in [Inst -> Seq(CmdKind)] /\ \A j \in Inst : Len(cmds'[j]) <= CmdCap
        BY <1>t, <3>1, <3>3, SendType
      <4> QED BY <1>t, <1>3, <4>1 DEF Coordinator, QueuesOK
    <3> QED BY <1>3, <3>2, <3>3, CoordinatorSends
  <2> QED BY <2>1, <2>2, <2>3
<1>4. CASE Call
  <2>1. FieldsOK' /\ EventsOK'
    BY <1>t, <1>4 DEF Call, face, FieldsOK, EventsOK
  <2>2. cmds' \in [Inst -> Seq(CmdKind)] /\ \A j \in Inst : Len(cmds'[j]) <= CmdCap
    BY <1>t, <1>4, CallSends, SendType
  <2>3. QueuesOK'
    BY <1>t, <1>4, <2>2 DEF Call, QueuesOK
  <2> QED BY <2>1, <2>3
<1> QED BY <1>1, <1>2, <1>3, <1>4, ControlPart

LEMMA IdleStep ==
  ASSUME RetryTyped, [Next]_vars
  PROVE  IdleUntilMade'
<1>1. CASE made = "running"
  BY <1>1 DEF Next, New, Start, Manage, Tick, Coordinator, Call, Lose, Turn, Refused, vars, retryVars,
     IdleUntilMade
<1>2. CASE made # "running"
  <2>1. events = <<>> /\ \A i \in Inst : pc[i] = "none"
    BY <1>2 DEF RetryTyped, IdleUntilMade
  <2>2. ~Coordinator /\ ~Call /\ (\A i \in Inst : ~Start(i)) /\ ~Turn
    BY <1>2, <2>1 DEF Coordinator, Call, Start, Turn
  <2>3. \A i \in Inst : ~Manage(i)
    BY <2>1, ManageIsControl
  <2>4. ~Lose
    BY <2>1 DEF Lose, HandleLost
  <2>5. UNCHANGED <<pc, events>>
    BY <2>2, <2>3, <2>4 DEF Next, New, Tick, Refused, vars, controlVars
  <2> QED BY <2>1, <2>5 DEF IdleUntilMade
<1> QED BY <1>1, <1>2

(* What a step of the goroutine does to its timer: it starts the next delay, or
   sets or stops the timer, or ends Probing, or leaves all of it alone. *)
LEMMA TimersOfManage ==
  ASSUME RetryTyped, NEW i \in Inst, Manage(i)
  PROVE  \/ StartBackoff(i)
         \/ /\ UNCHANGED <<backoffN, drawn>>
            /\ \E d \in 0..MaxWord : timer' = [timer EXCEPT ![i] = [len |-> d, left |-> d]]
         \/ UNCHANGED <<backoffN, drawn, timer>>
         \/ /\ Confirm(i) /\ UNCHANGED timer
            /\ backoffN' = [backoffN EXCEPT ![i] = 0]
            /\ drawn' = [drawn EXCEPT ![i] = [@ EXCEPT !.last = 0, !.since = 0]]
<1>1. CASE ConfirmResets(i)
  BY <1>1 DEF ConfirmResets
<1>2. CASE ReprobeWaits(i) \/ ReplayWaits(i) \/ BuildFails(i) \/ EmitThen(i)
  BY <1>2 DEF ReprobeWaits, ReplayWaits, BuildFails, EmitThen, NoBackoff
<1>3. CASE DrainWaits(i)
  <2>1. DrainTicks \in 0..MaxWord /\ DrainTicks > 0
    BY RetryAssumption
  <2>2. timer' = [timer EXCEPT ![i] = [len |-> DrainTicks, left |-> DrainTicks]]
    BY <1>3, <2>1 DEF DrainWaits, SetTimer
  <2> QED BY <1>3, <2>1, <2>2 DEF DrainWaits
<1>4. CASE HandleOther(i) \/ ProbeEnds(i)
  BY <1>4 DEF HandleOther, ProbeEnds, NoBackoff
<1>5. CASE ParkRestarts(i)
  <2>1. timer[i].len \in 0..MaxWord
    BY DEF RetryTyped, TimesOK
  <2>2. PICK d \in 0..MaxWord : d = timer[i].len
    BY <2>1
  <2>3. d > 0
    BY <1>5, <2>2 DEF ParkRestarts, Waits
  <2>4. UNCHANGED timer \/ timer' = [timer EXCEPT ![i] = [len |-> d, left |-> d]]
    BY <1>5, <2>2, <2>3 DEF ParkRestarts, SetTimer
  <2> QED BY <1>5, <2>4 DEF ParkRestarts
<1>6. CASE DrainInterrupted(i) \/ WaitEnds(i) \/ BuildSucceeds(i)
  <2>1. timer' = [timer EXCEPT ![i] = [len |-> 0, left |-> 0]] /\ UNCHANGED <<backoffN, drawn>>
    BY <1>6 DEF DrainInterrupted, WaitEnds, BuildSucceeds, StopTimer, NoTimer
  <2>2. 0 \in 0..MaxWord
    BY RetryAssumption
  <2> QED BY <2>1, <2>2
<1> QED BY <1>1, <1>2, <1>3, <1>4, <1>5, <1>6 DEF Manage

LEMMA TimesStep ==
  ASSUME RetryTyped, [Next]_vars
  PROVE  CountsOK' /\ TimesOK'
<1>t. CountsOK /\ TimesOK
  BY DEF RetryTyped
<1>1. ASSUME NEW i \in Inst, Manage(i)
      PROVE  CountsOK' /\ TimesOK'
  <2>1. UNCHANGED <<empties, calm, calls, losses>>
    BY <1>1 DEF Manage
  <2>2. CASE StartBackoff(i)
    <3>1. made = "running"
      BY <1>1, ManageIsControl DEF RetryTyped, IdleUntilMade
    <3>2. PICK n \in 0..ShiftLimit, d \in 1..MaxWord :
           /\ backoffN' = [backoffN EXCEPT ![i] = Least(n + 1, ShiftLimit)]
           /\ timer' = [timer EXCEPT ![i] = [len |-> d, left |-> d]]
           /\ drawn' = [drawn EXCEPT ![i] =
                [last |-> d, since |-> 0,
                 faster |-> drawn[i].faster \/ d < drawn[i].last,
                 early |-> drawn[i].early \/ drawn[i].since < drawn[i].last]]
      BY <2>2, <3>1, Drawing
    <3>3. Least(n + 1, ShiftLimit) \in 0..ShiftLimit
      BY RetryAssumption DEF Least
    <3>4. CountsOK'
      BY <1>t, <2>1, <3>2, <3>3 DEF CountsOK
    <3>5. d \in 0..MaxWord /\ 0 \in 0..MaxWord /\ d <= d
      BY RetryAssumption
    <3>6. timer' \in [Inst -> [len : 0..MaxWord, left : 0..MaxWord]]
      BY <1>t, <3>2, <3>5 DEF TimesOK
    <3>7. \A j \in Inst : timer'[j].left <= timer'[j].len
      BY <1>t, <3>2, <3>5 DEF TimesOK
    <3>8. drawn' \in [Inst -> [last : 0..MaxWord, since : 0..MaxWord, faster : BOOLEAN, early : BOOLEAN]]
      BY <1>t, <3>2, <3>5 DEF TimesOK
    <3> QED BY <3>4, <3>6, <3>7, <3>8 DEF TimesOK
  <2>3. CASE /\ UNCHANGED <<backoffN, drawn>>
             /\ \E d \in 0..MaxWord : timer' = [timer EXCEPT ![i] = [len |-> d, left |-> d]]
    <3>1. PICK d \in 0..MaxWord : timer' = [timer EXCEPT ![i] = [len |-> d, left |-> d]]
      BY <2>3
    <3>2. d <= d
      BY RetryAssumption
    <3>3. timer' \in [Inst -> [len : 0..MaxWord, left : 0..MaxWord]]
      BY <1>t, <3>1 DEF TimesOK
    <3>4. \A j \in Inst : timer'[j].left <= timer'[j].len
      BY <1>t, <3>1, <3>2 DEF TimesOK
    <3> QED BY <1>t, <2>1, <2>3, <3>3, <3>4 DEF TimesOK, CountsOK
  <2>4. CASE UNCHANGED <<backoffN, drawn, timer>>
    BY <1>t, <2>1, <2>4 DEF TimesOK, CountsOK
  <2>5. CASE /\ Confirm(i) /\ UNCHANGED timer
             /\ backoffN' = [backoffN EXCEPT ![i] = 0]
             /\ drawn' = [drawn EXCEPT ![i] = [@ EXCEPT !.last = 0, !.since = 0]]
    <3>1. 0 \in 0..MaxWord /\ 0 \in 0..ShiftLimit
      BY RetryAssumption
    <3>2. CountsOK'
      BY <1>t, <2>1, <2>5, <3>1 DEF CountsOK
    <3>3. drawn' \in [Inst -> [last : 0..MaxWord, since : 0..MaxWord, faster : BOOLEAN, early : BOOLEAN]]
      BY <1>t, <2>5, <3>1 DEF TimesOK
    <3> QED BY <1>t, <2>5, <3>2, <3>3 DEF TimesOK
  <2> QED BY <1>1, <2>2, <2>3, <2>4, <2>5, TimersOfManage
<1>2. CASE Tick
  <2>1. CountsOK'
    BY <1>t, <1>2 DEF Tick, CountsOK
  <2>2. MaxWord \in Nat
    BY RetryAssumption
  <2>3. timer' \in [Inst -> [len : 0..MaxWord, left : 0..MaxWord]]
    <3>1. ASSUME NEW j \in Inst, timer[j].left > 0
          PROVE  [timer[j] EXCEPT !.left = timer[j].left - 1] \in [len : 0..MaxWord, left : 0..MaxWord]
      <4>1. timer[j] \in [len : 0..MaxWord, left : 0..MaxWord]
        BY <1>t DEF TimesOK
      <4>2. timer[j].left - 1 \in 0..MaxWord
        BY <2>2, <3>1, <4>1
      <4> QED BY <4>1, <4>2
    <3>2. timer' = [j \in Inst |->
            IF timer[j].left > 0 THEN [timer[j] EXCEPT !.left = timer[j].left - 1] ELSE timer[j]]
      BY <1>2 DEF Tick
    <3> QED BY <1>t, <3>1, <3>2 DEF TimesOK
  <2>4. ASSUME NEW j \in Inst PROVE timer'[j].left <= timer'[j].len
    <3>1. timer[j] \in [len : 0..MaxWord, left : 0..MaxWord] /\ timer[j].left <= timer[j].len
      BY <1>t DEF TimesOK
    <3>2. \/ timer'[j] = timer[j]
          \/ timer'[j].left = timer[j].left - 1 /\ timer'[j].len = timer[j].len
      BY <1>2, <3>1 DEF Tick
    <3> QED BY <2>2, <3>1, <3>2
  <2>5. drawn' \in [Inst -> [last : 0..MaxWord, since : 0..MaxWord, faster : BOOLEAN, early : BOOLEAN]]
    <3>1. ASSUME NEW j \in Inst PROVE Least(drawn[j].since + 1, MaxWord) \in 0..MaxWord
      <4>1. drawn[j].since \in 0..MaxWord
        BY <1>t DEF TimesOK
      <4> QED BY <2>2, <4>1 DEF Least
    <3>2. drawn' = [j \in Inst |-> [drawn[j] EXCEPT !.since = Least(drawn[j].since + 1, MaxWord)]]
      BY <1>2 DEF Tick
    <3> QED BY <1>t, <3>1, <3>2 DEF TimesOK
  <2> QED BY <2>1, <2>3, <2>4, <2>5 DEF TimesOK
<1>3. CASE Coordinator
  BY <1>t, <1>3, CoordinatorSends DEF Coordinator, CountsOK, TimesOK
<1>4. CASE Call \/ Lose \/ Turn
  <2>1. calls' \in 0..MaxCalls /\ losses' \in 0..MaxCalls /\ calm' \in BOOLEAN
    <3>1. MaxCalls \in Nat /\ calls \in 0..MaxCalls /\ losses \in 0..MaxCalls /\ calm \in BOOLEAN
      BY <1>t, RetryAssumption DEF CountsOK
    <3>2. CASE Call
      BY <3>1, <3>2 DEF Call
    <3>3. CASE Lose
      BY <3>1, <3>3 DEF Lose
    <3>4. CASE Turn
      BY <3>1, <3>4 DEF Turn
    <3> QED BY <1>4, <3>2, <3>3, <3>4
  <2>2. UNCHANGED <<backoffN, empties, timer, drawn>>
    BY <1>4 DEF Call, Lose, Turn
  <2> QED BY <1>t, <2>1, <2>2 DEF CountsOK, TimesOK
<1>5. CASE New \/ (\E i \in Inst : Start(i)) \/ Refused \/ UNCHANGED vars
  <2>1. UNCHANGED <<backoffN, empties, timer, drawn, calls, losses, calm>>
    BY <1>5 DEF New, Start, Refused, vars, retryVars
  <2> QED BY <1>t, <2>1 DEF CountsOK, TimesOK
<1> QED BY <1>1, <1>2, <1>3, <1>4, <1>5 DEF Next

LEMMA TypedStep == RetryTyped /\ [Next]_vars => RetryTyped'
<1> SUFFICES ASSUME RetryTyped, [Next]_vars PROVE RetryTyped'
  OBVIOUS
<1>1. FieldsOK' /\ QueuesOK' /\ EventsOK'
  BY ControlTypedStep
<1>2. OptionsInv'
  BY OptionsStep DEF RetryTyped
<1>3. CountsOK' /\ TimesOK'
  BY TimesStep
<1>4. IdleUntilMade'
  BY IdleStep
<1> QED BY <1>1, <1>2, <1>3, <1>4, Zenon DEF RetryTyped

(* Every field has its type, and no timer, queue or counter leaves its range. *)
THEOREM RetryType == Spec => []TypeOK
<1>1. RetryTyped => TypeOK
  <2> SUFFICES ASSUME RetryTyped PROVE TypeOK
    OBVIOUS
  <2>1. ControlTypeOK
    BY ControlTypeParts DEF RetryTyped
  <2>2. \A i \in Inst : timer[i].left \in 0..timer[i].len /\ timer[i].len \in 0..MaxWord
    <3> SUFFICES ASSUME NEW i \in Inst
                 PROVE  timer[i].left \in 0..timer[i].len /\ timer[i].len \in 0..MaxWord
      OBVIOUS
    <3>1. timer[i] \in [len : 0..MaxWord, left : 0..MaxWord] /\ timer[i].left <= timer[i].len
      BY DEF RetryTyped, TimesOK
    <3> QED BY <3>1, RetryAssumption
  <2> QED BY <2>1, <2>2 DEF TypeOK, RetryTyped, OptionsInv, CountsOK
<1> QED BY <1>1, TypedInit, TypedStep, PTL DEF Spec

-----------------------------------------------------------------------------
(* Delays *)

(* A step of one goroutine leaves the others where they are. *)
LEMMA OthersStay ==
  ASSUME FieldsOK, NEW i \in Inst, ControlStep(i) \/ UNCHANGED controlVars, NEW j \in Inst \ {i}
  PROVE  pc'[j] = pc[j] /\ status'[j] = status[j] /\ egressVal'[j] = egressVal[j] /\ out'[j] = out[j]
BY DEF FieldsOK, controlVars, ControlStep, Confirm, Reprobe, Replay, Drain, Disable, Enable, Stop,
   Ignore, Park, StopWait, Cancel, ReprobeExpire, DrainExpire, DrainDisable, Create, BuildDone,
   Probe, Emit, HandleLost, Panic, Finalize, Report, Goto, SetStatus, EmitNext, face

LEMMA DrawnTyped ==
  ASSUME TimesOK, NEW i \in Inst
  PROVE  /\ drawn[i].since \in Nat /\ drawn[i].last \in Nat /\ drawn[i].last <= MaxWord
         /\ drawn[i].since <= MaxWord
         /\ timer[i].left \in Nat /\ timer[i].len \in Nat /\ timer[i].left <= timer[i].len
BY RetryAssumption DEF TimesOK

(* A delay that has passed stays so until the next one is drawn. *)
LEMMA PassedStays ==
  ASSUME RetryTyped, RetryTyped', NEW i \in Inst, Served(i),
         drawn[i].since >= drawn[i].last, drawn'[i] = drawn[i]
  PROVE  Served(i)'
<1>1. drawn[i].since \in Nat /\ drawn[i].last \in Nat
  BY DrawnTyped DEF RetryTyped
<1>2. timer'[i].left \in Nat
  BY RetryAssumption DEF RetryTyped, TimesOK
<1>3. drawn'[i].since + timer'[i].left >= drawn'[i].last
  BY <1>1, <1>2
<1> QED BY <1>3 DEF Served

(* A delay is drawn when the last one has passed. *)
LEMMA DrawnAfter ==
  ASSUME RetryTyped, made = "running", NEW i \in Inst, Served(i),
         drawn[i].since >= drawn[i].last, StartBackoff(i), pc'[i] \in {"build", "reprobe"}
  PROVE  Served(i)'
<1>1. PICK n \in 0..ShiftLimit, d \in 1..MaxWord :
        /\ timer' = [timer EXCEPT ![i] = [len |-> d, left |-> d]]
        /\ drawn' = [drawn EXCEPT ![i] =
             [last |-> d, since |-> 0,
              faster |-> drawn[i].faster \/ d < drawn[i].last,
              early |-> drawn[i].early \/ drawn[i].since < drawn[i].last]]
  BY Drawing
<1>2. drawn'[i].last = d /\ drawn'[i].since = 0 /\ timer'[i].left = d
  BY <1>1 DEF RetryTyped, TimesOK
<1>3. ~drawn[i].early /\ ~(drawn[i].since < drawn[i].last)
  BY DrawnTyped DEF RetryTyped, Served
<1>4. drawn'[i].early = (drawn[i].early \/ drawn[i].since < drawn[i].last)
  BY <1>1 DEF RetryTyped, TimesOK
<1>5. 0 + d >= d
  BY RetryAssumption
<1> QED BY <1>2, <1>3, <1>4, <1>5 DEF Served

LEMMA ServedManage ==
  ASSUME RetryTyped, RetryTyped', NEW i \in Inst, Served(i), Manage(i)
  PROVE  Served(i)'
<1>r. made = "running"
  BY ManageIsControl DEF RetryTyped, IdleUntilMade
<1>t. pc \in [Inst -> Places] /\ TimesOK /\ TimesOK' /\ FieldsOK
  BY DEF RetryTyped, FieldsOK
<1>n. drawn[i].since \in Nat /\ drawn[i].last \in Nat /\ timer[i].left \in Nat
  BY <1>t, DrawnTyped
<1>p. \/ pc[i] \notin {"build", "reprobe"}
      \/ WaitOver(i)
      => drawn[i].since >= drawn[i].last
  BY <1>n DEF Served, WaitOver
<1>1. CASE ConfirmResets(i)
  <2>1. pc[i] = "loop" /\ pc' = pc /\ UNCHANGED timer
    BY <1>1, ControlGuards DEF ConfirmResets, Confirm
  <2>2. CASE UNCHANGED drawn
    BY <1>p, <2>1, <2>2, PassedStays
  <2>3. CASE drawn' = [drawn EXCEPT ![i] = [@ EXCEPT !.last = 0, !.since = 0]]
    <3>1. drawn'[i].last = 0 /\ drawn'[i].since = 0 /\ drawn'[i].early = drawn[i].early
      BY <1>t, <2>3 DEF TimesOK
    <3> QED BY <2>1, <3>1 DEF Served
  <2> QED BY <1>1, <2>2, <2>3 DEF ConfirmResets
<1>2. CASE ReprobeWaits(i) \/ ReplayWaits(i)
  <2>1. pc[i] = "loop"
    BY <1>2, ControlGuards DEF ReprobeWaits, ReplayWaits
  <2>2. pc'[i] \in {"build", "reprobe"}
    BY <1>t, <1>2 DEF ReprobeWaits, ReplayWaits, Reprobe, Replay, Goto
  <2>3. drawn[i].since >= drawn[i].last
    BY <1>p, <2>1
  <2>4. StartBackoff(i)
    BY <1>2 DEF ReprobeWaits, ReplayWaits
  <2> QED BY <1>r, <2>2, <2>3, <2>4, DrawnAfter
<1>3. CASE BuildFails(i)
  <2>1. drawn[i].since >= drawn[i].last
    BY <1>p, <1>3 DEF BuildFails
  <2>2. StartBackoff(i) /\ pc'[i] \in {"build", "reprobe"}
    BY <1>3 DEF BuildFails, controlVars
  <2> QED BY <1>r, <2>1, <2>2, DrawnAfter
<1>4. CASE EmitThen(i)
  <2>1. pc[i] = "emit" /\ pc'[i] = Resume(out[i].kind)
    BY <1>t, <1>4 DEF EmitThen, Emit, Goto
  <2>2. drawn[i].since >= drawn[i].last
    BY <1>p, <2>1
  <2>3. CASE out[i].kind = "Drained"
    <3>1. StartBackoff(i) /\ pc'[i] = "build"
      BY <1>4, <2>1, <2>3 DEF EmitThen, Resume
    <3> QED BY <1>r, <2>2, <3>1, DrawnAfter
  <2>4. CASE out[i].kind # "Drained"
    <3>1. UNCHANGED drawn
      BY <1>4, <2>4 DEF EmitThen, NoBackoff
    <3> QED BY <2>2, <3>1, PassedStays
  <2> QED BY <2>3, <2>4
<1>5. CASE ParkRestarts(i)
  <2>1. UNCHANGED <<pc, drawn>>
    BY <1>5 DEF ParkRestarts, Park
  <2>2. timer'[i].left >= timer[i].left
    <3>1. timer[i].left \in Nat /\ timer[i].len \in Nat /\ timer[i].left <= timer[i].len
      BY <1>t, DrawnTyped
    <3>2. timer[i].len > 0
      BY <1>5 DEF ParkRestarts, Waits
    <3>3. timer'[i] = timer[i] \/ timer'[i].left = timer[i].len
      BY <1>5, <1>t, <3>2 DEF ParkRestarts, SetTimer, TimesOK
    <3> QED BY <3>1, <3>3
  <2>3. timer'[i].left \in Nat
    BY <1>t, RetryAssumption DEF TimesOK
  <2> QED BY <1>n, <2>1, <2>2, <2>3 DEF Served
<1>6. CASE WaitEnds(i) \/ BuildSucceeds(i)
  <2>1. WaitOver(i) /\ UNCHANGED drawn
    BY <1>6 DEF WaitEnds, BuildSucceeds
  <2> QED BY <1>p, <2>1, PassedStays
<1>7. CASE DrainWaits(i) \/ HandleOther(i) \/ DrainInterrupted(i) \/ ProbeEnds(i)
  <2>1. pc[i] \notin {"build", "reprobe"}
    <3>1. CASE DrainWaits(i) \/ HandleOther(i)
      <4>1. Drain(i) \/ Disable(i) \/ Enable(i) \/ Ignore(i)
        BY <3>1 DEF DrainWaits, HandleOther
      <4>2. pc[i] = "loop"
        BY <4>1, ControlGuards
      <4> QED BY <4>2
    <3>2. CASE DrainInterrupted(i) \/ ProbeEnds(i)
      BY <3>2 DEF DrainInterrupted, DrainDisable, ProbeEnds, Probe
    <3> QED BY <1>7, <3>1, <3>2
  <2>2. UNCHANGED drawn
    BY <1>7 DEF DrainWaits, HandleOther, DrainInterrupted, ProbeEnds, NoBackoff
  <2> QED BY <1>p, <2>1, <2>2, PassedStays
<1> QED BY <1>1, <1>2, <1>3, <1>4, <1>5, <1>6, <1>7 DEF Manage

LEMMA ServedStep ==
  ASSUME RetryTyped, \A i \in Inst : Served(i), [Next]_vars
  PROVE  \A j \in Inst : Served(j)'
<1>t. RetryTyped' /\ pc \in [Inst -> Places] /\ TimesOK /\ FieldsOK
  BY TypedStep DEF RetryTyped, FieldsOK
<1> SUFFICES ASSUME NEW j \in Inst PROVE Served(j)'
  OBVIOUS
<1>n. /\ drawn[j].since \in Nat /\ drawn[j].last \in Nat /\ timer[j].left \in Nat
      /\ drawn[j].last <= MaxWord /\ drawn[j].since <= MaxWord /\ MaxWord \in Nat
  BY <1>t, DrawnTyped, RetryAssumption
<1>s. Served(j)
  OBVIOUS
<1>1. ASSUME NEW i \in Inst, Manage(i)
      PROVE  Served(j)'
  <2>1. CASE i = j
    BY <1>1, <1>s, <1>t, <2>1, ServedManage
  <2>2. CASE i # j
    <3>1. pc'[j] = pc[j]
      BY <1>1, <1>t, <2>2, ManageIsControl, OthersStay
    <3>2. drawn'[j] = drawn[j] /\ timer'[j] = timer[j]
      <4>1. CASE StartBackoff(i)
        <5>1. made = "running"
          BY <1>1, ManageIsControl DEF RetryTyped, IdleUntilMade
        <5> QED BY <1>t, <2>2, <4>1, <5>1, Drawing DEF TimesOK
      <4>2. CASE ~StartBackoff(i)
        BY <1>1, <1>t, <2>2, <4>2, TimersOfManage DEF TimesOK
      <4> QED BY <4>1, <4>2
    <3> QED BY <1>s, <3>1, <3>2 DEF Served
  <2> QED BY <2>1, <2>2
<1>2. CASE Tick
  <2>1. pc' = pc /\ drawn'[j].last = drawn[j].last /\ drawn'[j].early = drawn[j].early
    BY <1>2, <1>t DEF Tick, controlVars, TimesOK
  <2>2. drawn'[j].since = Least(drawn[j].since + 1, MaxWord)
    BY <1>2, <1>t DEF Tick, TimesOK
  <2>3. timer'[j].left = IF timer[j].left > 0 THEN timer[j].left - 1 ELSE timer[j].left
    BY <1>2, <1>t DEF Tick, TimesOK
  <2>4. drawn[j].since >= drawn[j].last => drawn'[j].since >= drawn[j].last
    BY <1>n, <2>2 DEF Least
  <2>5. drawn[j].since + timer[j].left >= drawn[j].last => drawn'[j].since + timer'[j].left >= drawn[j].last
    BY <1>n, <2>2, <2>3 DEF Least
  <2> QED BY <1>s, <2>1, <2>4, <2>5 DEF Served
<1>3. CASE \E i \in Inst : Start(i) \/ (Lose /\ HandleLost(i))
  <2>1. UNCHANGED drawn
    BY <1>3 DEF Start, Lose, retryVars
  <2>2. PICK i \in Inst : pc[i] \in {"none", "loop"} /\ ControlStep(i)
    BY <1>3 DEF Start, Create, HandleLost, ControlStep
  <2>3. CASE i = j
    <3>1. drawn[j].since >= drawn[j].last
      BY <1>s, <2>2, <2>3 DEF Served
    <3> QED BY <1>s, <1>t, <2>1, <3>1, PassedStays
  <2>4. CASE i # j
    <3>1. pc'[j] = pc[j]
      BY <1>t, <2>2, <2>4, OthersStay
    <3>2. UNCHANGED timer
      BY <1>3 DEF Start, Lose, retryVars
    <3> QED BY <1>s, <2>1, <3>1, <3>2 DEF Served
  <2> QED BY <2>3, <2>4
<1>4. CASE New \/ Coordinator \/ Call \/ Turn \/ Refused \/ UNCHANGED vars
  <2>1. UNCHANGED <<pc, drawn, timer>>
    BY <1>4 DEF New, Coordinator, Call, Turn, Refused, vars, controlVars, retryVars
  <2> QED BY <1>s, <2>1 DEF Served
<1>5. Lose => \E i \in Inst : Lose /\ HandleLost(i)
  BY DEF Lose
<1> QED BY <1>1, <1>2, <1>3, <1>4, <1>5 DEF Next

(* No backoff is cut short, whatever commands arrive in between
   (instance.go:555-574). *)
THEOREM BackoffIsServedAlways == Spec => []BackoffIsServed
<1> DEFINE I == RetryTyped /\ \A i \in Inst : Served(i)
<1>1. Init => I
  <2> SUFFICES ASSUME Init PROVE I
    OBVIOUS
  <2>1. ASSUME NEW i \in Inst PROVE Served(i)
    <3>1. /\ drawn[i].last = 0 /\ drawn[i].since = 0 /\ drawn[i].early = FALSE
          /\ timer[i].left = 0
      BY DEF Init, NoDraw, NoTimer
    <3>2. 0 + 0 >= 0 /\ 0 >= 0
      OBVIOUS
    <3> QED BY <3>1, <3>2 DEF Served
  <2>2. \A i \in Inst : Served(i)
    BY <2>1
  <2> QED BY <2>2, TypedInit
<1>2. I /\ [Next]_vars => I'
  BY TypedStep, ServedStep
<1>3. I => BackoffIsServed
  BY DEF Served, BackoffIsServed
<1> QED BY <1>1, <1>2, <1>3, PTL DEF Spec

-----------------------------------------------------------------------------
(* Delays that grow *)

(* The next delay of i and all later ones are at least this. *)
LEMMA SlowDraw ==
  ASSUME RetryTyped, made = "running", FitsShifted, opts' = opts, NEW i \in Inst,
         Slowing(i), StartBackoff(i)
  PROVE  Slowing(i)'
<1>1. PICK n \in 0..ShiftLimit, d \in 1..MaxWord :
        /\ n = backoffN[i] /\ d = BackoffDelay(n)
        /\ backoffN' = [backoffN EXCEPT ![i] = Least(n + 1, ShiftLimit)]
        /\ drawn' = [drawn EXCEPT ![i] =
             [last |-> d, since |-> 0,
              faster |-> drawn[i].faster \/ d < drawn[i].last,
              early |-> drawn[i].early \/ drawn[i].since < drawn[i].last]]
  BY Drawing
<1>t. OptionsInv /\ TimesOK /\ backoffN \in [Inst -> 0..ShiftLimit] /\ ShiftLimit \in Nat
  BY RetryAssumption DEF RetryTyped, CountsOK
<1>2. /\ d \in opts.start..opts.max
      /\ n < ShiftLimit => d <= BackoffDelay(n + 1)
  BY <1>1, <1>t, DelaysGrow
<1>3. drawn'[i].last = d /\ drawn'[i].faster = (drawn[i].faster \/ d < drawn[i].last)
  BY <1>1, <1>t DEF TimesOK
<1>4. ~(d < drawn[i].last)
  <2>1. drawn[i].last = 0 \/ drawn[i].last <= BackoffDelay(backoffN[i])
    BY DEF Slowing
  <2>2. BackoffDelay(backoffN[i]) = d
    BY <1>1 DEF BackoffDelay
  <2>3. drawn[i].last \in Nat /\ d \in Nat
    BY <1>t, DrawnTyped, RetryAssumption
  <2> QED BY <2>1, <2>2, <2>3
<1>5. ~drawn'[i].faster
  BY <1>3, <1>4 DEF Slowing
<1>6. PICK m \in 0..ShiftLimit : m = backoffN'[i] /\ m = Least(n + 1, ShiftLimit)
  BY <1>1, <1>t DEF Least
<1>7. d <= BackoffDelay(m)
  <2>1. CASE n < ShiftLimit
    <3>1. m = n + 1
      BY <1>6, <1>t, <2>1 DEF Least
    <3> QED BY <1>2, <2>1, <3>1
  <2>2. CASE ~(n < ShiftLimit)
    <3>1. m = n
      BY <1>6, <1>t, <2>2 DEF Least
    <3>2. d <= d
      BY <1>1, RetryAssumption
    <3> QED BY <1>1, <3>1, <3>2
  <2> QED BY <2>1, <2>2
<1>8. BackoffDelay(backoffN[i])' = BackoffDelay(m)
  BY <1>6 DEF BackoffDelay
<1>9. drawn'[i].last <= BackoffDelay(backoffN[i])'
  BY <1>3, <1>7, <1>8
<1>10. drawn'[i].last \in opts'.start..opts'.max
  BY <1>2, <1>3
<1> QED BY <1>5, <1>9, <1>10 DEF Slowing

(* Steps that draw no delay of i. *)
LEMMA SlowStays ==
  ASSUME opts' = opts, NEW i \in Inst, Slowing(i),
         drawn'[i].faster = drawn[i].faster,
         \/ drawn'[i].last = 0
         \/ drawn'[i].last = drawn[i].last /\ backoffN'[i] = backoffN[i]
  PROVE  Slowing(i)'
<1>1. CASE drawn'[i].last = 0
  BY <1>1 DEF Slowing
<1>2. CASE drawn'[i].last = drawn[i].last /\ backoffN'[i] = backoffN[i]
  <2>1. BackoffDelay(backoffN[i])' = BackoffDelay(backoffN[i])
    BY <1>2 DEF BackoffDelay
  <2> QED BY <1>2, <2>1 DEF Slowing
<1> QED BY <1>1, <1>2

LEMMA SlowStep ==
  ASSUME RetryTyped, SlowInv, [Next]_vars
  PROVE  SlowInv'
<1>t. RetryTyped' /\ TimesOK /\ CountsOK
  BY TypedStep DEF RetryTyped
<1>1. CASE New
  <2>1. made # "running" /\ UNCHANGED drawn
    BY <1>1 DEF New
  <2>2. \A i \in Inst : drawn[i].last = 0 /\ ~drawn[i].faster
    BY <2>1 DEF SlowInv
  <2>3. \A i \in Inst : drawn'[i].last = 0 /\ ~drawn'[i].faster
    BY <2>1, <2>2
  <2> QED BY <2>3 DEF SlowInv, Slowing
<1>2. CASE ~New /\ made # "running"
  <2>1. UNCHANGED <<made, drawn>> \/ Tick
    BY <1>2, ManageIsControl DEF Next, Start, Coordinator, Call, Lose, Turn, Refused, vars, retryVars,
       RetryTyped, IdleUntilMade
  <2>2. UNCHANGED made /\ \A i \in Inst : drawn'[i].last = drawn[i].last /\ drawn'[i].faster = drawn[i].faster
    BY <1>t, <2>1 DEF Tick, TimesOK
  <2> QED BY <1>2, <2>2 DEF SlowInv
<1>3. CASE ~New /\ made = "running"
  <2>1. UNCHANGED <<made, opts>>
    BY <1>3 DEF Next, Start, Manage, Tick, Coordinator, Call, Lose, Turn, Refused, vars, retryVars
  <2>2. SUFFICES ASSUME FitsShifted', NEW j \in Inst PROVE Slowing(j)'
    BY <1>3, <2>1 DEF SlowInv
  <2>3. FitsShifted
    BY <2>1, <2>2 DEF FitsShifted
  <2>4. Slowing(j)
    BY <1>3, <2>3 DEF SlowInv
  <2>5. ASSUME NEW i \in Inst, Manage(i)
        PROVE  Slowing(j)'
    <3>1. CASE StartBackoff(i)
      <4>1. CASE i = j
        BY <1>3, <2>1, <2>3, <2>4, <3>1, <4>1, SlowDraw
      <4>2. CASE i # j
        <5>1. drawn'[j] = drawn[j] /\ backoffN'[j] = backoffN[j]
          BY <1>t, <3>1, <4>2 DEF StartBackoff, TimesOK, CountsOK
        <5> QED BY <2>1, <2>4, <5>1, SlowStays
      <4> QED BY <4>1, <4>2
    <3>2. CASE UNCHANGED <<backoffN, drawn>>
      BY <2>1, <2>4, <3>2, SlowStays
    <3>3. CASE /\ backoffN' = [backoffN EXCEPT ![i] = 0]
               /\ drawn' = [drawn EXCEPT ![i] = [@ EXCEPT !.last = 0, !.since = 0]]
      <4>1. /\ drawn'[j].faster = drawn[j].faster
            /\ i = j => drawn'[j].last = 0
            /\ i # j => drawn'[j].last = drawn[j].last /\ backoffN'[j] = backoffN[j]
        BY <1>t, <3>3 DEF TimesOK, CountsOK
      <4> QED BY <2>1, <2>4, <4>1, SlowStays
    <3> QED BY <2>5, <3>1, <3>2, <3>3, TimersOfManage
  <2>6. CASE Tick
    <3>1. /\ drawn'[j].faster = drawn[j].faster /\ drawn'[j].last = drawn[j].last
          /\ backoffN'[j] = backoffN[j]
      BY <1>t, <2>6 DEF Tick, TimesOK
    <3> QED BY <2>1, <2>4, <3>1, SlowStays
  <2>7. CASE UNCHANGED <<backoffN, drawn>>
    BY <2>1, <2>4, <2>7, SlowStays
  <2>8. \/ \E i \in Inst : Manage(i)
        \/ Tick
        \/ UNCHANGED <<backoffN, drawn>>
    BY <1>3 DEF Next, Start, Coordinator, Call, Lose, Turn, Refused, vars, retryVars
  <2> QED BY <2>5, <2>6, <2>7, <2>8
<1> QED BY <1>1, <1>2, <1>3

(* As long as an instance is not confirmed, no delay is shorter than the one
   before (instance.go:545-553). *)
THEOREM RetriesSlowDownAlways == Spec => []RetriesSlowDown
<1> DEFINE I == RetryTyped /\ SlowInv
<1>1. Init => I
  <2> SUFFICES ASSUME Init PROVE I
    OBVIOUS
  <2>1. made # "running" /\ \A i \in Inst : drawn[i].last = 0 /\ ~drawn[i].faster
    BY DEF Init, NoDraw
  <2> QED BY <2>1, TypedInit DEF SlowInv
<1>2. I /\ [Next]_vars => I'
  BY TypedStep, SlowStep
<1>3. I => RetriesSlowDown
  BY DEF SlowInv, Slowing, RetriesSlowDown
<1> QED BY <1>1, <1>2, <1>3, PTL DEF Spec

-----------------------------------------------------------------------------
(* Commands in line *)

LEMMA HeadBeforeTail ==
  ASSUME NEW S, NEW s \in Seq(S), s # <<>>
  PROVE  <<Head(s)>> \o Tail(s) = s
<1>1. /\ Head(s) \in S /\ Tail(s) \in Seq(S) /\ Len(Tail(s)) = Len(s) - 1
      /\ \A n \in 1..Len(Tail(s)) : Tail(s)[n] = s[n + 1]
  BY HeadTailProperties
<1>2. Len(s) \in Nat \ {0} /\ Head(s) = s[1]
  BY EmptySeq, HeadIsFirst
<1>3. PICK h \in S : h = Head(s)
  BY <1>1
<1>4. <<h>> \in Seq(S) /\ Len(<<h>>) = 1 /\ <<h>>[1] = h
  OBVIOUS
<1>5. /\ <<h>> \o Tail(s) \in Seq(S) /\ Len(<<h>> \o Tail(s)) = 1 + Len(Tail(s))
      /\ \A n \in 1..(1 + Len(Tail(s))) :
           (<<h>> \o Tail(s))[n] = IF n <= 1 THEN <<h>>[n] ELSE Tail(s)[n - 1]
  BY <1>1, <1>4, ConcatProperties
<1>6. Len(<<h>> \o Tail(s)) = Len(s)
  BY <1>1, <1>2, <1>5
<1>7. ASSUME NEW n \in 1..Len(s) PROVE (<<h>> \o Tail(s))[n] = s[n]
  <2>1. n \in 1..(1 + Len(Tail(s)))
    BY <1>1, <1>2
  <2>2. (<<h>> \o Tail(s))[n] = IF n <= 1 THEN <<h>>[n] ELSE Tail(s)[n - 1]
    BY <1>5, <2>1
  <2>3. CASE n = 1
    BY <1>2, <1>3, <1>4, <2>2, <2>3
  <2>4. CASE n # 1
    <3>1. n - 1 \in 1..Len(Tail(s)) /\ (n - 1) + 1 = n /\ ~(n <= 1)
      BY <1>1, <1>2, <2>4
    <3>2. Tail(s)[n - 1] = s[(n - 1) + 1]
      BY <1>1, <3>1
    <3> QED BY <2>2, <3>1, <3>2
  <2> QED BY <2>3, <2>4
<1>8. <<h>> \o Tail(s) = s
  BY <1>5, <1>6, <1>7, SeqEqual
<1> QED BY <1>3, <1>8

(* A command moves from the head of one line to the end of the one before. *)
LEMMA ConcatParks ==
  ASSUME NEW S, NEW p \in Seq(S), NEW q \in Seq(S), q # <<>>
  PROVE  Append(p, Head(q)) \o Tail(q) = p \o q
<1>1. Head(q) \in S /\ Tail(q) \in Seq(S)
  BY HeadTailProperties
<1>2. Append(p, Head(q)) = p \o <<Head(q)>> /\ <<Head(q)>> \in Seq(S)
  BY <1>1, AppendIsConcat
<1>3. (p \o <<Head(q)>>) \o Tail(q) = p \o (<<Head(q)>> \o Tail(q))
  BY <1>1, <1>2, ConcatAssociative
<1> QED BY <1>2, <1>3, HeadBeforeTail

LEMMA ConcatAppends ==
  ASSUME NEW S, NEW p \in Seq(S), NEW q \in Seq(S), NEW c \in S
  PROVE  p \o Append(q, c) = Append(p \o q, c)
<1>1. <<c>> \in Seq(S) /\ p \o q \in Seq(S)
  BY ConcatProperties
<1>2. Append(q, c) = q \o <<c>> /\ Append(p \o q, c) = (p \o q) \o <<c>>
  BY <1>1, AppendIsConcat
<1>3. (p \o q) \o <<c>> = p \o (q \o <<c>>)
  BY <1>1, ConcatAssociative
<1> QED BY <1>2, <1>3

(* What a step may do to the line of j. *)
LineMoves(j) ==
  \/ InLine(j)' = InLine(j)
  \/ InLine(j) # <<>> /\ InLine(j)' = Tail(InLine(j))
  \/ \E c \in CmdKind : InLine(j)' = Append(InLine(j), c)
  \/ pc[j] = "drain" /\ status'[j] = "Disabled"

LEMMA LineStays ==
  ASSUME NEW j \in Inst, cmds'[j] = cmds[j], pending'[j] = pending[j]
  PROVE  LineMoves(j)
BY DEF LineMoves, InLine

LEMMA DequeueLine ==
  ASSUME QueuesOK, NEW i \in Inst, NEW c, Dequeue(i, c)
  PROVE  LineMoves(i)
<1>1. /\ pending[i] \in Seq(CmdKind) /\ cmds[i] \in Seq(CmdKind)
      /\ pending \in [Inst -> Seq(CmdKind)] /\ cmds \in [Inst -> Seq(CmdKind)]
  BY DEF QueuesOK
<1>2. CASE pending[i] # <<>>
  <2>1. pending'[i] = Tail(pending[i]) /\ cmds'[i] = cmds[i]
    BY <1>1, <1>2 DEF Dequeue
  <2>2. pending[i] \o cmds[i] # <<>> /\ Tail(pending[i] \o cmds[i]) = Tail(pending[i]) \o cmds[i]
    BY <1>1, <1>2, ConcatMoves
  <2> QED BY <2>1, <2>2 DEF LineMoves, InLine
<1>3. CASE pending[i] = <<>>
  <2>1. cmds[i] # <<>> /\ cmds'[i] = Tail(cmds[i]) /\ pending'[i] = <<>>
    BY <1>1, <1>3 DEF Dequeue, Receive
  <2>2. Tail(cmds[i]) \in Seq(CmdKind)
    BY <1>1, <2>1, HeadTailProperties
  <2>3. <<>> \o cmds[i] = cmds[i] /\ <<>> \o Tail(cmds[i]) = Tail(cmds[i])
    BY <1>1, <2>2, ConcatEmptySeq
  <2> QED BY <1>3, <2>1, <2>3 DEF LineMoves, InLine
<1> QED BY <1>2, <1>3

LEMMA ParkLine ==
  ASSUME QueuesOK, NEW i \in Inst, Park(i)
  PROVE  LineMoves(i)
<1>1. /\ pending[i] \in Seq(CmdKind) /\ cmds[i] \in Seq(CmdKind)
      /\ pending \in [Inst -> Seq(CmdKind)] /\ cmds \in [Inst -> Seq(CmdKind)]
  BY DEF QueuesOK
<1>2. PICK c \in CmdKind : Receive(i, c) /\ pending' = [pending EXCEPT ![i] = Append(@, c)]
  BY DEF Park
<1>3. cmds[i] # <<>> /\ c = Head(cmds[i]) /\ cmds'[i] = Tail(cmds[i])
  BY <1>1, <1>2 DEF Receive
<1>4. pending'[i] = Append(pending[i], Head(cmds[i]))
  BY <1>1, <1>2, <1>3
<1>5. Append(pending[i], Head(cmds[i])) \o Tail(cmds[i]) = pending[i] \o cmds[i]
  BY <1>1, <1>3, ConcatParks
<1> QED BY <1>3, <1>4, <1>5 DEF LineMoves, InLine

LEMMA SendLine ==
  ASSUME QueuesOK, NEW i \in Inst, NEW c \in CmdKind, Send(i, c), UNCHANGED pending, NEW j \in Inst
  PROVE  LineMoves(j)
<1>1. /\ pending[j] \in Seq(CmdKind) /\ cmds[j] \in Seq(CmdKind)
      /\ cmds \in [Inst -> Seq(CmdKind)]
  BY DEF QueuesOK
<1>2. cmds'[j] = cmds[j] \/ cmds'[j] = Append(cmds[j], c)
  BY <1>1 DEF Send
<1>3. ASSUME NEW p \in Seq(CmdKind), NEW q \in Seq(CmdKind)
      PROVE  p \o Append(q, c) = Append(p \o q, c)
  BY ConcatAppends
<1>4. pending[j] \o Append(cmds[j], c) = Append(pending[j] \o cmds[j], c)
  BY <1>1, <1>3
<1> QED BY <1>2, <1>4 DEF LineMoves, InLine

(* What a step of the goroutine does to its queues. *)
LEMMA RunningQueues ==
  ASSUME NEW i \in Inst, RunningStep(i)
  PROVE  \/ \E c \in CmdKind : Dequeue(i, c)
         \/ Park(i) \/ DrainDisable(i)
         \/ UNCHANGED <<cmds, pending>>
<1>1. CASE \/ Confirm(i) \/ Reprobe(i) \/ Replay(i) \/ Drain(i) \/ Disable(i)
           \/ Enable(i) \/ Ignore(i)
  BY <1>1 DEF Confirm, Reprobe, Replay, Drain, Disable, Enable, Ignore, Takes, CmdKind
<1>2. CASE \/ ReprobeExpire(i) \/ DrainExpire(i) \/ Create(i) \/ BuildDone(i)
           \/ Probe(i) \/ Emit(i) \/ HandleLost(i)
  BY <1>2 DEF ReprobeExpire, DrainExpire, Create, BuildDone, Probe, Emit, HandleLost, queues
<1> QED BY <1>1, <1>2 DEF RunningStep

LEMMA OtherQueues ==
  ASSUME QueuesOK, NEW i \in Inst, RunningStep(i), NEW j \in Inst \ {i}
  PROVE  cmds'[j] = cmds[j] /\ pending'[j] = pending[j]
<1>t. cmds \in [Inst -> Seq(CmdKind)] /\ pending \in [Inst -> Seq(CmdKind)]
  BY DEF QueuesOK
<1>1. CASE \E c \in CmdKind : Dequeue(i, c)
  BY <1>t, <1>1 DEF Dequeue, Receive
<1>2. CASE Park(i)
  BY <1>t, <1>2 DEF Park, Receive
<1>3. CASE DrainDisable(i)
  BY <1>t, <1>3 DEF DrainDisable, Receive
<1> QED BY <1>1, <1>2, <1>3, RunningQueues

LEMMA RunningLine ==
  ASSUME FieldsOK, QueuesOK, NEW i \in Inst, RunningStep(i), NEW j \in Inst
  PROVE  LineMoves(j)
<1>1. CASE i # j
  <2>1. cmds'[j] = cmds[j] /\ pending'[j] = pending[j]
    BY <1>1, OtherQueues
  <2> QED BY <2>1, LineStays
<1>2. CASE i = j /\ \E c \in CmdKind : Dequeue(i, c)
  BY <1>2, DequeueLine
<1>3. CASE i = j /\ Park(i)
  BY <1>3, ParkLine
<1>4. CASE i = j /\ DrainDisable(i)
  <2>1. pc[j] = "drain" /\ status'[j] = "Disabled"
    BY <1>4 DEF DrainDisable, SetStatus, FieldsOK
  <2> QED BY <2>1 DEF LineMoves
<1>5. CASE UNCHANGED <<cmds, pending>>
  BY <1>5, LineStays
<1> QED BY <1>1, <1>2, <1>3, <1>4, <1>5, RunningQueues

(* A command that was parked is not overtaken by a later one (instance.go:290-297,
   :385-414, :571). *)
THEOREM HandledInOrderAlways == Spec => HandledInOrder
<1>1. RetryTyped /\ [Next]_vars => \A j \in Inst : LineMoves(j)
  <2> SUFFICES ASSUME RetryTyped, [Next]_vars, NEW j \in Inst PROVE LineMoves(j)
    OBVIOUS
  <2>t. FieldsOK /\ QueuesOK
    BY DEF RetryTyped
  <2>1. CASE UNCHANGED controlVars
    BY <2>1, LineStays DEF controlVars
  <2>2. CASE \E i \in Inst : RunningStep(i)
    BY <2>t, <2>2, RunningLine
  <2>3. CASE Coordinator
    <3>1. UNCHANGED pending /\ Head(events).inst \in Inst
      BY <2>3, CoordinatorSends DEF Coordinator, Event
    <3>2. CASE UNCHANGED cmds
      BY <3>1, <3>2, LineStays
    <3>3. CASE \E c \in CmdKind : Send(Head(events).inst, c)
      BY <2>t, <3>1, <3>3, SendLine
    <3> QED BY <2>3, <3>2, <3>3, CoordinatorSends
  <2>4. CASE Call
    <3>1. UNCHANGED pending
      BY <2>4 DEF Call
    <3> QED BY <2>t, <2>4, <3>1, CallSends, SendLine
  <2> QED BY <2>1, <2>2, <2>3, <2>4, RunningPart
<1>2. (\A j \in Inst : LineMoves(j)) =>
        [\A i \in Inst :
           LET line == InLine(i)
               after == InLine(i)'
           IN  \/ after = line
               \/ line # <<>> /\ after = Tail(line)
               \/ \E c \in CmdKind : after = Append(line, c)
               \/ pc[i] = "drain" /\ status'[i] = "Disabled"]_<<pc, status, cmds, pending>>
  BY DEF LineMoves
<1> QED BY <1>1, <1>2, TypedInit, TypedStep, PTL DEF Spec, HandledInOrder

-----------------------------------------------------------------------------
(* Exits *)

(* The queues of i, after commands other than Confirm are taken or parked. *)
LEMMA UnconfirmingMoves ==
  ASSUME QueuesOK, NEW i \in Inst, RunningStep(i),
         cmds[i] \in Seq(Unconfirming), pending[i] \in Seq(Unconfirming)
  PROVE  ~Confirm(i) /\ cmds'[i] \in Seq(Unconfirming) /\ pending'[i] \in Seq(Unconfirming)
<1>t. cmds \in [Inst -> Seq(CmdKind)] /\ pending \in [Inst -> Seq(CmdKind)]
  BY DEF QueuesOK
<1>h. ASSUME NEW s \in Seq(Unconfirming), s # <<>>
      PROVE  Head(s) \in Unconfirming /\ Tail(s) \in Seq(Unconfirming)
  BY <1>h, HeadTailProperties
<1>1. ASSUME NEW c, Dequeue(i, c)
      PROVE  c # "Confirm" /\ cmds'[i] \in Seq(Unconfirming) /\ pending'[i] \in Seq(Unconfirming)
  <2>1. CASE pending[i] # <<>>
    <3>1. c = Head(pending[i]) /\ pending'[i] = Tail(pending[i]) /\ cmds' = cmds
      BY <1>1, <1>t, <2>1 DEF Dequeue
    <3> QED BY <1>h, <2>1, <3>1 DEF Unconfirming
  <2>2. CASE pending[i] = <<>>
    <3>1. cmds[i] # <<>> /\ c = Head(cmds[i]) /\ cmds'[i] = Tail(cmds[i]) /\ pending' = pending
      BY <1>1, <1>t, <2>2 DEF Dequeue, Receive
    <3> QED BY <1>h, <3>1 DEF Unconfirming
  <2> QED BY <2>1, <2>2
<1>2. ~Confirm(i)
  BY <1>1 DEF Confirm, Takes
<1>3. CASE Park(i)
  <2>1. PICK c \in CmdKind : Receive(i, c) /\ pending' = [pending EXCEPT ![i] = Append(@, c)]
    BY <1>3 DEF Park
  <2>2. cmds[i] # <<>> /\ c = Head(cmds[i]) /\ cmds'[i] = Tail(cmds[i])
    BY <1>t, <2>1 DEF Receive
  <2>3. c \in Unconfirming /\ cmds'[i] \in Seq(Unconfirming)
    BY <1>h, <2>2
  <2>4. pending'[i] = Append(pending[i], c)
    BY <1>t, <2>1
  <2>5. Append(pending[i], c) \in Seq(Unconfirming)
    BY <2>3, AppendProperties
  <2> QED BY <1>2, <2>3, <2>4, <2>5
<1>4. CASE DrainDisable(i)
  <2>1. cmds[i] # <<>> /\ cmds'[i] = Tail(cmds[i]) /\ pending' = pending
    BY <1>t, <1>4 DEF DrainDisable, Receive
  <2> QED BY <1>2, <1>h, <2>1
<1>5. CASE \E c \in CmdKind : Dequeue(i, c)
  BY <1>1, <1>2, <1>5
<1>6. CASE UNCHANGED <<cmds, pending>>
  BY <1>2, <1>6
<1> QED BY <1>3, <1>4, <1>5, <1>6, RunningQueues

(* A report of i is harmless to others, and to itself without an exit. *)
LEMMA HarmlessReport ==
  ASSUME FieldsOK, NEW i \in Inst, RunningStep(i), NEW j \in Inst, events \in Seq(Harmless(j)),
         i = j => (out[i].kind = "Ready" => out[i].egress = NoExit)
  PROVE  events' \in Seq(Harmless(j))
<1>1. CASE UNCHANGED events
  BY <1>1
<1>2. CASE Emit(i)
  <2>1. out[i] \in Message
    BY DEF FieldsOK
  <2>2. EventOf(i, out[i]) \in Harmless(j)
    BY <2>1 DEF EventOf, Harmless, Event, Message
  <2>3. Append(events, EventOf(i, out[i])) \in Seq(Harmless(j))
    BY <2>2, AppendProperties
  <2> QED BY <1>2, <2>3 DEF Emit
<1>3. UNCHANGED events \/ Emit(i)
  BY DEF RunningStep, Confirm, Reprobe, Replay, Drain, Disable, Enable, Ignore,
         Park, ReprobeExpire, DrainExpire, DrainDisable, Create, BuildDone, Probe, HandleLost
<1> QED BY <1>1, <1>2, <1>3

(* What i has published and is about to report. *)
LEMMA ReportsExit ==
  ASSUME FieldsOK, NEW i \in Inst, RunningStep(i), ~Confirm(i), egressVal[i] = NoExit, status[i] # "Normal",
         out[i].kind = "Ready" => out[i].egress = NoExit
  PROVE  \/ egressVal'[i] # NoExit
         \/ /\ status'[i] # "Normal"
            /\ out'[i].kind = "Ready" => out'[i].egress = NoExit
<1>t. /\ pc \in [Inst -> Places] /\ status \in [Inst -> Status] /\ egressVal \in [Inst -> Egress]
      /\ out \in [Inst -> Message]
  BY DEF FieldsOK
<1>1. CASE Probe(i)
  <2>1. PICK eg \in Egress :
          /\ egressVal' = [egressVal EXCEPT ![i] = IF eg = Zero THEN @ ELSE eg]
          /\ out' = [out EXCEPT ![i] = [kind |-> "Ready", egress |-> eg]]
    BY <1>1 DEF Probe
  <2>2. CASE eg = Zero
    BY <1>1, <1>t, <2>1, <2>2, RetryAssumption DEF Probe
  <2>3. CASE eg # Zero
    BY <1>t, <2>1, <2>3, RetryAssumption
  <2> QED BY <2>2, <2>3
<1>2. CASE Reprobe(i) \/ Ignore(i) \/ Park(i) \/ ReprobeExpire(i) \/ Create(i)
  BY <1>2 DEF Reprobe, Ignore, Park, ReprobeExpire, Create, face
<1>3. CASE Replay(i) \/ Drain(i) \/ Enable(i) \/ DrainDisable(i)
  BY <1>3, <1>t DEF Replay, Drain, Enable, DrainDisable, SetStatus
<1>4. CASE Disable(i) \/ DrainExpire(i) \/ HandleLost(i)
  BY <1>4, <1>t DEF Disable, DrainExpire, HandleLost, SetStatus, EmitNext, Note
<1>5. CASE BuildDone(i) \/ Emit(i)
  BY <1>5, <1>t DEF BuildDone, Emit, EmitNext, Note, face
<1> QED BY <1>1, <1>2, <1>3, <1>4, <1>5 DEF RunningStep

LEMMA ExitKnownStep ==
  ASSUME RetryTyped, [Next]_vars, NEW j \in Inst, ExitKnown(j)
  PROVE  ExitKnown(j)'
<1>t. FieldsOK /\ QueuesOK /\ EventsOK
  BY DEF RetryTyped
<1>1. CASE egressVal[j] # NoExit
  <2>1. egressVal'[j] # NoExit
    <3>1. ASSUME NEW i \in Inst, RunningStep(i)
          PROVE  egressVal'[j] # NoExit
      <4>1. CASE Probe(i)
        BY <1>1, <1>t, <4>1, RetryAssumption DEF Probe, FieldsOK
      <4>2. CASE ~Probe(i)
        <5>1. UNCHANGED egressVal
          BY <3>1, <4>2 DEF RunningStep, Confirm, Reprobe, Replay, Drain, Disable, Enable, Ignore,
             Park, ReprobeExpire, DrainExpire, DrainDisable, Create, BuildDone, Emit, HandleLost, face
        <5> QED BY <1>1, <5>1
      <4> QED BY <4>1, <4>2
    <3>2. CASE UNCHANGED controlVars \/ Coordinator \/ Call
      BY <1>1, <3>2 DEF controlVars, Coordinator, Call, face
    <3> QED BY <3>1, <3>2, RunningPart
  <2> QED BY <2>1 DEF ExitKnown
<1>2. CASE egressVal[j] = NoExit
  <2>1. NoExitYet(j)
    BY <1>2 DEF ExitKnown
  <2>2. ASSUME NEW i \in Inst, RunningStep(i)
        PROVE  ExitKnown(j)'
    <3>1. events' \in Seq(Harmless(j))
      BY <1>t, <2>1, <2>2, HarmlessReport DEF NoExitYet
    <3>2. CASE i = j
      <4>1. ~Confirm(j) /\ cmds'[j] \in Seq(Unconfirming) /\ pending'[j] \in Seq(Unconfirming)
        BY <1>t, <2>1, <2>2, <3>2, UnconfirmingMoves DEF NoExitYet
      <4>2. \/ egressVal'[j] # NoExit
            \/ /\ status'[j] # "Normal"
               /\ out'[j].kind = "Ready" => out'[j].egress = NoExit
        BY <1>2, <1>t, <2>1, <2>2, <3>2, <4>1, ReportsExit DEF NoExitYet
      <4> QED BY <3>1, <4>1, <4>2 DEF ExitKnown, NoExitYet, Harmless
    <3>3. CASE i # j
      <4>1. status'[j] = status[j] /\ out'[j] = out[j]
        <5>1. ControlStep(i)
          BY <2>2 DEF RunningStep, ControlStep
        <5> QED BY <1>t, <3>3, <5>1, OthersStay
      <4>2. cmds'[j] = cmds[j] /\ pending'[j] = pending[j]
        BY <1>t, <2>2, <3>3, OtherQueues
      <4> QED BY <2>1, <3>1, <4>1, <4>2 DEF ExitKnown, NoExitYet, Harmless
    <3> QED BY <3>2, <3>3
  <2>3. CASE UNCHANGED controlVars
    BY <2>1, <2>3 DEF controlVars, ExitKnown, NoExitYet, Harmless
  <2>4. CASE Coordinator
    <3>1. events # <<>> /\ events' = Tail(events)
      BY <2>4, CoordinatorSends
    <3>2. events' \in Seq(Harmless(j)) /\ Head(events) \in Harmless(j)
      BY <2>1, <3>1, HeadTailProperties DEF NoExitYet
    <3>3. UNCHANGED <<status, out, pending>>
      BY <2>4 DEF Coordinator, face
    <3>4. cmds'[j] \in Seq(Unconfirming)
      <4>1. CASE UNCHANGED cmds
        BY <2>1, <4>1 DEF NoExitYet
      <4>2. CASE ~UNCHANGED cmds
        <5>1. PICK c \in CmdKind :
                /\ Send(Head(events).inst, c)
                /\ c = "Confirm" => Head(events).kind = "Ready" /\ Head(events).egress # NoExit
          BY <2>4, <4>2, CoordinatorSends
        <5>2. Head(events).inst = j => c \in Unconfirming
          BY <3>2, <5>1 DEF Harmless, Unconfirming
        <5>3. cmds'[j] = cmds[j] \/ (Head(events).inst = j /\ cmds'[j] = Append(cmds[j], c))
          BY <1>t, <5>1 DEF Send, QueuesOK
        <5>4. c \in Unconfirming => Append(cmds[j], c) \in Seq(Unconfirming)
          BY <2>1, AppendProperties DEF NoExitYet
        <5> QED BY <2>1, <5>2, <5>3, <5>4 DEF NoExitYet
      <4> QED BY <4>1, <4>2
    <3> QED BY <2>1, <3>2, <3>3, <3>4 DEF ExitKnown, NoExitYet, Harmless
  <2>5. CASE Call
    <3>1. PICK i \in Inst, c \in Unconfirming : Send(i, c)
      BY <2>5, CallSends DEF Unconfirming
    <3>2. cmds'[j] = cmds[j] \/ cmds'[j] = Append(cmds[j], c)
      BY <1>t, <3>1 DEF Send, QueuesOK
    <3>3. Append(cmds[j], c) \in Seq(Unconfirming)
      BY <2>1, AppendProperties DEF NoExitYet
    <3>4. UNCHANGED <<status, out, pending, events>>
      BY <2>5 DEF Call, face
    <3> QED BY <2>1, <3>2, <3>3, <3>4 DEF ExitKnown, NoExitYet, Harmless
  <2> QED BY <2>2, <2>3, <2>4, <2>5, RunningPart
<1> QED BY <1>1, <1>2

(* An instance in service has an exit to show (egress.go:25-27). *)
THEOREM NormalHasExitAlways == Spec => []NormalHasExit
<1> DEFINE I == RetryTyped /\ \A i \in Inst : ExitKnown(i)
<1>1. Init => I
  <2> SUFFICES ASSUME Init PROVE I
    OBVIOUS
  <2>1. ControlInit("none")
    BY DEF Init
  <2>2. \A S : <<>> \in Seq(S)
    BY EmptySeq
  <2>3. \A i \in Inst : NoExitYet(i)
    BY <2>1, <2>2 DEF ControlInit, Note, NoExitYet
  <2> QED BY <2>3, TypedInit DEF ExitKnown
<1>2. I /\ [Next]_vars => I'
  <2> SUFFICES ASSUME I, [Next]_vars PROVE I'
    OBVIOUS
  <2>1. \A i \in Inst : ExitKnown(i)'
    BY ExitKnownStep
  <2> QED BY <2>1, TypedStep
<1>3. I => NormalHasExit
  BY DEF ExitKnown, NoExitYet, NormalHasExit
<1> QED BY <1>1, <1>2, <1>3, PTL DEF Spec

=============================================================================
