---------------------------- MODULE FijDrawProofs ----------------------------
(***************************************************************************)
(* What becomes of a job, whatever its configuration file says and         *)
(* whatever is drawn: which level of the file the injection follows, when  *)
(* it comes, and how a register or memory is chosen.                       *)
(***************************************************************************)
EXTENDS FijDraw, FiniteSetTheorems, TLAPS

-----------------------------------------------------------------------------
(* The merge of the levels.                                                *)

\* A key of the merged job is one that some level has, and its value that of
\* the most specific of them.
LEMMA MergedKey ==
  ASSUME NEW key
  PROVE  /\ key \in DOMAIN Merged(file) <=> Has(key)
         /\ Has(key) => Merged(file)[key] = Asked(key)
<1>1. Has(key) <=> \/ key \in DOMAIN file.args
                   \/ key \in DOMAIN file.target
                   \/ key \in DOMAIN file.global
  BY DEF Has
<1>2. ASSUME NEW f, NEW g
      PROVE  /\ DOMAIN Overriding(f, g) = DOMAIN f \cup DOMAIN g
             /\ key \in DOMAIN f \cup DOMAIN g =>
                  Overriding(f, g)[key] = IF key \in DOMAIN f THEN f[key]
                                          ELSE g[key]
  BY DEF Overriding
<1> DEFINE lower == Overriding(file.target, file.global)
<1>3. /\ DOMAIN lower = DOMAIN file.target \cup DOMAIN file.global
      /\ key \in DOMAIN file.target \cup DOMAIN file.global =>
            lower[key] = IF key \in DOMAIN file.target THEN file.target[key]
                         ELSE file.global[key]
  BY <1>2
<1> HIDE DEF lower
<1>4. /\ DOMAIN Merged(file) = DOMAIN file.args \cup DOMAIN lower
      /\ key \in DOMAIN file.args \cup DOMAIN lower =>
            Merged(file)[key] = IF key \in DOMAIN file.args
                                THEN file.args[key] ELSE lower[key]
  BY <1>2 DEF Merged, lower
<1> QED
  BY <1>1, <1>3, <1>4 DEF Asked

LEMMA MergedValue ==
  ASSUME NEW key, NEW default
  PROVE  ValueOr(Merged(file), key, default) =
            IF Has(key) THEN Asked(key) ELSE default
BY MergedKey DEF ValueOr

\* Every value but a register's name is an int.
LEMMA AskedInt ==
  ASSUME file \in Files, NEW key, key # "reg", Has(key)
  PROVE  Asked(key) \in IntRange
BY FilesAssumption DEF Has, Asked

LEMMA SmallInts ==
  /\ IntRange \subseteq Int
  /\ \A n \in IntRange : n < WordSize - 1
<1> DEFINE half == WordSize \div 2
<1>1. half \in Nat /\ 2 * half <= WordSize /\ WordSize \in Nat
      /\ WordSize >= 2
  BY DrawAssumption
<1> HIDE DEF half
<1> QED
  BY <1>1 DEF IntRange, half

LEMMA AskedNumber ==
  ASSUME file \in Files, NEW key, key # "reg", NEW default \in Int
  PROVE  ValueOr(Merged(file), key, default) \in Int
BY MergedValue, AskedInt, SmallInts

\* The number of a register that a name stands for.
LEMMA RegisterNumber ==
  ASSUME arch \in Arches, NEW name
  PROVE  reg_name_to_id(name) \in Nat
BY FilesAssumption DEF reg_name_to_id, FIJ_REG_NONE

LEMMA ClampedBit ==
  ASSUME NEW b \in Int
  PROVE  Clamped(b) \in 0 .. (RegBits - 1)
BY DrawAssumption DEF Clamped

\* What the keys of a file give the fields, in range or not.
RawParams ==
    [ weight_mem      : Int,
      min_delay_ms    : Int,
      max_delay_ms    : Int,
      only_mem        : BOOLEAN,
      all_threads     : BOOLEAN,
      no_injection    : BOOLEAN,
      thread_present  : BOOLEAN,
      thread          : Int,
      process_present : BOOLEAN,
      nprocess        : Int,
      pc_present      : BOOLEAN,
      target_reg      : Nat,
      reg_bit_present : BOOLEAN,
      reg_bit         : Int ]

LEMMA FieldsType ==
  ASSUME NEW m,
         ValueOr(m, "weight_mem", 0) \in Int,
         ValueOr(m, "min_delay_ms", 0) \in Int,
         ValueOr(m, "max_delay_ms", 0) \in Int,
         ValueOr(m, "thread", 0) \in Int,
         ValueOr(m, "nprocess", 0) \in Int,
         ValueOr(m, "bit", 0) \in Int,
         arch \in Arches
  PROVE  Fields(m) \in RawParams
<1>1. (IF "reg" \in DOMAIN m THEN reg_name_to_id(m["reg"])
       ELSE FIJ_REG_NONE) \in Nat
  BY RegisterNumber DEF FIJ_REG_NONE
<1>2. \A key : IsSet(m, key) \in BOOLEAN
  BY DEF IsSet
<1> QED
  BY <1>1, <1>2 DEF Fields, RawParams

\* The defaults leave parameters the driver can use.
LEMMA DefaultsType ==
  ASSUME NEW p \in RawParams
  PROVE  /\ WithDefaults(p) \in SettingParams
         /\ WithDefaults(p).weight_mem = NotNegative(p.weight_mem)
         /\ WithDefaults(p).reg_bit = Clamped(p.reg_bit)
         /\ WithDefaults(p).only_mem = p.only_mem
         /\ WithDefaults(p).target_reg = p.target_reg
         /\ WithDefaults(p).reg_bit_present = p.reg_bit_present
<1> DEFINE swap == /\ p.min_delay_ms # 0 /\ p.max_delay_ms # 0
                   /\ p.max_delay_ms < p.min_delay_ms
           lo == IF swap THEN p.max_delay_ms ELSE p.min_delay_ms
           hi == IF swap THEN p.min_delay_ms ELSE p.max_delay_ms
           w == NotNegative(p.weight_mem)
           b == Clamped(p.reg_bit)
<1>1. w \in Nat /\ lo \in Int /\ hi \in Int /\ b \in 0 .. (RegBits - 1)
  BY ClampedBit DEF NotNegative, RawParams
<1>2. WithDefaults(p) = [p EXCEPT !.weight_mem = w, !.reg_bit = b,
                                  !.min_delay_ms = lo, !.max_delay_ms = hi]
  BY DEF WithDefaults
<1> HIDE DEF lo, hi, w, b
<1>3. WithDefaults(p) \in SettingParams
  BY <1>1, <1>2 DEF RawParams, SettingParams
<1>4. /\ WithDefaults(p).weight_mem = w
      /\ WithDefaults(p).reg_bit = b
      /\ WithDefaults(p).only_mem = p.only_mem
      /\ WithDefaults(p).target_reg = p.target_reg
      /\ WithDefaults(p).reg_bit_present = p.reg_bit_present
  BY <1>2 DEF RawParams
<1> QED
  BY <1>3, <1>4 DEF w, b

-----------------------------------------------------------------------------
(* The parameters.                                                         *)

\* What becomes of the merged job is what the file asks for.
LEMMA JobAsked ==
  ASSUME file \in Files, arch \in Arches,
         params' = WithDefaults(Fields(Merged(file))),
         UNCHANGED <<file, arch>>
  PROVE  params' \in SettingParams /\ AskedInv'
<1> DEFINE m == Merged(file)
           p == Fields(m)
<1>1. /\ ValueOr(m, "weight_mem", 0) \in Int
      /\ ValueOr(m, "min_delay_ms", 0) \in Int
      /\ ValueOr(m, "max_delay_ms", 0) \in Int
      /\ ValueOr(m, "thread", 0) \in Int
      /\ ValueOr(m, "nprocess", 0) \in Int
      /\ ValueOr(m, "bit", 0) \in Int
  BY AskedNumber
<1>2. p \in RawParams
  <2> HIDE DEF m
  <2> QED
    BY <1>1, FieldsType
<1>3. /\ params' \in SettingParams
      /\ params'.weight_mem = NotNegative(p.weight_mem)
      /\ params'.reg_bit = Clamped(p.reg_bit)
      /\ params'.only_mem = p.only_mem
      /\ params'.target_reg = p.target_reg
      /\ params'.reg_bit_present = p.reg_bit_present
  <2> HIDE DEF p
  <2> QED
    BY <1>2, DefaultsType DEF p
<1>4. /\ p.weight_mem = IF Has("weight_mem") THEN Asked("weight_mem") ELSE 0
      /\ p.reg_bit = IF Has("bit") THEN Asked("bit") ELSE 0
      /\ p.only_mem <=> OnlyMemory
      /\ p.reg_bit_present <=> Has("bit")
      /\ p.target_reg = IF Has("reg") THEN reg_name_to_id(Asked("reg"))
                        ELSE FIJ_REG_NONE
  BY MergedValue, MergedKey DEF Fields, IsSet, OnlyMemory
<1>5. Has("weight_mem") => Asked("weight_mem") \in Int
  BY AskedInt, SmallInts
<1>6. params'.weight_mem = AskedWeight
  <2> HIDE DEF p
  <2> QED
    BY <1>3, <1>4, <1>5 DEF NotNegative, AskedWeight
<1>7. params'.target_reg = AskedReg
  BY <1>3, <1>4 DEF AskedReg, reg_name_to_id
<1>8. /\ AskedReg' = AskedReg /\ AskedWeight' = AskedWeight
      /\ OnlyMemory' <=> OnlyMemory
      /\ \A key : (Has(key)' <=> Has(key)) /\ Asked(key)' = Asked(key)
  BY DEF AskedReg, AskedWeight, OnlyMemory, Has, Asked
<1> HIDE DEF p
<1> QED
  BY <1>3, <1>4, <1>6, <1>7, <1>8 DEF AskedInv

\* What asks stays the same while the parameters do.
LEMMA StillAsked ==
  ASSUME AskedInv, UNCHANGED <<file, arch>>,
         params'.target_reg = params.target_reg,
         params'.reg_bit_present = params.reg_bit_present,
         params'.reg_bit = params.reg_bit,
         params'.only_mem = params.only_mem,
         params'.weight_mem = params.weight_mem
  PROVE  AskedInv'
<1>1. /\ AskedReg' = AskedReg /\ AskedWeight' = AskedWeight
      /\ OnlyMemory' <=> OnlyMemory
      /\ \A key : (Has(key)' <=> Has(key)) /\ Asked(key)' = Asked(key)
  BY DEF AskedReg, AskedWeight, OnlyMemory, Has, Asked
<1> QED
  BY <1>1 DEF AskedInv

\* The delay that was measured replaces the one of the file.
SentParams(p, max) ==
    [p EXCEPT !.max_delay_ms = max, !.no_injection = FALSE]

LEMMA SentType ==
  ASSUME NEW p \in SettingParams, NEW max \in Nat
  PROVE  /\ SentParams(p, max) \in SettingParams
         /\ SentParams(p, max).max_delay_ms = max
         /\ SentParams(p, max).target_reg = p.target_reg
         /\ SentParams(p, max).reg_bit_present = p.reg_bit_present
         /\ SentParams(p, max).reg_bit = p.reg_bit
         /\ SentParams(p, max).only_mem = p.only_mem
         /\ SentParams(p, max).weight_mem = p.weight_mem
<1>1. max \in Int
  OBVIOUS
<1> USE <1>1 DEF SettingParams, SentParams
<1>2. SentParams(p, max) \in SettingParams
  OBVIOUS
<1>3. /\ SentParams(p, max).max_delay_ms = max
      /\ SentParams(p, max).target_reg = p.target_reg
      /\ SentParams(p, max).reg_bit_present = p.reg_bit_present
      /\ SentParams(p, max).reg_bit = p.reg_bit
      /\ SentParams(p, max).only_mem = p.only_mem
      /\ SentParams(p, max).weight_mem = p.weight_mem
  OBVIOUS
<1> QED
  BY <1>2, <1>3

LEMMA ParamsStep == ParamsInv /\ [DrawNext]_vars => ParamsInv'
<1> SUFFICES ASSUME ParamsInv, [DrawNext]_vars PROVE ParamsInv'
  OBVIOUS
<1>1. CASE BuildJob
  <2>1. CASE stage' = "skipped" /\ UNCHANGED <<file, arch, params>>
    BY <2>1 DEF ParamsInv, Skipped, Underway, Stages
  <2>2. CASE /\ stage' = "job"
             /\ params' = WithDefaults(Fields(Merged(file)))
             /\ UNCHANGED <<file, arch>>
    <3>1. params' \in SettingParams /\ AskedInv'
      BY <2>2, JobAsked DEF ParamsInv
    <3> QED
      BY <2>2, <3>1 DEF ParamsInv, Underway, Stages
  <2> QED
    BY <1>1, <2>1, <2>2 DEF BuildJob
<1>2. CASE Send
  <2>1. PICK max \in Measured : params' = SentParams(params, max)
    BY <1>2 DEF Send, SentParams
  <2>2. params \in SettingParams /\ max \in Nat
    BY DrawAssumption DEF ParamsInv
  <2>3. /\ params' \in SettingParams
        /\ params'.max_delay_ms = max
        /\ params'.target_reg = params.target_reg
        /\ params'.reg_bit_present = params.reg_bit_present
        /\ params'.reg_bit = params.reg_bit
        /\ params'.only_mem = params.only_mem
        /\ params'.weight_mem = params.weight_mem
    BY <2>1, <2>2, SentType
  <2>4. AskedInv'
    BY <1>2, <2>3, StillAsked DEF Send, ParamsInv, Skipped
  <2> QED
    BY <1>2, <2>3, <2>4 DEF Send, ParamsInv, Stages
<1>3. CASE /\ UNCHANGED <<file, arch, params>>
           /\ stage' \in Stages
           /\ Underway' => Underway
           /\ Skipped => Skipped'
  <2>1. AskedInv => AskedInv'
    BY <1>3, StillAsked
  <2> QED
    BY <1>3, <2>1 DEF ParamsInv
<1>4. CASE Sleep \/ DrawThread \/ DrawPlace \/ FlipRegister \/ FlipMemory
  <2>1. UNCHANGED <<file, arch, params>>
    BY <1>4 DEF Sleep, DrawThread, DrawPlace, FlipRegister, FlipMemory
  <2>2. stage' \in {"sent", "thread", "place", "flip", "hit"}
        /\ stage \in {"sent", "thread", "place", "flip"}
    BY <1>4 DEF Sleep, DrawThread, DrawPlace, FlipRegister, FlipMemory, Over,
                Repeat
  <2> QED
    BY <1>3, <2>1, <2>2 DEF Stages, Underway, Skipped
<1>5. CASE Finished \/ UNCHANGED vars
  <2>1. UNCHANGED <<stage, file, arch, params>>
    BY <1>5 DEF Finished, vars, settingVars
  <2> QED
    BY <1>3, <2>1 DEF Underway, Skipped, ParamsInv
<1> QED
  BY <1>1, <1>2, <1>4, <1>5 DEF DrawNext

LEMMA ParamsAlways == DrawSafe => []ParamsInv
<1>1. DrawInit => ParamsInv
  <2> SUFFICES ASSUME DrawInit PROVE ParamsInv
    OBVIOUS
  <2>1. /\ stage = "file" /\ file \in Files /\ arch \in Arches
        /\ params = WithDefaults(Fields(<<>>))
    BY DEF DrawInit, SettingsInit
  <2>2. \A key : ValueOr(<<>>, key, 0) = 0
    BY DEF ValueOr
  <2>3. Fields(<<>>) \in RawParams
    BY <2>1, <2>2, FieldsType
  <2>4. params \in SettingParams
    BY <2>1, <2>3, DefaultsType
  <2> QED
    BY <2>1, <2>4 DEF ParamsInv, Stages, Skipped, Underway
<1> QED
  BY <1>1, ParamsStep, PTL DEF DrawSafe

-----------------------------------------------------------------------------
(* The arithmetic of the draws.                                            *)

LEMMA Quotient ==
  ASSUME NEW a \in Nat, NEW b \in Nat \ {0}
  PROVE  /\ a \div b \in Nat
         /\ a % b \in 0 .. (b - 1)
         /\ a = b * (a \div b) + (a % b)
OBVIOUS

LEMMA Products ==
  ASSUME NEW b \in Nat \ {0}, NEW x \in Int, NEW y \in Int
  PROVE  /\ b * x \in Int
         /\ x < y => b * x < b * y
         /\ x <= y => b * x <= b * y
         /\ b * (x + 1) = b * x + b
         /\ b * x - b * y = b * (x - y)
OBVIOUS

\* A multiple leaves no remainder.
LEMMA NoRemainder ==
  ASSUME NEW b \in Nat \ {0}, NEW k \in Nat
  PROVE  (b * k) % b = 0 /\ b * k \in Nat
<1> DEFINE a == b * k
           q == a \div b
           r == a % b
<1>1. a \in Nat
  OBVIOUS
<1>2. q \in Nat /\ r \in 0 .. (b - 1) /\ a = b * q + r
  <2> HIDE DEF a
  <2> QED
    BY <1>1, Quotient
<1> HIDE DEF q, r
<1>3. b * (k - q) = r
  BY <1>2, Products
<1>4. k - q < 1
  <2> SUFFICES ASSUME 1 <= k - q PROVE FALSE
    BY <1>2
  <2>1. b * 1 <= b * (k - q)
    BY <1>2, Products
  <2> QED
    BY <1>2, <1>3, <2>1
<1>5. k - q > -1
  <2> SUFFICES ASSUME k - q <= -1 PROVE FALSE
    BY <1>2
  <2>1. b * (k - q) <= b * (-1)
    BY <1>2, Products
  <2> QED
    BY <1>2, <1>3, <2>1
<1>6. k - q = 0
  BY <1>2, <1>4, <1>5
<1> QED
  BY <1>1, <1>3, <1>6 DEF r

\* Of the numbers below a multiple of b, as many are multiples of b as the
\* factor says.
LEMMA MultiplesBelow ==
  ASSUME NEW b \in Nat \ {0}, NEW q \in Nat
  PROVE  Cardinality({r \in 0 .. (b * q - 1) : r % b = 0}) = q
<1> DEFINE S == 0 .. (q - 1)
           T == {r \in 0 .. (b * q - 1) : r % b = 0}
           f == [k \in S |-> b * k]
<1>1. ASSUME NEW k \in S PROVE f[k] \in T
  <2>1. k \in Nat /\ k <= q - 1 /\ b * k \in Nat /\ (b * k) % b = 0
    BY NoRemainder
  <2>2. b * k <= b * (q - 1) /\ b * (q - 1) + b = b * q
    BY <2>1, Products
  <2> QED
    BY <2>1, <2>2, Products
<1>2. ASSUME NEW j \in S, NEW k \in S, f[j] = f[k] PROVE j = k
  BY <1>2, Products
<1>3. ASSUME NEW r \in T PROVE \E k \in S : f[k] = r
  <2> DEFINE k == r \div b
  <2>1. r \in Nat /\ b * q \in Int /\ r < b * q
    BY Products
  <2>2. k \in Nat /\ r = b * k
    BY <2>1, Quotient
  <2> HIDE DEF k
  <2>3. k < q
    <3> SUFFICES ASSUME q <= k PROVE FALSE
      BY <2>2
    <3> QED
      BY <2>1, <2>2, Products
  <2> QED
    BY <2>2, <2>3
<1>4. f \in Bijection(S, T)
  <2> HIDE DEF S, T
  <2>1. f \in [S -> T]
    BY <1>1
  <2> HIDE DEF f
  <2> QED
    BY <2>1, <1>2, <1>3 DEF Bijection, Injection, Surjection, IsInjective
<1>5. IsFiniteSet(S) /\ Cardinality(S) = q
  <2>1. 0 \in Int /\ q - 1 \in Int
    OBVIOUS
  <2>2. /\ IsFiniteSet(0 .. (q - 1))
        /\ Cardinality(0 .. (q - 1)) = IF 0 > q - 1 THEN 0 ELSE q - 1 - 0 + 1
    BY <2>1, FS_Interval
  <2> QED
    BY <2>2
<1> HIDE DEF S, T, f
<1>6. Cardinality(S) = Cardinality(T)
  BY <1>4, <1>5, FS_Bijection DEF ExistsBijection
<1> QED
  BY <1>5, <1>6 DEF T

\* A weight below the largest word leaves as many words for a register as for
\* any other remainder.
LEMMA FairDraw ==
  ASSUME NEW weight \in Nat, weight < WordSize - 1
  PROVE  /\ total(weight) = weight + 1
         /\ ToRegister(weight) # {}
         /\ Cardinality(ToRegister(weight)) * (1 + weight)
              = Cardinality(Below(limit(weight)))
<1> DEFINE T == weight + 1
           U == WordSize - 1
           q == U \div T
<1>1. T \in Nat \ {0} /\ U \in Nat \ {0} /\ T <= U /\ WordSize \in Nat \ {0}
  BY DrawAssumption
<1>2. wm(weight) = weight
  BY <1>1 DEF wm
<1>3. total(weight) = T
  BY <1>1, <1>2 DEF total, U32_MAX
<1>4. q \in Nat /\ U % T \in 0 .. (T - 1) /\ U = T * q + (U % T)
  <2> HIDE DEF T, U
  <2> QED
    BY <1>1, Quotient
<1>5. limit(weight) = U - (U % T)
  BY <1>3 DEF limit, U32_MAX
<1> HIDE DEF T, U, q
<1>6. T * q \in Nat /\ limit(weight) = T * q
  BY <1>1, <1>4, <1>5, NoRemainder
<1>7. T * q >= 1
  <2>1. q # 0
    BY <1>1, <1>4
  <2>2. T * 1 <= T * q
    BY <1>1, <1>4, <2>1, Products
  <2> QED
    BY <1>1, <1>6, <2>2
<1>8. ToRegister(weight) = {r \in 0 .. (T * q - 1) : r % T = 0}
      /\ Below(limit(weight)) = 0 .. (T * q - 1)
  BY <1>3, <1>6 DEF ToRegister, Below
<1>9. 0 \in ToRegister(weight)
  <2>1. 0 % T = 0
    BY <1>1
  <2> QED
    BY <1>6, <1>7, <1>8, <2>1
<1>10. Cardinality(ToRegister(weight)) = q
  BY <1>1, <1>4, <1>8, MultiplesBelow
<1>11. Cardinality(Below(limit(weight))) = T * q
  <2> DEFINE n == T * q - 1
  <2>1. n \in Int /\ 0 \in Int /\ n >= 0 /\ n + 1 = T * q
    BY <1>6, <1>7
  <2>2. Cardinality(0 .. n) = IF 0 > n THEN 0 ELSE n - 0 + 1
    <3> HIDE DEF n
    <3> QED
      BY <2>1, FS_Interval
  <2>3. Cardinality(0 .. n) = n + 1
    <3> HIDE DEF n
    <3> QED
      BY <2>1, <2>2
  <2> QED
    BY <1>8, <2>1, <2>3
<1>12. q * (1 + weight) = T * q
  BY <1>1, <1>4 DEF T
<1> QED
  BY <1>3, <1>9, <1>10, <1>11, <1>12 DEF T

\* Nothing says memory: a register is chosen.
LEMMA NoWeight == total(0) = 1
<1>1. 0 < WordSize - 1
  BY DrawAssumption
<1> QED
  BY <1>1, FairDraw

LEMMA RandomBetween ==
  ASSUME NEW a \in Int, NEW b \in Int, a <= b, NEW x \in fij_random_ms(a, b)
  PROVE  x \in Int /\ a <= x /\ x <= b
BY DEF fij_random_ms, Below, Span

\* What may be slept, in nanoseconds.
LEMMA DelayRange ==
  ASSUME params.min_delay_ms \in Int, params.max_delay_ms \in Nat,
         NEW d \in Delays
  PROVE  /\ d \in Int
         /\ d <= NSEC_PER_MSEC * max_ms
         /\ max_ms >= ShortWindow => NSEC_PER_MSEC * min_ms <= d
<1>1. min_ms \in Nat /\ max_ms \in Nat /\ min_ms <= max_ms
  <2>1. Min0 \in Nat /\ Max0 \in Nat
    BY DrawAssumption
       DEF Min0, Max0, DEFAULT_MIN_DELAY_MS, DEFAULT_MAX_DELAY_MS
  <2> QED
    BY <2>1 DEF min_ms, max_ms
<1> DEFINE N == NSEC_PER_MSEC
           lo == min_ms
           hi == max_ms
<1>2. N \in Nat \ {0} /\ ShortWindow \in Nat \ {0}
      /\ lo \in Nat /\ hi \in Nat /\ lo <= hi
  BY <1>1, DrawAssumption
<1>3. d \in IF hi <= 0 THEN {0}
            ELSE IF hi < ShortWindow THEN fij_random_ms(lo, hi * N)
                 ELSE {x * N : x \in fij_random_ms(lo, hi)}
  BY DEF Delays
<1> SUFFICES /\ d \in Int
             /\ d <= N * hi
             /\ hi >= ShortWindow => N * lo <= d
  OBVIOUS
<1> HIDE DEF N, lo, hi
<1>4. CASE hi <= 0
  BY <1>2, <1>3, <1>4, Products
<1>5. CASE 0 < hi /\ hi < ShortWindow
  <2>1. N * hi \in Int /\ hi * N = N * hi /\ hi <= N * hi
    BY <1>2, Products
  <2>2. d \in fij_random_ms(lo, N * hi)
    BY <1>2, <1>3, <1>5, <2>1
  <2> QED
    BY <1>2, <1>5, <2>1, <2>2, RandomBetween
<1>6. CASE 0 < hi /\ ShortWindow <= hi
  <2>1. PICK x \in fij_random_ms(lo, hi) : d = x * N
    BY <1>2, <1>3, <1>6
  <2>2. x \in Int /\ lo <= x /\ x <= hi
    BY <1>2, <2>1, RandomBetween
  <2>3. x * N = N * x /\ N * x \in Int /\ N * x <= N * hi /\ N * lo <= N * x
    BY <1>2, <2>2, Products
  <2> QED
    BY <2>1, <2>3
<1> QED
  BY <1>2, <1>4, <1>5, <1>6

-----------------------------------------------------------------------------
(* What is drawn.                                                          *)

LEMMA NothingDrawn == Nothing \in Drawn
BY DEF Nothing, Drawn

\* A run that is repeated starts over.
LEMMA RepeatStep ==
  ASSUME Repeat(Nothing)
  PROVE  DrawnInv'
BY NothingDrawn DEF Repeat, DrawnInv

\* The parameters and their bounds.
LEMMA ParamsKnown ==
  ASSUME ParamsInv
  PROVE  /\ params.min_delay_ms \in Int
         /\ params.thread \in Int
         /\ params.target_reg \in Nat
         /\ params.reg_bit \in 0 .. (RegBits - 1)
         /\ arch.max \in Int
         /\ Underway => params.max_delay_ms \in Nat
<1>1. params \in SettingParams /\ arch \in Arches
  BY DEF ParamsInv
<1> QED
  BY <1>1, DrawAssumption, FilesAssumption DEF SettingParams, ParamsInv

\* The runner's parameters stay while the run goes on.
LEMMA SameDraw ==
  ASSUME UNCHANGED <<file, arch, params>>
  PROVE  /\ Delays' = Delays
         /\ Named' <=> Named
         /\ \A weight : total(weight)' = total(weight)
BY DEF Delays, min_ms, max_ms, Min0, Max0, Named, total, wm, U32_MAX

LEMMA SleepStep ==
  ASSUME DrawnInv, ParamsInv, Sleep
  PROVE  DrawnInv'
<1>1. CASE Repeat(Nothing)
  BY <1>1, RepeatStep
<1>2. CASE /\ delay' \in IF params.pc_present THEN {0} ELSE Delays
           /\ stage' = "thread"
           /\ UNCHANGED drawn
  <2>1. UNCHANGED <<file, arch, params>> /\ Underway
    BY DEF Sleep, Underway
  <2>2. delay' \in Int
    BY <1>2, <2>1, ParamsKnown, DelayRange
  <2>3. ~params.pc_present => delay' \in Delays
    BY <1>2
  <2> QED
    BY <1>2, <2>1, <2>2, <2>3, SameDraw DEF DrawnInv
<1> QED
  BY <1>1, <1>2 DEF Sleep

LEMMA ThreadStep ==
  ASSUME DrawnInv, ParamsInv, DrawThread
  PROVE  DrawnInv'
<1> DEFINE asked == params.thread_present /\ params.thread > 0
           index == FromOne(params.thread)
<1>1. CASE Repeat(Nothing)
  BY <1>1, RepeatStep
<1>2. CASE /\ stage' = "place"
           /\ delay' = 0
           /\ drawn' \in [thread : IF params.all_threads THEN {-1}
                                   ELSE IF asked THEN {index}
                                   ELSE Below(NThreads),
                          place : {"none"}, reg : {0}, bit : {0}]
  <2>1. UNCHANGED params /\ params.thread \in Int /\ index = params.thread - 1
    BY ParamsKnown DEF DrawThread, FromOne
  <2>2. \A n \in Below(NThreads) : n \in Int
    BY DrawAssumption DEF Below
  <2>3. drawn' \in Drawn
    BY <1>2, <2>1, <2>2 DEF Drawn
  <2> QED
    BY <1>2, <2>1, <2>3 DEF DrawnInv
<1> QED
  BY <1>1, <1>2 DEF DrawThread

LEMMA PlaceStep ==
  ASSUME DrawnInv, ParamsInv, DrawPlace
  PROVE  DrawnInv'
<1>1. PICK register \in BOOLEAN :
        /\ MayChoose(register)
        /\ drawn' = [drawn EXCEPT !.place = IF register \/ Named THEN "reg"
                                            ELSE "mem"]
  BY DEF DrawPlace
<1>2. /\ stage = "place" /\ stage' = "flip"
      /\ UNCHANGED <<file, arch, params, delay>>
  BY DEF DrawPlace
<1>3. drawn \in Drawn
  BY <1>2 DEF DrawnInv
<1>4. /\ drawn' \in Drawn
      /\ drawn'.place = IF register \/ Named THEN "reg" ELSE "mem"
  BY <1>1, <1>3 DEF Drawn
<1>5. /\ params.only_mem => ~register
      /\ ~params.only_mem /\ total(params.weight_mem) = 1 => register
  BY <1>1 DEF MayChoose
<1>6. PlaceDrawn'
  BY <1>2, <1>4, <1>5, SameDraw DEF PlaceDrawn
<1> QED
  BY <1>2, <1>4, <1>6 DEF DrawnInv

\* A flip leaves the place as it was drawn.
LEMMA HitStep ==
  ASSUME DrawnInv, ParamsInv, stage = "flip", UNCHANGED <<file, arch, params>>,
         NEW reg \in Nat, NEW bit \in Int,
         Over([drawn EXCEPT !.reg = reg, !.bit = bit]),
         drawn.place = "reg" =>
            /\ Named => reg = params.target_reg
            /\ params.reg_bit_present => bit = params.reg_bit
  PROVE  DrawnInv'
<1>1. CASE params.all_threads
  BY <1>1, RepeatStep DEF Over
<1>2. CASE ~params.all_threads
  <2>1. /\ drawn \in Drawn /\ PlaceDrawn
        /\ stage' = "hit" /\ delay' = delay /\ delay \in Int
        /\ drawn' = [drawn EXCEPT !.reg = reg, !.bit = bit]
    BY <1>2 DEF Over, DrawnInv
  <2>2. /\ drawn' \in Drawn
        /\ drawn'.place = drawn.place
        /\ drawn'.reg = reg /\ drawn'.bit = bit
    BY <2>1 DEF Drawn
  <2>3. PlaceDrawn'
    BY <2>1, <2>2, SameDraw DEF PlaceDrawn
  <2>4. BitDrawn'
    BY <1>2, <2>2, SameDraw DEF BitDrawn
  <2> QED
    BY <2>1, <2>2, <2>3, <2>4 DEF DrawnInv
<1> QED
  BY <1>1, <1>2

LEMMA DrawnStep == DrawnInv /\ ParamsInv /\ [DrawNext]_vars => DrawnInv'
<1> SUFFICES ASSUME DrawnInv, ParamsInv, [DrawNext]_vars PROVE DrawnInv'
  OBVIOUS
<1>1. CASE (BuildJob \/ Send) /\ UNCHANGED <<delay, drawn>>
  BY <1>1 DEF BuildJob, Send, DrawnInv
<1>2. CASE FlipRegister
  <2>1. PICK reg \in IF Named THEN {params.target_reg}
                     ELSE fij_pick_random_reg_any,
             bit \in IF params.reg_bit_present THEN {params.reg_bit}
                     ELSE 0 .. (RegBits - 1) :
          \/ Over([drawn EXCEPT !.reg = reg, !.bit = bit])
          \/ Repeat(Nothing)
    BY <1>2 DEF FlipRegister
  <2>2. reg \in Nat /\ bit \in Int
    BY <2>1, ParamsKnown, DrawAssumption DEF fij_pick_random_reg_any
  <2>3. stage = "flip" /\ UNCHANGED <<file, arch, params>>
    BY <1>2 DEF FlipRegister
  <2>4. /\ Named => reg = params.target_reg
        /\ params.reg_bit_present => bit = params.reg_bit
    BY <2>1
  <2> QED
    BY <2>1, <2>2, <2>3, <2>4, HitStep, RepeatStep
<1>3. CASE FlipMemory
  <2>1. CASE Repeat(Nothing)
    BY <2>1, RepeatStep
  <2>2. ASSUME NEW bit \in 0 .. 7, Over([drawn EXCEPT !.bit = bit])
        PROVE  DrawnInv'
    <3>1. drawn \in Drawn /\ drawn.reg \in Nat
      BY DEF DrawnInv, Drawn
    <3>2. [drawn EXCEPT !.bit = bit]
            = [drawn EXCEPT !.reg = drawn.reg, !.bit = bit]
      BY <3>1 DEF Drawn
    <3>3. stage = "flip" /\ UNCHANGED <<file, arch, params>>
          /\ drawn.place = "mem"
      BY <1>3 DEF FlipMemory
    <3>4. Over([drawn EXCEPT !.reg = drawn.reg, !.bit = bit]) /\ bit \in Int
      BY <2>2, <3>2
    <3>5. drawn.place # "reg"
      BY <3>3
    <3> DEFINE reg == drawn.reg
    <3>6. reg \in Nat /\ Over([drawn EXCEPT !.reg = reg, !.bit = bit])
      BY <3>1, <3>4
    <3> HIDE DEF reg
    <3> QED
      BY <3>3, <3>4, <3>5, <3>6, HitStep
  <2> QED
    BY <1>3, <2>1, <2>2 DEF FlipMemory
<1>4. CASE Finished \/ UNCHANGED vars
  <2>1. UNCHANGED <<stage, file, arch, params, delay, drawn>>
    BY <1>4 DEF Finished, vars, settingVars
  <2> QED
    BY <2>1, SameDraw
       DEF DrawnInv, PlaceDrawn, BitDrawn
<1> QED
  BY <1>1, <1>2, <1>3, <1>4, SleepStep, ThreadStep, PlaceStep DEF DrawNext

LEMMA DrawnAlways == DrawSafe => []DrawnInv
<1>1. DrawInit => DrawnInv
  BY NothingDrawn DEF DrawInit, SettingsInit, DrawnInv
<1> QED
  BY <1>1, DrawnStep, ParamsAlways, PTL DEF DrawSafe

-----------------------------------------------------------------------------
(* The theorems.                                                           *)

\* Whatever ints the file has, the driver gets a weight that is not negative
\* and a bit of a register (fij_core.cpp:190).
THEOREM SettingsTypes == DrawSafe => []SettingsTypeOK
<1>1. ParamsInv /\ DrawnInv => SettingsTypeOK
  BY DEF ParamsInv, DrawnInv, SettingsTypeOK
<1> QED
  BY <1>1, ParamsAlways, DrawnAlways, PTL

\* The delay, in nanoseconds, is never longer than the measured time or the
\* file's minimum (bitflip_thread.c), although the bounds of a short window
\* are in different units.
THEOREM DelayIsBounded == DrawSafe => []DelayBounded
<1>1. ParamsInv /\ DrawnInv => DelayBounded
  <2> SUFFICES ASSUME ParamsInv, DrawnInv, stage = "thread",
                      ~params.pc_present
               PROVE  /\ delay <= NSEC_PER_MSEC * max_ms
                      /\ max_ms >= ShortWindow =>
                            NSEC_PER_MSEC * min_ms <= delay
    BY DEF DelayBounded
  <2>1. /\ params.min_delay_ms \in Int /\ params.max_delay_ms \in Nat
        /\ delay \in Delays
    BY ParamsKnown DEF Underway, DrawnInv
  <2> QED
    BY <2>1, DelayRange
<1> QED
  BY <1>1, ParamsAlways, DrawnAlways, PTL

\* A register is chosen with the probability that the weight of the file asks
\* for, of any int (choose_register_target): rejecting words removes the bias
\* of the remainder.
THEOREM ChoiceIsUnbiased == DrawSafe => []Unbiased
<1>1. ParamsInv => Unbiased
  <2> SUFFICES ASSUME ParamsInv, stage = "place"
               PROVE  /\ ToRegister(params.weight_mem) # {}
                      /\ Cardinality(ToRegister(params.weight_mem))
                              * (1 + AskedWeight)
                            = Cardinality(Below(limit(params.weight_mem)))
    BY DEF Unbiased, AskedWeight
  <2>1. params.weight_mem = AskedWeight
    BY DEF ParamsInv, AskedInv, Skipped
  <2>2. AskedWeight \in Nat /\ AskedWeight < WordSize - 1
    <3> DEFINE weight == Asked("weight_mem")
    <3>1. Has("weight_mem") => weight \in Int /\ weight < WordSize - 1
      BY AskedInt, SmallInts DEF ParamsInv
    <3>2. 0 < WordSize - 1
      BY DrawAssumption
    <3>3. AskedWeight = IF Has("weight_mem") /\ weight > 0
                        THEN weight ELSE 0
      BY DEF AskedWeight
    <3> HIDE DEF weight
    <3> QED
      BY <3>1, <3>2, <3>3
  <2> QED
    BY <2>1, <2>2, FairDraw
<1> QED
  BY <1>1, ParamsAlways, PTL

\* The injection is the one the most specific level of the file asks for, on
\* the way from the job (fij_config.cpp:45) to the flip, whatever the widths,
\* the registers and the files; the number of a thread and a register named
\* beside only_mem are not its subject.
THEOREM FileIsHonoured == DrawSafe => []Honoured
<1>1. ParamsInv /\ DrawnInv => Honoured
  <2> SUFFICES ASSUME ParamsInv, DrawnInv, stage = "hit" PROVE Honoured
    BY DEF Honoured
  <2>1. AskedInv /\ PlaceDrawn /\ BitDrawn
    BY DEF ParamsInv, Skipped, DrawnInv
  <2>2. /\ drawn.place = "reg" /\ AskedReg # FIJ_REG_NONE =>
                drawn.reg = AskedReg
        /\ OnlyMemory /\ AskedReg = FIJ_REG_NONE => drawn.place = "mem"
    BY <2>1 DEF AskedInv, PlaceDrawn, BitDrawn, Named
  <2>3. ASSUME drawn.place = "reg", Has("bit"), NEW b \in 0 .. (RegBits - 1)
        PROVE  Off(drawn.bit, Asked("bit")) <= Off(b, Asked("bit"))
    <3>1. drawn.bit = Clamped(Asked("bit"))
      BY <2>1, <2>3 DEF AskedInv, BitDrawn
    <3>2. Asked("bit") \in Int
      BY <2>3, AskedInt, SmallInts DEF ParamsInv
    <3> DEFINE x == Asked("bit")
    <3> HIDE DEF x
    <3>3. Off(Clamped(x), x) <= Off(b, x)
      BY <3>2, DrawAssumption DEF Off, Clamped, x
    <3> QED
      BY <3>1, <3>3 DEF x
  <2>4. ~OnlyMemory /\ AskedWeight = 0 => drawn.place = "reg"
    BY <2>1, NoWeight DEF AskedInv, PlaceDrawn
  <2> QED
    BY <2>2, <2>3, <2>4 DEF Honoured
<1> QED
  BY <1>1, ParamsAlways, DrawnAlways, PTL
=============================================================================
