------------------------------- MODULE FijDraw -------------------------------
(***************************************************************************)
(* The random choices of one injection, from the parameters that           *)
(* FijSettings sends: the delay (bitflip_thread.c), the thread (util.c),   *)
(* register or memory by weight (util.c) and the register and bit          *)
(* (bitflip_ops.c); and the runner, which repeats the run until it is told *)
(* that a fault was injected.                                              *)
(*                                                                         *)
(* Milliseconds and words are small here: a millisecond has NSEC_PER_MSEC  *)
(* nanoseconds (10^6 in the code), a window is short below ShortWindow     *)
(* (500) and a random word is below WordSize (2^32).                       *)
(***************************************************************************)
EXTENDS FijSettings, FiniteSets

CONSTANTS NSEC_PER_MSEC, ShortWindow, WordSize,
          NThreads  \* threads of the target

ASSUME DrawAssumption ==
    /\ NSEC_PER_MSEC \in Nat \ {0}
    /\ ShortWindow \in Nat \ {0}
    /\ WordSize \in Nat \ {0, 1}
    /\ NThreads \in Nat \ {0}
    /\ RegBits \in Nat \ {0}
    /\ Measured \subseteq Nat

\* The values of the file fit the ints that take them (WordSize being that
\* of an unsigned one) and a register's number is not negative.
IntRange == -(WordSize \div 2) .. (WordSize \div 2) - 1

ASSUME FilesAssumption ==
    /\ \A f \in Files, level \in {"global", "target", "args"} :
          \A key \in DOMAIN f[level] :
              key # "reg" => f[level][key] \in IntRange
    /\ \A a \in Arches : /\ a.max \in Int
                         /\ \A name \in DOMAIN a.names : a.names[name] \in Nat

DEFAULT_MIN_DELAY_MS == 0
DEFAULT_MAX_DELAY_MS == 2 * ShortWindow

VARIABLES
    delay,   \* the nanoseconds being slept
    drawn    \* what was chosen so far

vars == <<settingVars, delay, drawn>>

Drawn == [ thread : Int, place : {"none", "reg", "mem"}, reg : Nat,
           bit : Int ]
Nothing == [ thread |-> -1, place |-> "none", reg |-> 0, bit |-> 0 ]

Stages == {"file", "job", "skipped", "sent", "thread", "place", "flip", "hit"}

\* The values the variables range over.
SettingsTypeOK ==
    /\ stage \in Stages
    /\ file \in Files
    /\ arch \in Arches
    /\ params \in SettingParams
    /\ delay \in Int
    /\ drawn \in Drawn

DrawInit ==
    /\ SettingsInit
    /\ delay = 0
    /\ drawn = Nothing

-----------------------------------------------------------------------------
\* The bounds as bitflip_thread_fn normalises them.
Min0 == IF params.min_delay_ms > 0 THEN params.min_delay_ms
        ELSE DEFAULT_MIN_DELAY_MS
Max0 == IF params.max_delay_ms # 0 THEN params.max_delay_ms
        ELSE DEFAULT_MAX_DELAY_MS
min_ms == IF Max0 < Min0 THEN Max0 ELSE Min0
max_ms == IF Max0 < Min0 THEN Min0 ELSE Max0

\* get_random_u32_below.
Below(n) == 0 .. (n - 1)

\* A bug: one too many.
SpanPlusOne(lo, hi) == (hi - lo) + 2
Span(lo, hi) == (hi - lo) + 1

\* fij_random_ms takes its bounds in either order.
fij_random_ms(a, b) ==
    LET lo == IF b < a THEN b ELSE a
        hi == IF b < a THEN a ELSE b
    IN {lo + r : r \in Below(Span(lo, hi))}

\* A short window is drawn from milliseconds to nanoseconds, and the result
\* is slept as nanoseconds.
Delays ==
    IF max_ms <= 0 THEN {0}
    ELSE IF max_ms < ShortWindow
         THEN fij_random_ms(min_ms, max_ms * NSEC_PER_MSEC)
         ELSE {d * NSEC_PER_MSEC : d \in fij_random_ms(min_ms, max_ms)}

\* The run is repeated: fault_injected was not set.
Repeat(d) ==
    /\ stage' = "sent"
    /\ delay' = 0
    /\ drawn' = d

\* Deterministic mode waits for the probe instead.  Either way there may be
\* no injection: the target has ended, the sleep was interrupted, or ret,
\* which only the short sleep sets, happens not to be 0.
Sleep ==
    /\ stage = "sent"
    /\ \/ /\ delay' \in IF params.pc_present THEN {0} ELSE Delays
          /\ stage' = "thread"
          /\ UNCHANGED drawn
       \/ Repeat(Nothing)
    /\ UNCHANGED <<file, arch, params>>

\* A bug: the index is taken as it is.
FromZero(n) == n
FromOne(n) == n - 1

\* Threads are numbered from 1 by the client; 0 and less is a random one,
\* and one that is not there is none.  all_threads draws no thread.
DrawThread ==
    /\ stage = "thread"
    /\ LET asked == params.thread_present /\ params.thread > 0
           index == FromOne(params.thread)
       IN IF asked /\ ~params.all_threads /\ index >= NThreads
          THEN Repeat(Nothing)
          ELSE /\ stage' = "place"
               /\ drawn' \in [thread : IF params.all_threads THEN {-1}
                                       ELSE IF asked THEN {index}
                                       ELSE Below(NThreads),
                              place : {"none"}, reg : {0}, bit : {0}]
               /\ delay' = 0
    /\ UNCHANGED <<file, arch, params>>

\* choose_register_target: u32 arithmetic, and a word that would favour the
\* low remainders is drawn again.
U32_MAX == WordSize - 1
wm(weight) == weight % WordSize
total(weight) == IF wm(weight) = U32_MAX THEN U32_MAX ELSE wm(weight) + 1

\* A bug: every word is taken.
EveryWord(weight) == WordSize
limit(weight) == U32_MAX - (U32_MAX % total(weight))

ToRegister(weight) ==
    {r \in Below(limit(weight)) : r % total(weight) = 0}

MayChoose(register) ==
    IF params.only_mem THEN ~register
    ELSE IF total(params.weight_mem) = 1 THEN register
    ELSE IF register THEN ToRegister(params.weight_mem) # {}
    ELSE Below(limit(params.weight_mem)) \ ToRegister(params.weight_mem) # {}

\* A named register is flipped whatever was chosen.  A bug: it is not.
NeverNamed == FALSE
Named == params.target_reg # FIJ_REG_NONE

DrawPlace ==
    /\ stage = "place"
    /\ \E register \in BOOLEAN :
        /\ MayChoose(register)
        /\ drawn' = [drawn EXCEPT !.place = IF register \/ Named THEN "reg"
                                            ELSE "mem"]
    /\ stage' = "flip"
    /\ UNCHANGED <<file, arch, params, delay>>

\* After a flip only an injection into one thread reports it.
Over(d) ==
    IF params.all_threads THEN Repeat(Nothing)
    ELSE stage' = "hit" /\ drawn' = d /\ UNCHANGED delay

fij_pick_random_reg_any == 1 .. (arch.max - 1)

\* Whether the register has a field in pt_regs.
fij_arch_map(reg) == reg \in arch.mapped

FlipRegister ==
    /\ stage = "flip" /\ drawn.place = "reg"
    /\ \E reg \in IF Named THEN {params.target_reg}
                  ELSE fij_pick_random_reg_any,
          bit \in IF params.reg_bit_present THEN {params.reg_bit}
                  ELSE 0 .. (RegBits - 1) :
        IF fij_arch_map(reg) /\ bit \in 0 .. (RegBits - 1)
        THEN Over([drawn EXCEPT !.reg = reg, !.bit = bit])
        ELSE Repeat(Nothing)
    /\ UNCHANGED <<file, arch, params>>

FlipMemory ==
    /\ stage = "flip" /\ drawn.place = "mem"
    /\ \/ \E bit \in 0 .. 7 : Over([drawn EXCEPT !.bit = bit])
       \/ Repeat(Nothing)  \* busy or not accessible
    /\ UNCHANGED <<file, arch, params>>

Finished == stage \in {"skipped", "hit"} /\ UNCHANGED vars

DrawNext ==
    \/ BuildJob /\ UNCHANGED <<delay, drawn>>
    \/ Send /\ UNCHANGED <<delay, drawn>>
    \/ Sleep \/ DrawThread \/ DrawPlace \/ FlipRegister \/ FlipMemory
    \/ Finished

DrawSafe == DrawInit /\ [][DrawNext]_vars

\* The runner and the driver go on; a target that is run again and again is
\* met alive at last, and a draw comes out right.
DrawSpec ==
    /\ DrawSafe
    /\ WF_vars(DrawNext)
    /\ SF_vars(Sleep /\ stage' = "thread")
    /\ SF_vars((FlipRegister \/ FlipMemory) /\ stage' = "hit")

-----------------------------------------------------------------------------
(* What the file asks for: its most specific level that has the key.       *)
Has(key) == \E level \in {"args", "target", "global"} :
                key \in DOMAIN file[level]

Asked(key) ==
    IF key \in DOMAIN file.args THEN file.args[key]
    ELSE IF key \in DOMAIN file.target THEN file.target[key]
    ELSE file.global[key]

AskedReg == IF Has("reg") /\ Asked("reg") \in DOMAIN arch.names
            THEN arch.names[Asked("reg")] ELSE FIJ_REG_NONE

Off(x, y) == IF x < y THEN y - x ELSE x - y

AskedWeight == IF Has("weight_mem") /\ Asked("weight_mem") > 0
               THEN Asked("weight_mem") ELSE 0

OnlyMemory == Has("only_mem") /\ Asked("only_mem") # 0

\* What is flipped at last is what the most specific level of the file asks
\* for: in a register, the one it names and the nearest bit a register has;
\* memory only; registers only if it gives memory no weight (Readme).  Where
\* the text and the code part, nothing is said: of the number of a thread,
\* and of whether only_mem or a named register wins.
Honoured ==
    stage = "hit" =>
        /\ drawn.place = "reg" /\ AskedReg # FIJ_REG_NONE =>
                drawn.reg = AskedReg
        /\ drawn.place = "reg" /\ Has("bit") =>
                \A b \in 0 .. (RegBits - 1) :
                    Off(drawn.bit, Asked("bit")) <= Off(b, Asked("bit"))
        /\ OnlyMemory /\ AskedReg = FIJ_REG_NONE => drawn.place = "mem"
        /\ ~OnlyMemory /\ AskedWeight = 0 => drawn.place = "reg"

\* The injection comes within the time the baseline runs took, unless the
\* file asks for a longer minimum; a long window keeps its minimum, too.
\* The client kills the target after ten times that time.
DelayBounded ==
    stage = "thread" /\ ~params.pc_present =>
        /\ delay <= NSEC_PER_MSEC * max_ms
        /\ max_ms >= ShortWindow => NSEC_PER_MSEC * min_ms <= delay

\* The delay lies in the window, as bitflip_thread.c has it: "a random delay
\* in [min_ms, max_ms] ms".
WindowRespected ==
    stage = "thread" /\ ~params.pc_present =>
        /\ NSEC_PER_MSEC * min_ms <= delay
        /\ delay <= NSEC_PER_MSEC * max_ms

\* A register is chosen with probability 1 / (1 + weight_mem), the weight
\* being that of the file or 0 if that is negative: of the words that are
\* taken, as many say "register" as say any other remainder.
Unbiased ==
    stage = "place" /\ (total(params.weight_mem) # 1 \/ AskedWeight # 0) =>
        /\ ToRegister(params.weight_mem) # {}
        /\ Cardinality(ToRegister(params.weight_mem)) * (1 + AskedWeight)
             = Cardinality(Below(limit(params.weight_mem)))

\* A job the driver can carry out: one thread that exists, and a register
\* that the architecture saves if one is named.
Feasible ==
    /\ stage = "sent"
    /\ ~params.all_threads
    /\ Has("thread") => Asked("thread") <= NThreads
    /\ AskedReg \in arch.mapped \cup {FIJ_REG_NONE}

\* The runner's loop over an iteration ends: no setting of a feasible job is
\* one that the driver refuses again and again.
HitAtLast == Feasible ~> stage = "hit"

-----------------------------------------------------------------------------
(* Inductive invariants: what the file says is what is drawn from.         *)

Skipped == stage \in {"file", "skipped"}
Underway == stage \notin {"file", "skipped", "job"}

\* A key that no level has leaves a default.
AskedInv ==
    /\ params.target_reg = AskedReg
    /\ params.reg_bit_present <=> Has("bit")
    /\ Has("bit") => params.reg_bit = Clamped(Asked("bit"))
    /\ params.only_mem <=> OnlyMemory
    /\ params.weight_mem = AskedWeight

ParamsInv ==
    /\ stage \in Stages
    /\ file \in Files
    /\ arch \in Arches
    /\ params \in SettingParams
    /\ ~Skipped => AskedInv
    /\ Underway => params.max_delay_ms \in Measured

PlaceDrawn ==
    /\ drawn.place \in {"reg", "mem"}
    /\ Named => drawn.place = "reg"
    /\ params.only_mem /\ ~Named => drawn.place = "mem"
    /\ ~params.only_mem /\ total(params.weight_mem) = 1 => drawn.place = "reg"

BitDrawn ==
    /\ ~params.all_threads
    /\ drawn.place = "reg" =>
        /\ Named => drawn.reg = params.target_reg
        /\ params.reg_bit_present => drawn.bit = params.reg_bit

DrawnInv ==
    /\ delay \in Int
    /\ drawn \in Drawn
    /\ stage = "thread" /\ ~params.pc_present => delay \in Delays
    /\ stage \in {"flip", "hit"} => PlaceDrawn
    /\ stage = "hit" => BitDrawn
=============================================================================
