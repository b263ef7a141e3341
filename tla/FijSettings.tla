----------------------------- MODULE FijSettings -----------------------------
(***************************************************************************)
(* From a job of the configuration file to the parameters the driver gets: *)
(* build_fij_jobs_from_config, fij_params_apply_defaults and what          *)
(* run_send_and_poll overrides.                                            *)
(*                                                                         *)
(* A level of the file is a function from the keys it has to their values, *)
(* which are integers, or a register's name.  Paths and argument strings   *)
(* are left out.                                                           *)
(***************************************************************************)
EXTENDS Integers

CONSTANTS
    Files,     \* the jobs: [global, target, args] of levels
    Arches,    \* [names, max, mapped]: reg_name_to_id, FIJ_REG_MAX and the
               \* registers that fij_arch_map finds in pt_regs
    Measured,  \* what max_delay_ms the baseline runs may give
    RegBits    \* bits of a register: 64 in the code

VARIABLES
    stage,     \* how far the job is
    file,      \* its three levels
    arch,      \* the architecture the runner and the driver were built for
    params     \* struct fij_params

settingVars == <<stage, file, arch, params>>

FIJ_REG_NONE == 0

SettingParams ==
    [ weight_mem      : Nat,
      min_delay_ms    : Int,
      max_delay_ms    : Int,
      only_mem        : BOOLEAN,
      all_threads     : BOOLEAN,
      no_injection    : BOOLEAN,
      thread_present  : BOOLEAN,
      thread          : Int,
      process_present : BOOLEAN,
      nprocess        : Int,
      pc_present      : BOOLEAN,
      target_reg      : Nat,
      reg_bit_present : BOOLEAN,
      reg_bit         : 0 .. (RegBits - 1) ]

\* A level overrides the one before it, key by key.  A bug: the target's
\* defaults override the arguments'.
Overriding(f, g) ==
    [key \in DOMAIN f \cup DOMAIN g |->
        IF key \in DOMAIN f THEN f[key] ELSE g[key]]
TargetWins(f) == Overriding(f.target, Overriding(f.args, f.global))
Merged(f) == Overriding(f.args, Overriding(f.target, f.global))

ValueOr(m, key, default) == IF key \in DOMAIN m THEN m[key] ELSE default

\* bool_int of a number; 0 and an absent key are FALSE.
IsSet(m, key) == ValueOr(m, key, 0) # 0

\* reg_name_to_id: a name the architecture does not have is no register.
reg_name_to_id(name) ==
    IF name \in DOMAIN arch.names THEN arch.names[name] ELSE FIJ_REG_NONE

\* The fields as the keys set them.
Fields(m) ==
    [ weight_mem      |-> ValueOr(m, "weight_mem", 0),
      min_delay_ms    |-> ValueOr(m, "min_delay_ms", 0),
      max_delay_ms    |-> ValueOr(m, "max_delay_ms", 0),
      only_mem        |-> IsSet(m, "only_mem"),
      all_threads     |-> IsSet(m, "all_threads"),
      no_injection    |-> IsSet(m, "no_injection"),
      thread_present  |-> "thread" \in DOMAIN m,
      thread          |-> ValueOr(m, "thread", 0),
      process_present |-> "nprocess" \in DOMAIN m,
      nprocess        |-> ValueOr(m, "nprocess", 0),
      pc_present      |-> "pc" \in DOMAIN m,
      target_reg      |-> IF "reg" \in DOMAIN m THEN reg_name_to_id(m["reg"])
                          ELSE FIJ_REG_NONE,
      reg_bit_present |-> "bit" \in DOMAIN m,
      reg_bit         |-> ValueOr(m, "bit", 0) ]

\* A bug: bits beyond the register are passed on.
Unclamped(b) == IF b < 0 THEN 0 ELSE b
Clamped(b) ==
    IF b < 0 THEN 0 ELSE IF b >= RegBits THEN RegBits - 1 ELSE b

\* A bug: a negative weight is passed on, and is a large one to the driver.
Signed(w) == w
NotNegative(w) == IF w < 0 THEN 0 ELSE w

\* fij_params_apply_defaults.
WithDefaults(p) ==
    LET swap == /\ p.min_delay_ms # 0 /\ p.max_delay_ms # 0
                /\ p.max_delay_ms < p.min_delay_ms
    IN [p EXCEPT !.weight_mem = NotNegative(@),
                 !.reg_bit = Clamped(@),
                 !.min_delay_ms = IF swap THEN p.max_delay_ms ELSE @,
                 !.max_delay_ms = IF swap THEN p.min_delay_ms ELSE @]

SettingsInit ==
    /\ stage = "file"
    /\ file \in Files
    /\ arch \in Arches
    /\ params = WithDefaults(Fields(<<>>))

\* A job without runs is dropped.
BuildJob ==
    /\ stage = "file"
    /\ LET m == Merged(file)
       IN IF ValueOr(m, "runs", 1) <= 0
          THEN stage' = "skipped" /\ UNCHANGED params
          ELSE /\ stage' = "job"
               /\ params' = WithDefaults(Fields(m))
    /\ UNCHANGED <<file, arch>>

\* run_send_and_poll in the injection phase: the delay that was measured
\* replaces the one in the file, and no_injection is the phase's.
Send ==
    /\ stage = "job"
    /\ \E max \in Measured :
            params' = [params EXCEPT !.max_delay_ms = max,
                                     !.no_injection = FALSE]
    /\ stage' = "sent"
    /\ UNCHANGED <<file, arch>>
=============================================================================
