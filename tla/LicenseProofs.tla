----------------------------- MODULE LicenseProofs -----------------------------
(***************************************************************************)
(* Proofs about License for every set of keys, modes, grace periods and    *)
(* model names, and for a clock that is set to any value.                  *)
(***************************************************************************)
EXTENDS License, TLAPS

\* The start-up log takes one of its five forms, unless start-up fails.
LEMMA PromiseType ==
    ASSUME NEW e, NEW t
    PROVE  Promise(e, t) \in {"off", "valid", "refused_after_grace",
                              "refused_at_once", "serving_normally",
                              "startup_failed"}
BY DEF Promise

\* The state keeps its type through restarts and clock changes.
LEMMA TypeStep == TypeOK /\ [Next]_vars => TypeOK'
<1>. SUFFICES ASSUME TypeOK, [Next]_vars PROVE TypeOK'
  OBVIOUS
<1>. USE DEF TypeOK
<1>1. CASE Tick
  <2>1. now' \in 1..MaxTime
    <3>1. now \in Nat /\ now >= 1 /\ now < MaxTime /\ now' = now + 1
      BY <1>1, TimeAssumption DEF Tick
    <3>2. MaxTime \in Nat
      BY TimeAssumption
    <3>. QED  BY <3>1, <3>2
  <2>. QED  BY <1>1, <2>1 DEF Tick
<1>2. ASSUME NEW t \in 1..MaxTime, SetClock(t) PROVE TypeOK'
  BY <1>2 DEF SetClock
<1>3. ASSUME NEW e \in Environment, Restart(e) PROVE TypeOK'
  BY <1>3, PromiseType DEF Restart
<1>4. CASE Request
  <2>1. UNCHANGED <<env, now, promise>>
    BY <1>4 DEF Request
  <2>2. \/ warned' = TRUE /\ warnings' = warnings + 1
        \/ warned' = warned /\ warnings' = warnings
    BY <1>4 DEF Request, WarnedAfter
  <2>3. warnings' \in Nat
    BY <2>2
  <2>4. warned' \in BOOLEAN
    BY <2>2
  <2>. QED  BY <2>1, <2>3, <2>4
<1>5. CASE UNCHANGED vars
  BY <1>5 DEF vars
<1>. QED  BY <1>1, <1>2, <1>3, <1>4, <1>5 DEF Next

\* License keeps its type for every environment.
THEOREM LicenseTypeCorrect == Spec => []TypeOK
<1>1. Init => TypeOK
  <2>1. SUFFICES ASSUME NEW e \in Environment, StartWith(e, 1) PROVE TypeOK
    BY DEF Init
  <2>2. 1 \in 1..MaxTime
    BY TimeAssumption
  <2>. QED  BY <2>1, <2>2, PromiseType DEF StartWith, TypeOK
<1>. QED  BY <1>1, TypeStep, PTL DEF Spec

----------------------------------------------------------------------------
\* The numbers in the state, and in the state after a step.
LEMMA EnvironmentFacts ==
    /\ TypeOK => /\ env.key \in Keys /\ now \in Int
                 /\ env.grace \in Int /\ env.key.exp \in Int
    /\ TypeOK' => now' \in Int
<1>1. ASSUME TypeOK
      PROVE  env.key \in Keys /\ now \in Int /\ env.grace \in Int /\ env.key.exp \in Int
  <2>1. env.key \in Keys /\ env.grace \in Graces /\ now \in 1..MaxTime
    BY <1>1 DEF TypeOK, Environment
  <2>2. env.grace \in Nat
    BY <2>1, TimeAssumption
  <2>3. env.key.exp \in Nat
    <3>1. env.key \in Key
      BY <2>1, KeyAssumption
    <3>. QED  BY <3>1 DEF Key
  <2>. QED  BY <2>1, <2>2, <2>3
<1>2. ASSUME TypeOK' PROVE now' \in Int
  BY <1>2, TimeAssumption DEF TypeOK
<1>. QED  BY <1>1, <1>2

\* What validate() can answer for a key whose signature does not count.
LEMMA UnsignedNeverOk ==
    ASSUME NEW k \in Keys, NEW t, k.form # "signed"
    PROVE  Validate(k, t) \notin {"ok", "license_expired"}
BY KeyAssumption DEF Validate, Key

\* What it answers for one whose signature is right.
LEMMA SignedByScope ==
    ASSUME NEW k \in Keys, NEW t, k.form = "signed"
    PROVE  /\ Expired(k, t) => Validate(k, t) = "license_expired"
           /\ ~Expired(k, t) => Validate(k, t) = Scope(k)
BY DEF Validate

LEMMA ScopeIsNotExpiry ==
    ASSUME NEW k PROVE Scope(k) # "license_expired"
BY DEF Scope

\* A server whose operator did not ask for enforcement serves every request,
\* whatever the key, the clock and the restarts: license.decide and
\* license.mode never turn a default-configured container off.
THEOREM NeverBlocksUnasked == Spec => []FailOpen
<1>1. TypeOK => FailOpen
  <2>1. SUFFICES ASSUME TypeOK, ~Asked(env) PROVE Allowed(env, now)
    BY DEF FailOpen
  <2>2. /\ env.mode \in {"warn", "enforce", "off", "unset"}
        /\ env.legacy \in {"0", "1", "unset"}
    BY <2>1, ModeAssumption DEF TypeOK, Environment
  <2>3. Mode(env) # "enforce"
    BY <2>1, <2>2 DEF Mode, Asked
  <2>. QED  BY <2>3 DEF Allowed
<1>. QED  BY <1>1, LicenseTypeCorrect, PTL

\* In enforce mode the scope decides until a key expires, and a key that does
\* not verify is never served, not even in the grace period.
THEOREM EnforcementDecided == Spec => []EnforceDecides
<1>1. TypeOK => EnforceDecides
  <2>1. SUFFICES ASSUME TypeOK, Mode(env) = "enforce"
        PROVE  /\ env.key.form = "signed" /\ ~Expired(env.key, now)
                    => (Allowed(env, now) <=> Scope(env.key) = "ok")
               /\ env.key.form # "signed" => ~Allowed(env, now)
    BY DEF EnforceDecides
  <2>2. env.key \in Keys
    BY <2>1 DEF TypeOK, Environment
  <2>3. ASSUME env.key.form = "signed", ~Expired(env.key, now)
        PROVE  Allowed(env, now) <=> Scope(env.key) = "ok"
    BY <2>1, <2>2, <2>3, SignedByScope, ScopeIsNotExpiry DEF Allowed
  <2>4. ASSUME env.key.form # "signed" PROVE ~Allowed(env, now)
    BY <2>1, <2>2, <2>4, UnsignedNeverOk DEF Allowed
  <2>. QED  BY <2>3, <2>4
<1>. QED  BY <1>1, LicenseTypeCorrect, PTL

----------------------------------------------------------------------------
\* The rounding of days_until_expiry keeps the order of its arguments and is
\* never off by a whole tenth of a day.
LEMMA RoundTenthFacts ==
    ASSUME NEW x \in Int, NEW y \in Int
    PROVE  /\ RoundTenth(x) \in Int
           /\ x <= y => RoundTenth(x) <= RoundTenth(y)
           /\ RoundTenth(x) <= x + 1 /\ RoundTenth(x) >= x - 1
BY DEF RoundTenth

\* Once an expired key is refused, time alone never gets it served again.
THEOREM RefusalIsFinal == Spec => ExpiryIsFinal
<1>1. TypeOK /\ TypeOK' /\ [Next]_vars =>
        [ env' = env /\ now' > now /\ Expired(env.key, now) /\ ~Allowed(env, now)
            => ~Allowed(env, now') ]_vars
  <2>1. SUFFICES ASSUME TypeOK, TypeOK', env' = env, now' > now,
                        Expired(env.key, now), ~Allowed(env, now)
                 PROVE  ~Allowed(env, now')
    OBVIOUS
  <2>2. /\ now \in Int /\ now' \in Int /\ env.key \in Keys /\ env.grace \in Int
        /\ env.key.exp \in Int
    BY <2>1, EnvironmentFacts
  <2>3. Expired(env.key, now')
    BY <2>1, <2>2 DEF Expired
  <2>4. Mode(env) = "enforce"
    BY <2>1 DEF Allowed
  <2>5. CASE env.key.form = "signed"
    <3>1. ~InGrace(env.key, now, env.grace)
      BY <2>1, <2>2, <2>5, SignedByScope DEF Allowed
    <3>. DEFINE d == env.key.exp - now
                e == env.key.exp - now'
    <3>2. d \in Int /\ e \in Int /\ e <= d
      BY <2>1, <2>2
    <3>. HIDE DEF d, e
    <3>3. ~InGrace(env.key, now', env.grace)
      <4>1. /\ RoundTenth(d) \in Int /\ RoundTenth(e) \in Int
            /\ RoundTenth(e) <= RoundTenth(d)
        BY <3>2, RoundTenthFacts
      <4>2. env.key.exp = 0 \/ ~(RoundTenth(d) > -env.grace)
        BY <3>1 DEF InGrace, d
      <4>3. env.key.exp = 0 \/ ~(RoundTenth(e) > -env.grace)
        BY <2>2, <4>1, <4>2
      <4>. QED  BY <4>3 DEF InGrace, e
    <3>4. Validate(env.key, now') = "license_expired"
      BY <2>2, <2>3, <2>5, SignedByScope
    <3>. QED  BY <2>4, <3>3, <3>4 DEF Allowed
  <2>6. CASE env.key.form # "signed"
    BY <2>2, <2>4, <2>6, UnsignedNeverOk DEF Allowed
  <2>. QED  BY <2>5, <2>6
<1>. QED  BY <1>1, LicenseTypeCorrect, PTL DEF Spec, ExpiryIsFinal

\* In enforce mode an expired key is served during the grace period and
\* refused after it, to within two thirds of a tenth of a day.
THEOREM GraceBounded == Spec => []GraceWindow
<1>1. TypeOK => GraceWindow
  <2>1. SUFFICES ASSUME TypeOK, Mode(env) = "enforce", env.key.form = "signed",
                        Expired(env.key, now)
        PROVE  /\ env.key.exp # 0 /\ now - env.key.exp <= env.grace - 2
                    => Allowed(env, now)
               /\ now - env.key.exp >= env.grace + 2 => ~Allowed(env, now)
    BY DEF GraceWindow
  <2>2. /\ now \in Int /\ env.key \in Keys /\ env.grace \in Int
        /\ env.key.exp \in Int
    BY <2>1, EnvironmentFacts
  <2>3. Allowed(env, now) <=> InGrace(env.key, now, env.grace)
    BY <2>1, <2>2, SignedByScope DEF Allowed
  <2>. DEFINE d == env.key.exp - now
  <2>4. d \in Int
    BY <2>2
  <2>5. InGrace(env.key, now, env.grace) <=>
           env.key.exp # 0 /\ RoundTenth(d) > -env.grace
    BY DEF InGrace
  <2>6. /\ now - env.key.exp <= env.grace - 2 => d >= 2 - env.grace
        /\ now - env.key.exp >= env.grace + 2 => d <= -env.grace - 2
    BY <2>2
  <2>. HIDE DEF d
  <2>7. RoundTenth(d) \in Int /\ RoundTenth(d) <= d + 1 /\ RoundTenth(d) >= d - 1
    BY <2>4, RoundTenthFacts
  <2>8. /\ d >= 2 - env.grace => RoundTenth(d) > -env.grace
        /\ d <= -env.grace - 2 => ~(RoundTenth(d) > -env.grace)
    BY <2>2, <2>4, <2>7
  <2>. QED  BY <2>3, <2>5, <2>6, <2>8
<1>. QED  BY <1>1, LicenseTypeCorrect, PTL

----------------------------------------------------------------------------
\* A process that has not set the flag has logged nothing, so the notice that
\* finds the flag unset is the first.
NoticeInv == WarnsOnce /\ (~warned => warnings = 0)

\* The warn-mode notice is logged at most once per process, however many
\* requests fail the check: the gate sets app._license_warned when it logs,
\* and only a restart, which starts a new log, takes the flag back.
THEOREM NoticeOnce == Spec => []WarnsOnce
<1>1. Init => NoticeInv
  BY DEF Init, StartWith, NoticeInv, WarnsOnce
<1>2. NoticeInv /\ [Next]_vars => NoticeInv'
  <2>. SUFFICES ASSUME NoticeInv, [Next]_vars PROVE NoticeInv'
    OBVIOUS
  <2>. USE DEF NoticeInv, WarnsOnce
  <2>1. CASE Tick
    BY <2>1 DEF Tick
  <2>2. CASE \E t \in 1..MaxTime : SetClock(t)
    BY <2>2 DEF SetClock
  <2>3. CASE \E e \in Environment : Restart(e)
    BY <2>3 DEF Restart
  <2>4. CASE Request
    <3>1. CASE ~warned /\ warnings' = warnings + 1 /\ warned' = TRUE
      BY <3>1
    <3>2. CASE UNCHANGED <<warnings, warned>>
      BY <3>2
    <3>. QED  BY <2>4, <3>1, <3>2 DEF Request, WarnedAfter
  <2>5. CASE UNCHANGED vars
    BY <2>5 DEF vars
  <2>. QED  BY <2>1, <2>2, <2>3, <2>4, <2>5 DEF Next
<1>3. NoticeInv => WarnsOnce
  BY DEF NoticeInv
<1>. QED  BY <1>1, <1>2, <1>3, PTL DEF Spec
=============================================================================
