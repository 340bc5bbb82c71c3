------------------------------- MODULE License -------------------------------
(***************************************************************************)
(* server/license.py and the gate in server/app.py: one container with a   *)
(* key, a mode and a grace window read from its environment, a clock that  *)
(* runs and may be set, and requests that are served or answered 403.      *)
(*                                                                         *)
(* A key is abstracted to how far validate() gets with it (nothing there,  *)
(* not a key, wrong signature, an exception, right signature) and to the   *)
(* claims it reads; those of a "garbled" key, wrongly signed, are not an   *)
(* object or name no time.  Time is in thirds of a tenth of a day (48      *)
(* minutes), so that round(days, 1) never meets a tie.                     *)
(***************************************************************************)
EXTENDS Integers

CONSTANTS
    Keys,         \* the keys an operator may configure
    Modes,        \* values of JINA_LICENSE_MODE, "unset" for anything invalid
    Legacies,     \* values of JINA_LICENSE_ENFORCE
    Graces,       \* grace_days(), in time units
    ModelNames,   \* the model's id, with and without the organisation
    Category,     \* category_of(model), "" if it cannot be read
    MaxTime       \* bound on the clock

CATEGORIES == {"text", "multimodal", "reranker", "reader"}

Key == [form : {"none", "malformed", "forged", "garbled", "unreadable", "signed"},
        exp : Nat, category : STRING, model : STRING]

Environment == [mode : Modes, legacy : Legacies, grace : Graces, key : Keys]

ASSUME KeyAssumption == Keys \subseteq Key
ASSUME ModeAssumption ==
    /\ Modes \subseteq {"warn", "enforce", "off", "unset"}
    /\ Legacies \subseteq {"0", "1", "unset"}
ASSUME TimeAssumption == Graces \subseteq Nat /\ MaxTime \in Nat \ {0}

VARIABLES
    env,       \* what the process read at start: mode, legacy flag, grace, key
    now,       \* time.time()
    promise,   \* what the startup log said of the inference endpoints
    warned,    \* app._license_warned
    warnings   \* warn-mode notices logged since start

vars == <<env, now, promise, warned, warnings>>

----------------------------------------------------------------------------
\* mode(): the new variable if it is valid, then the legacy flag.
Mode_LegacyWins(e) ==
    CASE e.legacy = "1" -> "enforce"
      [] e.legacy # "1" /\ e.mode = "unset" -> "warn"
      [] OTHER -> e.mode

Mode(e) == CASE e.mode # "unset" -> e.mode
             [] e.mode = "unset" /\ e.legacy = "0" -> "off"
             [] e.mode = "unset" /\ e.legacy = "1" -> "enforce"
             [] OTHER -> "warn"

\* The scope claim: "absent" stands for a claim the payload does not have.
Scope(k) ==
    CASE k.category # "absent" /\ k.model # "absent" -> "conflicting_scope"
      [] k.category # "absent" /\ k.model = "absent"
           /\ k.category \notin CATEGORIES -> "unknown_category"
      [] k.category \in CATEGORIES /\ k.model = "absent" ->
           IF k.category = Category THEN "ok" ELSE "model_not_licensed"
      [] OTHER -> IF k.model \in {"absent", "*", ""} \cup ModelNames
                  THEN "ok" ELSE "model_not_licensed"

Expired(k, t) == t >= k.exp

Validate_ExpiryFirst(k, t) ==
    CASE k.form = "none"      -> "no_license"
      [] k.form = "malformed" -> "malformed_license"
      [] k.form \in {"forged", "garbled", "unreadable", "signed"}
           /\ Expired(k, t) -> "license_expired"
      [] k.form \in {"forged", "garbled"} /\ ~Expired(k, t) -> "bad_signature"
      [] k.form = "unreadable" /\ ~Expired(k, t) -> "validation_error"
      [] OTHER -> Scope(k)

\* validate(): the reason for one key at time t; the checks in their order.
Validate(k, t) ==
    CASE k.form = "none"      -> "no_license"
      [] k.form = "malformed" -> "malformed_license"
      [] k.form \in {"forged", "garbled"} -> "bad_signature"
      [] k.form = "unreadable" -> "validation_error"
      [] OTHER -> IF Expired(k, t) THEN "license_expired" ELSE Scope(k)

\* days_until_expiry(): rounded to a tenth of a day, which is 3 time units.
RoundTenth(x) == 3 * ((x + 1) \div 3)

InGrace_NoEnd(k, t, grace) == k.exp # 0 /\ RoundTenth(t - k.exp) > -grace

InGrace_Inverted(k, t, grace) == k.exp # 0 /\ RoundTenth(t - k.exp) > grace

\* A key without an exp claim has no days left to compare: no grace.
InGrace(k, t, grace) == k.exp # 0 /\ RoundTenth(k.exp - t) > -grace

\* decide(): whether an inference request is served, and the reason given.
Allowed(e, t) ==
    LET reason == Validate(e.key, t)
    IN  \/ Mode(e) # "enforce"
        \/ reason = "ok"
        \/ reason = "license_expired" /\ InGrace(e.key, t, e.grace)

Promise_NothingIfExpired(e, t) ==
    CASE Mode(e) = "off" -> "off"
      [] Mode(e) # "off" /\ Validate(e.key, t) = "ok" -> "valid"
      [] Mode(e) = "enforce" /\ Validate(e.key, t) \notin {"ok", "license_expired"} ->
           "refused_at_once"
      [] Mode(e) = "enforce" /\ Validate(e.key, t) = "license_expired" -> "nothing"
      [] OTHER -> "serving_normally"

\* app.startup(): what the log tells the operator to expect.  status() looks
\* into claims validate() has handed back unread, in every mode, and what it
\* raises ends the process.
Promise(e, t) ==
    CASE e.key.form = "garbled" -> "startup_failed"
      [] e.key.form # "garbled" /\ Mode(e) = "off" -> "off"
      [] Mode(e) # "off" /\ Validate(e.key, t) = "ok" -> "valid"
      [] /\ e.key.form # "garbled" /\ Mode(e) = "enforce"
         /\ Validate(e.key, t) # "ok" ->
           IF Validate(e.key, t) = "license_expired"
           THEN "refused_after_grace" ELSE "refused_at_once"
      [] OTHER -> "serving_normally"

----------------------------------------------------------------------------
StartWith(e, t) == /\ env = e
                   /\ now = t
                   /\ promise = Promise(e, t)
                   /\ warned = FALSE
                   /\ warnings = 0

Init == \E e \in Environment : StartWith(e, 1)

\* The container is started again, with the same environment or another: the
\* key is read once, so this is the only way to renew it.
Restart(e) == /\ env' = e
              /\ promise' = Promise(e, now)
              /\ warned' = FALSE
              /\ warnings' = 0
              /\ UNCHANGED now

Tick == /\ now < MaxTime
        /\ now' = now + 1
        /\ UNCHANGED <<env, promise, warned, warnings>>

\* A wrong real-time clock is set right, or a right one wrong.
SetClock(t) == /\ now' = t
               /\ UNCHANGED <<env, promise, warned, warnings>>

WarnedAfter_Forgets == FALSE

WarnedAfter == TRUE

\* _license_gate on an inference request.  It has no await between reading
\* and setting _license_warned, so it is one step of the event loop.
Request ==
    /\ promise # "startup_failed"
    /\ IF /\ Mode(env) = "warn" /\ Validate(env.key, now) # "ok"
          /\ ~warned
       THEN warnings' = warnings + 1 /\ warned' = WarnedAfter
       ELSE UNCHANGED <<warnings, warned>>
    /\ UNCHANGED <<env, now, promise>>

Next == \/ Tick
        \/ \E t \in 1..MaxTime : SetClock(t)
        \/ \E e \in Environment : Restart(e)
        \/ Request

Spec == Init /\ [][Next]_vars

----------------------------------------------------------------------------
\* The state keeps its type.
TypeOK == /\ env \in Environment
          /\ now \in 1..MaxTime
          /\ promise \in {"off", "valid", "refused_after_grace", "refused_at_once",
                          "serving_normally", "startup_failed"}
          /\ warned \in BOOLEAN
          /\ warnings \in Nat

\* "No code path lets a default-configured server refuse a request because of
\* the key": only a mode an operator asked for can block, whatever the key,
\* the clock and the restarts (docs/Licensing.md; JINA_LICENSE_ENFORCE=1 is
\* asking, unless JINA_LICENSE_MODE says otherwise).  That is of a server that
\* has started: "garbled" claims end start-up in every mode.
Asked(e) == e.mode = "enforce" \/ (e.mode = "unset" /\ e.legacy = "1")

FailOpen ==
    promise # "startup_failed" /\ ~Asked(env) => Allowed(env, now)

\* In enforce mode a key that covers the model is served until it expires, and
\* a key that does not decode or verify is refused, expired or not: the checks
\* that get no grace come before the one that does.
EnforceDecides ==
    Mode(env) = "enforce" =>
        /\ env.key.form = "signed" /\ ~Expired(env.key, now)
             => (Allowed(env, now) <=> Scope(env.key) = "ok")
        /\ env.key.form # "signed" => ~Allowed(env, now)

\* An expired key works for the grace period and no longer, to within the
\* rounding of days_until_expiry to a tenth of a day.
GraceWindow ==
    Mode(env) = "enforce" /\ env.key.form = "signed" /\ Expired(env.key, now) =>
        /\ env.key.exp # 0 /\ now - env.key.exp <= env.grace - 2 => Allowed(env, now)
        /\ now - env.key.exp >= env.grace + 2 => ~Allowed(env, now)

\* Once an expired key is refused it stays refused while time passes: the
\* container does not flap between 403 and 200 without a restart or a clock
\* that is set.
ExpiryIsFinal ==
    [][ env' = env /\ now' > now /\ Expired(env.key, now) /\ ~Allowed(env, now)
          => ~Allowed(env, now') ]_vars

\* The warn-mode notice is logged at most once per process ("at most one more,
\* on the first request that fails the check, then nothing for the life of
\* the container").
WarnsOnce == warnings <= 1
==============================================================================
