----------------------------- MODULE LLMBreaker -----------------------------
(***************************************************************************)
(* The circuit breaker that all calls of one process to language models    *)
(* share (chat, achat, ensemble and preflight of common/llm.py).           *)
(*                                                                         *)
(* Calls run in threads and coroutines.  The breaker's lock is held for    *)
(* one look at a provider or one mark, so calls interleave between any two *)
(* of them, and time goes on in between.  A cooldown is kept as the time   *)
(* that is left of it.                                                     *)
(***************************************************************************)
EXTENDS Naturals, Sequences, FiniteSetsExt, SequencesExt

CONSTANTS
    Providers,     \* the configured providers
    Chains,        \* what _tier_provider_chain returns for the tiers in use
    Calls,         \* calls in progress at the same time
    CooldownBase,  \* LLM_COOLDOWN_SECONDS, in steps of the clock
    CooldownMax,   \* LLM_COOLDOWN_MAX_SECONDS
    StreakLimit,   \* the streak n for which 2 ** (n - 1) is no float (1025)
    MaxFlips,      \* bound: times a provider goes down or comes back
    MaxBegun       \* bound: calls begun

ASSUME ChainsAssumption == Chains \subseteq Seq(Providers)
ASSUME BreakerAssumption ==
    /\ CooldownBase \in Nat
    /\ CooldownMax \in Nat
    /\ StreakLimit \in Nat \ {0}
    /\ MaxFlips \in Nat
    /\ MaxBegun \in Nat

VARIABLES
    left,     \* _COOLDOWN_UNTIL, as the time left
    streak,   \* _FAILURE_STREAK, the same from StreakLimit on
    up,       \* whether the provider answers with text in time
    flips,
    begun,    \* calls begun so far
    calls,    \* the calls
    due       \* history: the providers a call can count on, see below

breaker == <<left, streak>>
vars    == <<left, streak, up, flips, begun, calls, due>>

Resting == {"idle", "returned", "failed", "crashed"}
Busy    == {"looking", "sent", "answered"}

Call == [pc    : Resting \cup Busy,
         chain : Seq(Providers),   \* while looking
         look  : Nat,              \* number of the next look
         order : Seq(Providers),   \* result of _order_by_health, so far
         at    : Nat,              \* the provider of order being tried
         ok    : BOOLEAN]          \* what it answered

Idle == [pc |-> "idle", chain |-> <<>>, look |-> 1, order |-> <<>>,
         at |-> 1, ok |-> FALSE]

BreakerTypeOK ==
    /\ left \in [Providers -> 0..CooldownMax]
    /\ streak \in [Providers -> 0..StreakLimit]
    /\ up \in [Providers -> BOOLEAN]
    /\ flips \in 0..MaxFlips
    /\ begun \in 0..MaxBegun
    /\ calls \in [Calls -> Call]
    /\ due \in [Calls -> SUBSET Providers]

Init ==
    /\ left = [p \in Providers |-> 0]
    /\ streak = [p \in Providers |-> 0]
    /\ up \in [Providers -> BOOLEAN]
    /\ flips = 0
    /\ begun = 0
    /\ calls = [c \in Calls |-> Idle]
    /\ due = [c \in Calls |-> {}]

Cooling(p) == left[p] > 0

(* Variant: the cooldown is not capped. *)
UncappedCooldown(n) == IF n = 0 THEN 0 ELSE CooldownBase * 2^(n - 1)

(* The cooldown of the n-th failure in a row. *)
Cooldown(n) ==
    IF n = 0 THEN 0 ELSE Min({CooldownBase * 2^(n - 1), CooldownMax})

-----------------------------------------------------------------------------
Begin(c, chain) ==
    /\ calls[c].pc \in Resting
    /\ begun < MaxBegun
    /\ begun' = begun + 1
    /\ chain # <<>>
    /\ calls' = [calls EXCEPT ![c] = [Idle EXCEPT !.pc = "looking", !.chain = chain]]
    /\ due' = [due EXCEPT ![c] = {p \in ToSet(chain) : up[p]}]
    /\ UNCHANGED <<breaker, up, flips>>

(* A leg of ensemble, or one probe of preflight: one provider, cooling or   *)
(* not.  "failed" then means that the leg is dropped from the result.       *)
BeginLeg(c, p) ==
    /\ calls[c].pc \in Resting
    /\ begun < MaxBegun
    /\ begun' = begun + 1
    /\ calls' = [calls EXCEPT ![c] = [Idle EXCEPT !.pc = "sent", !.order = <<p>>]]
    /\ due' = [due EXCEPT ![c] = {q \in {p} : up[q]}]
    /\ UNCHANGED <<breaker, up, flips>>

(* _order_by_health: one pass for the healthy providers ... *)
LookHealthy(c) ==
    LET call == calls[c]
        p    == call.chain[call.look]
    IN  /\ call.pc = "looking"
        /\ call.look <= Len(call.chain)
        /\ calls' = [calls EXCEPT ![c].look = @ + 1,
                                  ![c].order = IF Cooling(p) THEN @ ELSE Append(@, p)]
        /\ UNCHANGED <<breaker, up, flips, begun, due>>

(* Variant: cooling providers are left out. *)
DropCooling(c) ==
    /\ calls[c].pc = "looking"
    /\ calls[c].look \in Len(calls[c].chain) + 1 .. 2 * Len(calls[c].chain)
    /\ calls' = [calls EXCEPT ![c].look = @ + 1]
    /\ UNCHANGED <<breaker, up, flips, begun, due>>

(* ... and one for the cooling ones, which asks the breaker again. *)
LookCooling(c) ==
    LET call == calls[c]
        p    == call.chain[call.look - Len(call.chain)]
    IN  /\ call.pc = "looking"
        /\ call.look \in Len(call.chain) + 1 .. 2 * Len(call.chain)
        /\ calls' = [calls EXCEPT ![c].look = @ + 1,
                                  ![c].order = IF Cooling(p) THEN Append(@, p) ELSE @]
        /\ UNCHANGED <<breaker, up, flips, begun, due>>

(* The head of the loop over the ordered providers, and LLMError after it. *)
Try(order, i) == IF i <= Len(order) THEN "sent" ELSE "failed"

Ordered(c) ==
    /\ calls[c].pc = "looking"
    /\ calls[c].look > 2 * Len(calls[c].chain)
    /\ calls' = [calls EXCEPT ![c] = [Idle EXCEPT !.pc = Try(calls[c].order, 1),
                                                  !.order = calls[c].order]]
    /\ UNCHANGED <<breaker, up, flips, begun, due>>

Tried(c) == calls[c].order[calls[c].at]

(* The provider answers, or the client's timeout expires. *)
Answer(c) ==
    /\ calls[c].pc = "sent"
    /\ calls' = [calls EXCEPT ![c].pc = "answered", ![c].ok = up[Tried(c)]]
    /\ UNCHANGED <<breaker, up, flips, begun, due>>

(* Providers whose cooldown ends are no longer due to calls that are        *)
(* between their two passes.                                                *)
Looking(c)  == calls[c].pc = "looking"
NotDue(ps) == [c \in Calls |-> IF Looking(c) THEN due[c] \ ps ELSE due[c]]

(* Variant: only the streak is forgotten. *)
ForgetStreak(c) ==
    /\ calls[c].pc = "answered" /\ calls[c].ok
    /\ calls' = [calls EXCEPT ![c] = [Idle EXCEPT !.pc = "returned"]]
    /\ streak' = [streak EXCEPT ![Tried(c)] = 0]
    /\ UNCHANGED <<left, up, flips, begun, due>>

MarkSuccess(c) ==
    /\ calls[c].pc = "answered" /\ calls[c].ok
    /\ calls' = [calls EXCEPT ![c] = [Idle EXCEPT !.pc = "returned"]]
    /\ streak' = [streak EXCEPT ![Tried(c)] = 0]
    /\ left' = [left EXCEPT ![Tried(c)] = 0]
    /\ due' = [NotDue({Tried(c)}) EXCEPT ![c] = {}]
    /\ UNCHANGED <<up, flips, begun>>

MarkFailure(c) ==
    LET n == streak[Tried(c)] + 1
    IN  /\ calls[c].pc = "answered" /\ ~calls[c].ok
        /\ n < StreakLimit
        /\ streak' = [streak EXCEPT ![Tried(c)] = n]
        /\ left' = [left EXCEPT ![Tried(c)] = Cooldown(n)]
        /\ calls' = [calls EXCEPT ![c].pc = Try(calls[c].order, calls[c].at + 1),
                                  ![c].at = @ + 1]
        /\ UNCHANGED <<up, flips, begun, due>>

(* The product of the base and 2 ** (streak - 1) raises OverflowError after *)
(* the streak was stored: out of _mark_failure, which runs in the handler   *)
(* of the failure itself, and out of the call.                              *)
MarkOverflow(c) ==
    /\ calls[c].pc = "answered" /\ ~calls[c].ok
    /\ streak[Tried(c)] + 1 >= StreakLimit
    /\ streak' = [streak EXCEPT ![Tried(c)] = StreakLimit]
    /\ calls' = [calls EXCEPT ![c].pc = "crashed"]
    /\ UNCHANGED <<left, up, flips, begun, due>>

-----------------------------------------------------------------------------
Tick ==
    /\ \E p \in Providers : left[p] > 0
    /\ left' = [p \in Providers |-> IF left[p] > 0 THEN left[p] - 1 ELSE 0]
    /\ due' = NotDue({p \in Providers : left[p] = 1})
    /\ UNCHANGED <<streak, up, flips, begun, calls>>

Flip(p) ==
    /\ flips < MaxFlips
    /\ flips' = flips + 1
    /\ up' = [up EXCEPT ![p] = ~@]
    /\ due' = [c \in Calls |-> due[c] \ {p}]
    /\ UNCHANGED <<breaker, begun, calls>>

-----------------------------------------------------------------------------
CallStep(c) == \/ LookHealthy(c) \/ LookCooling(c) \/ Ordered(c) \/ Answer(c)
               \/ MarkSuccess(c) \/ MarkFailure(c) \/ MarkOverflow(c)

Next == \/ \E c \in Calls : \/ \E chain \in Chains : Begin(c, chain)
                            \/ \E p \in Providers : BeginLeg(c, p)
                            \/ CallStep(c)
        \/ Tick
        \/ \E p \in Providers : Flip(p)

Spec == Init /\ [][Next]_vars

-----------------------------------------------------------------------------
\* A provider's cooldown is never longer than its failures in a row account
\* for, whoever marked what last: in particular one whose last mark is a
\* success is not skipped.
CooldownFitsStreak == \A p \in Providers : left[p] <= Cooldown(streak[p])

\* chat gives up with LLMError only if no provider of the tier answered
\* throughout the call: however its looks at the breaker interleave with marks
\* and with time, every provider ends up in the order it tries.  The exception
\* is a provider whose cooldown ends between the two passes of
\* _order_by_health: it is seen as cooling by the first pass and as healthy by
\* the second, and is not tried at all.
\* (due[c]: the providers of the chain that have been up since the call began,
\* without those exceptions.)
FailsOnlyIfNoneCouldAnswer ==
    \A c \in Calls : calls[c].pc = "failed" => due[c] = {}

=============================================================================
