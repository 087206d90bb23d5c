-------------------------- MODULE LLMBreakerProofs --------------------------
(***************************************************************************)
(* Proofs about LLMBreaker, for any number of calls and providers, any     *)
(* chains and any cooldowns: its types, that a cooldown is accounted for   *)
(* by the failures in a row, and that a call fails only if no provider it  *)
(* could count on was up.                                                  *)
(***************************************************************************)
EXTENDS LLMBreaker, FiniteSets, FiniteSetTheorems, TLAPS

USE DEF Resting, Busy

-----------------------------------------------------------------------------
(* Powers of two count subsets; the provers know nothing else of them. *)

\* 2^n is the number of subsets of 1..n.
LEMMA PowerCounts ==
    ASSUME NEW n \in Nat
    PROVE  /\ IsFiniteSet(SUBSET (1..n))
           /\ Cardinality(SUBSET (1..n)) = 2^n
  <1>1. IsFiniteSet(1..n) /\ Cardinality(1..n) = n
    BY FS_Interval
  <1> QED  BY <1>1, FS_SUBSET

\* Powers of two are natural numbers and grow with the exponent.
LEMMA PowerGrows ==
    ASSUME NEW n \in Nat
    PROVE  2^n \in Nat /\ 2^n <= 2^(n + 1)
  <1>1. SUBSET (1..n) \subseteq SUBSET (1..(n + 1))
    OBVIOUS
  <1>2. Cardinality(SUBSET (1..n)) \in Nat
    BY PowerCounts, FS_CardinalityType
  <1>3. Cardinality(SUBSET (1..n)) <= Cardinality(SUBSET (1..(n + 1)))
    BY <1>1, PowerCounts, n + 1 \in Nat, FS_Subset
  <1> QED  BY <1>2, <1>3, PowerCounts, n + 1 \in Nat

\* The smaller of two numbers.
LEMMA MinOfTwo ==
    ASSUME NEW a \in Nat, NEW b \in Nat
    PROVE  Min({a, b}) = IF a <= b THEN a ELSE b
  <1>1. \E x \in {a, b} : \A y \in {a, b} : x <= y
    OBVIOUS
  <1>2. Min({a, b}) \in {a, b} /\ \A y \in {a, b} : Min({a, b}) <= y
    BY <1>1 DEF Min
  <1> QED  BY <1>2

\* A cooldown is at most CooldownMax.
LEMMA CooldownType ==
    ASSUME NEW n \in Nat
    PROVE  Cooldown(n) \in 0..CooldownMax
  <1>1. CASE n = 0
    BY <1>1, BreakerAssumption DEF Cooldown
  <1>2. CASE n # 0
    <2>1. 2^(n - 1) \in Nat
      BY <1>2, n - 1 \in Nat, PowerGrows
    <2>2. CooldownBase * 2^(n - 1) \in Nat
      BY <2>1, BreakerAssumption
    <2>3. Cooldown(n) = Min({CooldownBase * 2^(n - 1), CooldownMax})
      BY <1>2 DEF Cooldown
    <2> QED  BY <2>2, <2>3, MinOfTwo, BreakerAssumption
  <1> QED  BY <1>1, <1>2

\* One more failure never makes for a shorter cooldown.
LEMMA CooldownGrows ==
    ASSUME NEW n \in Nat
    PROVE  Cooldown(n) <= Cooldown(n + 1)
  <1>1. CASE n = 0
    <2>1. Cooldown(n) = 0
      BY <1>1 DEF Cooldown
    <2>2. Cooldown(n + 1) \in Nat
      BY n + 1 \in Nat, CooldownType, BreakerAssumption
    <2> QED  BY <2>1, <2>2
  <1>2. CASE n # 0
    <2>1. 2^(n - 1) \in Nat /\ 2^n \in Nat /\ 2^(n - 1) <= 2^n
      BY <1>2, n - 1 \in Nat, (n - 1) + 1 = n, PowerGrows
    <2> DEFINE lo == 2^(n - 1)
               hi == 2^n
    <2>2. ASSUME NEW x \in Nat, NEW y \in Nat, x <= y, NEW b \in Nat
          PROVE  b * x \in Nat /\ b * y \in Nat /\ b * x <= b * y
      <3>1. PICK d \in Nat : y = x + d
        BY <2>2, y - x \in Nat
      <3>2. b * y = b * x + b * d
        BY <3>1
      <3>3. b * x \in Nat /\ b * d \in Nat
        BY <3>1
      <3> QED  BY <3>2, <3>3
    <2>3. /\ CooldownBase * lo \in Nat
          /\ CooldownBase * hi \in Nat
          /\ CooldownBase * lo <= CooldownBase * hi
      BY <2>1, <2>2, BreakerAssumption
    <2>4. Cooldown(n) = Min({CooldownBase * lo, CooldownMax})
      BY <1>2 DEF Cooldown
    <2>5. Cooldown(n + 1) = Min({CooldownBase * hi, CooldownMax})
      BY <1>2, n + 1 # 0, (n + 1) - 1 = n DEF Cooldown
    <2> HIDE DEF lo, hi
    <2> QED  BY <2>3, <2>4, <2>5, MinOfTwo, BreakerAssumption
  <1> QED  BY <1>1, <1>2

-----------------------------------------------------------------------------
(* Types. *)

\* What the steps of a call need of its position in chain and order.
InOrder(call) ==
    /\ call.pc = "looking" => call.look \in Nat \ {0}
    /\ call.pc \in {"sent", "answered"} => call.at \in 1..Len(call.order)

Typed == BreakerTypeOK /\ \A c \in Calls : InOrder(calls[c])

LEMMA TypedInit == Init => Typed
  <1> SUFFICES ASSUME Init PROVE Typed
    OBVIOUS
  <1>1. Idle \in Call /\ InOrder(Idle)
    BY DEF Idle, Call, InOrder
  <1> QED  BY <1>1, BreakerAssumption DEF Init, Typed, BreakerTypeOK

\* A call that goes on to the next provider is in its order, or has failed.
LEMMA TryIsTyped ==
    ASSUME NEW order \in Seq(Providers), NEW i \in Nat
    PROVE  /\ Try(order, i) \in {"sent", "failed"}
           /\ Try(order, i) = "sent" <=> i <= Len(order)
  BY DEF Try

\* Changing a function at one point keeps its type.
LEMMA Updated ==
    ASSUME NEW S, NEW T, NEW f \in [S -> T], NEW x, NEW v \in T
    PROVE  [f EXCEPT ![x] = v] \in [S -> T]
  OBVIOUS

\* The changes that the steps make to a call.
LEMMA LookTyped ==
    ASSUME NEW call \in Call, NEW p \in Providers,
           NEW order \in {call.order, Append(call.order, p)}
    PROVE  [call EXCEPT !.look = @ + 1, !.order = order] \in Call
  <1>1. call.look + 1 \in Nat /\ order \in Seq(Providers)
    BY DEF Call
  <1>2. ASSUME NEW look \in Nat, NEW o \in Seq(Providers)
        PROVE  [call EXCEPT !.look = look, !.order = o] \in Call
    BY DEF Call
  <1> QED  BY <1>1, <1>2

LEMMA NextTyped ==
    ASSUME NEW call \in Call, NEW pc \in Resting \cup Busy
    PROVE  [call EXCEPT !.pc = pc, !.at = @ + 1] \in Call
  <1>1. call.at + 1 \in Nat
    BY DEF Call
  <1>2. ASSUME NEW at \in Nat
        PROVE  [call EXCEPT !.pc = pc, !.at = at] \in Call
    BY DEF Call
  <1> QED  BY <1>1, <1>2

\* Changing one call keeps all typed.
LEMMA CallUpdated ==
    ASSUME Typed, NEW c \in Calls, NEW call \in Call, InOrder(call),
           calls' = [calls EXCEPT ![c] = call]
    PROVE  calls' \in [Calls -> Call] /\ \A d \in Calls : InOrder(calls'[d])
  BY DEF Typed, BreakerTypeOK

\* Every step keeps the types, and the positions of the calls.
LEMMA TypedStep == Typed /\ [Next]_vars => Typed'
  <1> SUFFICES ASSUME Typed, [Next]_vars PROVE Typed'
    OBVIOUS
  <1> USE DEF Typed, BreakerTypeOK
  <1>a. /\ Idle \in Call
        /\ 0 \in 0..CooldownMax
        /\ {0, StreakLimit} \subseteq 0..StreakLimit
    BY BreakerAssumption DEF Idle, Call
  <1>1. ASSUME NEW c \in Calls, NEW chain \in Chains, Begin(c, chain) PROVE Typed'
    <2>1. chain \in Seq(Providers)
      BY ChainsAssumption
    <2> DEFINE call == [Idle EXCEPT !.pc = "looking", !.chain = chain]
    <2>2. call \in Call
      BY <1>a, <2>1 DEF Call
    <2>3. InOrder(call)
      BY DEF Idle, InOrder
    <2>4. calls' \in [Calls -> Call] /\ \A d \in Calls : InOrder(calls'[d])
      BY <1>1, <2>2, <2>3, CallUpdated DEF Begin
    <2>5. ToSet(chain) \subseteq Providers
      BY <2>1 DEF ToSet
    <2> QED  BY <1>1, <2>4, <2>5, BreakerAssumption DEF Begin, breaker
  <1>2. ASSUME NEW c \in Calls, NEW p \in Providers, BeginLeg(c, p) PROVE Typed'
    <2> DEFINE call == [Idle EXCEPT !.pc = "sent", !.order = <<p>>]
    <2>1. <<p>> \in Seq(Providers) /\ Len(<<p>>) = 1
      OBVIOUS
    <2>2. call \in Call
      BY <1>a, <2>1 DEF Call
    <2>3. InOrder(call)
      BY <2>1 DEF Idle, InOrder
    <2>4. calls' \in [Calls -> Call] /\ \A d \in Calls : InOrder(calls'[d])
      BY <1>2, <2>2, <2>3, CallUpdated DEF BeginLeg
    <2> QED  BY <1>2, <2>4, BreakerAssumption DEF BeginLeg, breaker
  <1>3. ASSUME NEW c \in Calls, LookHealthy(c) PROVE Typed'
    <2> DEFINE p    == calls[c].chain[calls[c].look]
               order == IF Cooling(p) THEN calls[c].order ELSE Append(calls[c].order, p)
               call == [calls[c] EXCEPT !.look = @ + 1, !.order = order]
    <2>1. calls[c] \in Call /\ InOrder(calls[c])
      OBVIOUS
    <2>2. p \in Providers
      BY <1>3, <2>1 DEF LookHealthy, Call, InOrder
    <2>3. call \in Call
      BY <2>1, <2>2, LookTyped
    <2>4. InOrder(call)
      BY <1>3, <2>1 DEF LookHealthy, Call, InOrder
    <2>5. calls' = [calls EXCEPT ![c] = call]
      BY <1>3 DEF LookHealthy
    <2> HIDE DEF call
    <2>6. calls' \in [Calls -> Call] /\ \A d \in Calls : InOrder(calls'[d])
      BY <2>3, <2>4, <2>5, CallUpdated
    <2> QED  BY <1>3, <2>6 DEF LookHealthy, breaker
  <1>4. ASSUME NEW c \in Calls, LookCooling(c) PROVE Typed'
    <2> DEFINE i    == calls[c].look - Len(calls[c].chain)
               p    == calls[c].chain[i]
               order == IF Cooling(p) THEN Append(calls[c].order, p) ELSE calls[c].order
               call == [calls[c] EXCEPT !.look = @ + 1, !.order = order]
    <2>1. calls[c] \in Call /\ InOrder(calls[c])
      OBVIOUS
    <2>2. p \in Providers
      <3>1. /\ calls[c].chain \in Seq(Providers)
            /\ calls[c].look \in Len(calls[c].chain) + 1 .. 2 * Len(calls[c].chain)
        BY <1>4, <2>1 DEF LookCooling, Call
      <3>2. Len(calls[c].chain) \in Nat
        BY <3>1
      <3>3. i \in 1..Len(calls[c].chain)
        BY <3>1, <3>2
      <3> QED  BY <3>1, <3>3
    <2>3. call \in Call
      BY <2>1, <2>2, LookTyped
    <2>4. InOrder(call)
      <3>1. call.pc = "looking" /\ call.look = calls[c].look + 1
        BY <1>4, <2>1 DEF LookCooling, Call
      <3>2. calls[c].look \in Nat
        BY <2>1 DEF Call
      <3> HIDE DEF call
      <3> QED  BY <3>1, <3>2 DEF InOrder
    <2>5. calls' = [calls EXCEPT ![c] = call]
      BY <1>4 DEF LookCooling
    <2> HIDE DEF call
    <2>6. calls' \in [Calls -> Call] /\ \A d \in Calls : InOrder(calls'[d])
      BY <2>3, <2>4, <2>5, CallUpdated
    <2> QED  BY <1>4, <2>6 DEF LookCooling, breaker
  <1>5. ASSUME NEW c \in Calls, Ordered(c) PROVE Typed'
    <2> DEFINE next == Try(calls[c].order, 1)
               call == [Idle EXCEPT !.pc = next, !.order = calls[c].order]
    <2>1. calls[c].order \in Seq(Providers)
      BY DEF Call
    <2>2. next \in {"sent", "failed"} /\ (next = "sent" <=> 1 <= Len(calls[c].order))
      BY <2>1, TryIsTyped
    <2> HIDE DEF next
    <2>3. call \in Call
      BY <1>a, <2>1, <2>2 DEF Call
    <2>4. InOrder(call)
      BY <2>1, <2>2 DEF Idle, InOrder
    <2>5. calls' = [calls EXCEPT ![c] = call]
      BY <1>5 DEF Ordered, next
    <2> HIDE DEF call
    <2>6. calls' \in [Calls -> Call] /\ \A d \in Calls : InOrder(calls'[d])
      BY <2>3, <2>4, <2>5, CallUpdated
    <2> QED  BY <1>5, <2>6 DEF Ordered, breaker
  <1>6. ASSUME NEW c \in Calls, Answer(c) PROVE Typed'
    <2> DEFINE call == [calls[c] EXCEPT !.pc = "answered", !.ok = up[Tried(c)]]
    <2>1. calls[c] \in Call /\ InOrder(calls[c])
      OBVIOUS
    <2>2. Tried(c) \in Providers
      BY <1>6, <2>1 DEF Answer, Tried, Call, InOrder
    <2>3. call \in Call
      BY <2>1, <2>2 DEF Call
    <2>4. InOrder(call)
      BY <1>6, <2>1 DEF Answer, Call, InOrder
    <2>5. calls' = [calls EXCEPT ![c] = call]
      BY <1>6 DEF Answer
    <2> HIDE DEF call
    <2>6. calls' \in [Calls -> Call] /\ \A d \in Calls : InOrder(calls'[d])
      BY <2>3, <2>4, <2>5, CallUpdated
    <2> QED  BY <1>6, <2>6 DEF Answer, breaker
  <1>7. ASSUME NEW c \in Calls, MarkSuccess(c) PROVE Typed'
    <2> DEFINE call == [Idle EXCEPT !.pc = "returned"]
    <2>1. call \in Call
      BY <1>a DEF Call
    <2>2. InOrder(call)
      BY DEF Idle, InOrder
    <2>3. calls' \in [Calls -> Call] /\ \A d \in Calls : InOrder(calls'[d])
      BY <1>7, <2>1, <2>2, CallUpdated DEF MarkSuccess
    <2>4. due' \in [Calls -> SUBSET Providers]
      BY <1>7 DEF MarkSuccess, NotDue
    <2>5. left' \in [Providers -> 0..CooldownMax] /\ streak' \in [Providers -> 0..StreakLimit]
      BY <1>7, <1>a, Updated DEF MarkSuccess
    <2> QED  BY <1>7, <2>3, <2>4, <2>5 DEF MarkSuccess
  <1>8. ASSUME NEW c \in Calls, MarkFailure(c) PROVE Typed'
    <2> DEFINE n    == streak[Tried(c)] + 1
               next == Try(calls[c].order, calls[c].at + 1)
               call == [calls[c] EXCEPT !.pc = next, !.at = @ + 1]
    <2>1. calls[c] \in Call /\ InOrder(calls[c])
      OBVIOUS
    <2>2. Tried(c) \in Providers
      BY <1>8, <2>1 DEF MarkFailure, Tried, Call, InOrder
    <2>3. n \in Nat /\ n \in 0..StreakLimit
      BY <1>8, <2>2, BreakerAssumption DEF MarkFailure
    <2>4. /\ next \in {"sent", "failed"}
          /\ next = "sent" <=> calls[c].at + 1 <= Len(calls[c].order)
      BY <2>1, TryIsTyped DEF Call
    <2> HIDE DEF next
    <2>5. call \in Call
      BY <2>1, <2>4, NextTyped
    <2>6. InOrder(call)
      BY <2>1, <2>4 DEF Call, InOrder
    <2>7. calls' = [calls EXCEPT ![c] = call]
      BY <1>8 DEF MarkFailure, next
    <2> HIDE DEF call
    <2>8. calls' \in [Calls -> Call] /\ \A d \in Calls : InOrder(calls'[d])
      BY <2>5, <2>6, <2>7, CallUpdated
    <2>9. Cooldown(n) \in 0..CooldownMax
      BY <2>3, CooldownType
    <2>10. left' \in [Providers -> 0..CooldownMax] /\ streak' \in [Providers -> 0..StreakLimit]
      BY <1>8, <2>3, <2>9, Updated DEF MarkFailure
    <2> QED  BY <1>8, <2>8, <2>10 DEF MarkFailure
  <1>9. ASSUME NEW c \in Calls, MarkOverflow(c) PROVE Typed'
    <2> DEFINE call == [calls[c] EXCEPT !.pc = "crashed"]
    <2>1. call \in Call /\ InOrder(call)
      BY DEF Call, InOrder
    <2>2. calls' \in [Calls -> Call] /\ \A d \in Calls : InOrder(calls'[d])
      BY <1>9, <2>1, CallUpdated DEF MarkOverflow
    <2>3. streak' \in [Providers -> 0..StreakLimit]
      BY <1>9, <1>a, Updated DEF MarkOverflow
    <2> QED  BY <1>9, <2>2, <2>3 DEF MarkOverflow
  <1>10. CASE Tick
    <2>1. due' \in [Calls -> SUBSET Providers]
      BY <1>10 DEF Tick, NotDue
    <2>2. left' \in [Providers -> 0..CooldownMax]
      BY <1>10, BreakerAssumption DEF Tick
    <2> QED  BY <1>10, <2>1, <2>2 DEF Tick
  <1>11. ASSUME NEW p \in Providers, Flip(p) PROVE Typed'
    BY <1>11, BreakerAssumption DEF Flip, breaker
  <1>12. CASE UNCHANGED vars
    BY <1>12 DEF vars
  <1> QED
    BY <1>1, <1>2, <1>3, <1>4, <1>5, <1>6, <1>7, <1>8, <1>9, <1>10, <1>11, <1>12
       DEF Next, CallStep

LEMMA AlwaysTyped == Spec => []Typed
  BY TypedInit, TypedStep, PTL DEF Spec

\* Every reachable state is well-typed: no cooldown exceeds its maximum, and no
\* call reaches beyond the providers it has ordered.
THEOREM BreakerTypeCorrect == Spec => []BreakerTypeOK
  <1>1. Typed => BreakerTypeOK
    BY DEF Typed
  <1> QED  BY <1>1, AlwaysTyped, PTL

-----------------------------------------------------------------------------
(* Cooldowns and streaks. *)

\* Every step keeps a cooldown within what its streak accounts for: an overflow
\* keeps the cooldown and raises the streak to the limit, Tick shortens the
\* cooldown, and the marks of success and failure set both.
LEMMA FitsStep ==
    Typed /\ CooldownFitsStreak /\ [Next]_vars => CooldownFitsStreak'
  <1> SUFFICES ASSUME Typed, CooldownFitsStreak, [Next]_vars,
                      NEW p \in Providers
               PROVE  left'[p] <= Cooldown(streak'[p])
    BY DEF CooldownFitsStreak
  <1> USE DEF Typed, BreakerTypeOK
  <1>a. /\ left[p] \in Nat /\ streak[p] \in Nat /\ streak[p] <= StreakLimit
        /\ left[p] <= Cooldown(streak[p])
        /\ Cooldown(streak[p]) \in Nat
    BY CooldownType, BreakerAssumption DEF CooldownFitsStreak
  <1>1. CASE UNCHANGED <<left, streak>>
    BY <1>1, <1>a
  <1>2. ASSUME NEW c \in Calls, MarkSuccess(c) PROVE left'[p] <= Cooldown(streak'[p])
    <2>1. CASE p = Tried(c)
      <3>1. left'[p] = 0 /\ streak'[p] = 0
        BY <1>2, <2>1 DEF MarkSuccess
      <3> QED  BY <3>1 DEF Cooldown
    <2>2. CASE p # Tried(c)
      BY <1>2, <2>2, <1>a DEF MarkSuccess
    <2> QED  BY <2>1, <2>2
  <1>3. ASSUME NEW c \in Calls, MarkFailure(c) PROVE left'[p] <= Cooldown(streak'[p])
    <2>1. CASE p = Tried(c)
      <3>1. Cooldown(streak[p] + 1) \in Nat
        BY <1>a, CooldownType, BreakerAssumption
      <3> QED  BY <1>3, <2>1, <3>1 DEF MarkFailure
    <2>2. CASE p # Tried(c)
      BY <1>3, <2>2, <1>a DEF MarkFailure
    <2> QED  BY <2>1, <2>2
  <1>4. ASSUME NEW c \in Calls, MarkOverflow(c) PROVE left'[p] <= Cooldown(streak'[p])
    <2>1. CASE p = Tried(c)
      <3>1. /\ left'[p] = left[p] /\ streak'[p] = StreakLimit
            /\ streak[p] = StreakLimit \/ streak[p] + 1 = StreakLimit
        BY <1>4, <2>1, <1>a, BreakerAssumption DEF MarkOverflow
      <3>2. Cooldown(streak[p]) <= Cooldown(streak[p] + 1) /\ Cooldown(streak[p] + 1) \in Nat
        BY <1>a, CooldownGrows, CooldownType, BreakerAssumption
      <3> QED  BY <1>a, <3>1, <3>2
    <2>2. CASE p # Tried(c)
      BY <1>4, <2>2, <1>a DEF MarkOverflow
    <2> QED  BY <2>1, <2>2
  <1>5. CASE Tick
    <2>1. streak' = streak /\ left'[p] \in Nat /\ left'[p] <= left[p]
      BY <1>5, <1>a DEF Tick
    <2> QED  BY <1>a, <2>1
  <1>6. ASSUME NEW c \in Calls,
               \/ \E chain \in Chains : Begin(c, chain)
               \/ \E q \in Providers : BeginLeg(c, q)
               \/ LookHealthy(c) \/ LookCooling(c) \/ Ordered(c) \/ Answer(c)
        PROVE  UNCHANGED <<left, streak>>
    BY <1>6 DEF Begin, BeginLeg, LookHealthy, LookCooling, Ordered, Answer, breaker
  <1>7. (\E q \in Providers : Flip(q)) \/ UNCHANGED vars => UNCHANGED <<left, streak>>
    BY DEF Flip, breaker, vars
  <1> QED
    BY <1>1, <1>2, <1>3, <1>4, <1>5, <1>6, <1>7 DEF Next, CallStep

\* No provider is skipped for longer than its failures in a row account for.
THEOREM CooldownFits == Spec => []CooldownFitsStreak
  <1>1. Init => CooldownFitsStreak
    BY DEF Init, CooldownFitsStreak, Cooldown
  <1> QED  BY <1>1, AlwaysTyped, FitsStep, PTL DEF Spec

-----------------------------------------------------------------------------
(* Why a call that fails has tried every provider it could count on. *)

OneOf(p, seq) == \E k \in 1..Len(seq) : seq[k] = p
Cool == {p \in Providers : Cooling(p)}

\* Where the providers that are due to a call are, as it proceeds.  cool is the
\* set of cooling providers.  Each provider that the first pass went by is in
\* the order or still cooling; each that the second went by is in the order; and
\* those that have been tried are no longer due.
OnTheWay(call, ds, cool) ==
    /\ call.pc = "looking" =>
          /\ \A p \in ds : OneOf(p, call.chain)
          /\ \A j \in 1..Len(call.chain) :
                /\ call.chain[j] \in ds /\ j < call.look =>
                      OneOf(call.chain[j], call.order) \/ call.chain[j] \in cool
                /\ call.chain[j] \in ds /\ Len(call.chain) + j < call.look =>
                      OneOf(call.chain[j], call.order)
    /\ call.pc \in {"sent", "answered"} =>
          \A p \in ds : \E k \in call.at..Len(call.order) : call.order[k] = p
    /\ call.pc = "answered" /\ ~call.ok => call.order[call.at] \notin ds
    /\ call.pc = "failed" => ds = {}

Accounted ==
    \A c \in Calls : OnTheWay(calls[c], due[c], Cool) /\ \A p \in due[c] : up[p]

BreakerInv == Typed /\ CooldownFitsStreak /\ Accounted

\* What a call has done stays good when fewer providers are due and those that
\* are do not stop cooling while it looks.
LEMMA StaysOnTheWay ==
    ASSUME NEW call \in Call, NEW ds, NEW ds2 \in SUBSET ds, NEW cool, NEW cool2,
           OnTheWay(call, ds, cool),
           call.pc = "looking" => cool \cap ds2 \subseteq cool2
    PROVE  OnTheWay(call, ds2, cool2)
  BY DEF OnTheWay, OneOf

\* Appending to a sequence keeps what is in it and adds the new element.
LEMMA OneOfAppend ==
    ASSUME NEW seq \in Seq(Providers), NEW p, NEW q \in Providers
    PROVE  OneOf(p, Append(seq, q)) <=> OneOf(p, seq) \/ p = q
  <1>1. /\ Len(Append(seq, q)) = Len(seq) + 1
        /\ \A k \in 1..Len(seq) : Append(seq, q)[k] = seq[k]
        /\ Append(seq, q)[Len(seq) + 1] = q
        /\ Len(seq) \in Nat
    OBVIOUS
  <1> QED  BY <1>1 DEF OneOf

\* The look at the next provider in the first pass.
LEMMA HealthyOnTheWay ==
    ASSUME NEW call \in Call, NEW ds, NEW cool, OnTheWay(call, ds, cool),
           call.pc = "looking", call.look \in 1..Len(call.chain),
           NEW order,
           order = IF call.chain[call.look] \in cool
                     THEN call.order ELSE Append(call.order, call.chain[call.look])
    PROVE  OnTheWay([call EXCEPT !.look = @ + 1, !.order = order], ds, cool)
  <1> DEFINE next == [call EXCEPT !.look = @ + 1, !.order = order]
             p    == call.chain[call.look]
  <1>1. /\ next.pc = "looking" /\ next.chain = call.chain
        /\ next.look = call.look + 1 /\ next.order = order
    BY DEF Call
  <1>2. /\ p \in Providers /\ call.order \in Seq(Providers)
        /\ Len(call.chain) \in Nat /\ call.look \in Nat
    BY DEF Call
  <1>3. \A q : OneOf(q, call.order) => OneOf(q, order)
    BY <1>2, OneOfAppend
  <1>4. OneOf(p, order) \/ p \in cool
    BY <1>2, OneOfAppend
  <1> HIDE DEF next
  <1>5. ASSUME NEW j \in 1..Len(call.chain), call.chain[j] \in ds, j < next.look
        PROVE  OneOf(call.chain[j], order) \/ call.chain[j] \in cool
    <2>1. j < call.look \/ j = call.look
      BY <1>1, <1>2, <1>5
    <2> QED  BY <1>3, <1>4, <1>5, <2>1 DEF OnTheWay
  <1>6. ASSUME NEW j \in 1..Len(call.chain), Len(call.chain) + j < next.look
        PROVE  FALSE
    BY <1>1, <1>2, <1>6
  <1> QED  BY <1>1, <1>5, <1>6 DEF OnTheWay, next

\* The look at the next provider in the second pass.
LEMMA CoolingOnTheWay ==
    ASSUME NEW call \in Call, NEW ds, NEW cool, OnTheWay(call, ds, cool),
           call.pc = "looking", NEW i \in 1..Len(call.chain),
           call.look = Len(call.chain) + i,
           NEW order,
           order = IF call.chain[i] \in cool
                     THEN Append(call.order, call.chain[i]) ELSE call.order
    PROVE  OnTheWay([call EXCEPT !.look = @ + 1, !.order = order], ds, cool)
  <1> DEFINE next == [call EXCEPT !.look = @ + 1, !.order = order]
             p    == call.chain[i]
  <1>1. /\ next.pc = "looking" /\ next.chain = call.chain
        /\ next.look = call.look + 1 /\ next.order = order
    BY DEF Call
  <1>2. /\ p \in Providers /\ call.order \in Seq(Providers)
        /\ Len(call.chain) \in Nat /\ call.look \in Nat
    BY DEF Call
  <1>3. \A q : OneOf(q, call.order) => OneOf(q, order)
    BY <1>2, OneOfAppend
  <1>4. p \in ds => OneOf(p, order)
    <2>1. p \in ds => OneOf(p, call.order) \/ p \in cool
      BY <1>2 DEF OnTheWay
    <2> QED  BY <2>1, <1>2, <1>3, OneOfAppend
  <1> HIDE DEF next
  <1>5. ASSUME NEW j \in 1..Len(call.chain), call.chain[j] \in ds, j < next.look
        PROVE  OneOf(call.chain[j], order) \/ call.chain[j] \in cool
    <2>1. j < call.look
      BY <1>2
    <2> QED  BY <1>3, <1>5, <2>1 DEF OnTheWay
  <1>6. ASSUME NEW j \in 1..Len(call.chain), call.chain[j] \in ds,
               Len(call.chain) + j < next.look
        PROVE  OneOf(call.chain[j], order)
    <2>1. Len(call.chain) + j < call.look \/ j = i
      BY <1>1, <1>2, <1>6
    <2> QED  BY <1>3, <1>4, <1>6, <2>1 DEF OnTheWay
  <1> QED  BY <1>1, <1>5, <1>6 DEF OnTheWay, next

\* A call that has looked at all providers, and begins to try them.
LEMMA OrderedOnTheWay ==
    ASSUME NEW call \in Call, NEW ds, NEW cool, OnTheWay(call, ds, cool),
           call.pc = "looking", call.look > 2 * Len(call.chain)
    PROVE  OnTheWay([Idle EXCEPT !.pc = Try(call.order, 1), !.order = call.order],
                    ds, cool)
  <1> DEFINE next == [Idle EXCEPT !.pc = Try(call.order, 1), !.order = call.order]
  <1>1. /\ next.pc = Try(call.order, 1) /\ next.order = call.order /\ next.at = 1
    BY DEF Idle
  <1>2. Len(call.chain) \in Nat /\ call.look \in Nat /\ Len(call.order) \in Nat
    BY DEF Call
  <1>3. ASSUME NEW p \in ds PROVE OneOf(p, call.order)
    <2>1. PICK j \in 1..Len(call.chain) : call.chain[j] = p
      BY DEF OnTheWay, OneOf
    <2>2. Len(call.chain) + j < call.look
      BY <1>2
    <2> QED  BY <2>1, <2>2 DEF OnTheWay
  <1> HIDE DEF next
  <1>4. ASSUME 1 <= Len(call.order) PROVE OnTheWay(next, ds, cool)
    <2>1. next.pc = "sent"
      BY <1>1, <1>4 DEF Try
    <2> QED  BY <1>1, <1>3, <2>1 DEF OnTheWay, OneOf
  <1>5. ASSUME ~(1 <= Len(call.order)) PROVE OnTheWay(next, ds, cool)
    <2>1. next.pc = "failed"
      BY <1>1, <1>5 DEF Try
    <2>2. ds = {}
      BY <1>2, <1>3, <1>5 DEF OneOf
    <2> QED  BY <2>1, <2>2 DEF OnTheWay
  <1> QED  BY <1>4, <1>5 DEF next

\* A call whose provider has failed: it was not due, so the others that are
\* remain ahead.
LEMMA FailureOnTheWay ==
    ASSUME NEW call \in Call, NEW ds, NEW cool, OnTheWay(call, ds, cool),
           call.pc = "answered", ~call.ok, call.at \in 1..Len(call.order)
    PROVE  OnTheWay([call EXCEPT !.pc = Try(call.order, call.at + 1), !.at = @ + 1],
                    ds, cool)
  <1> DEFINE next == [call EXCEPT !.pc = Try(call.order, call.at + 1), !.at = @ + 1]
  <1>1. /\ next.pc = Try(call.order, call.at + 1)
        /\ next.order = call.order /\ next.at = call.at + 1
    BY DEF Call
  <1>2. call.at \in Nat /\ Len(call.order) \in Nat
    BY DEF Call
  <1>3. ASSUME NEW p \in ds
        PROVE  \E k \in call.at + 1 .. Len(call.order) : call.order[k] = p
    <2>1. PICK k \in call.at .. Len(call.order) : call.order[k] = p
      BY DEF OnTheWay
    <2>2. k # call.at
      BY <2>1 DEF OnTheWay
    <2> QED  BY <1>2, <2>1, <2>2
  <1> HIDE DEF next
  <1>4. CASE call.at + 1 <= Len(call.order)
    <2>1. next.pc = "sent"
      BY <1>1, <1>4 DEF Try
    <2> QED  BY <1>1, <1>3, <2>1 DEF OnTheWay
  <1>5. CASE ~(call.at + 1 <= Len(call.order))
    <2>1. next.pc = "failed"
      BY <1>1, <1>5 DEF Try
    <2>2. ds = {}
      BY <1>2, <1>3, <1>5
    <2> QED  BY <2>1, <2>2 DEF OnTheWay
  <1> QED  BY <1>4, <1>5 DEF next

\* The accounts of all calls after a step of call c, from those of c and from
\* what the step does to the breaker and to what is due.
LEMMA AccountedAgain ==
    ASSUME Typed, Accounted, NEW c \in Calls, NEW call,
           calls' = [calls EXCEPT ![c] = call],
           OnTheWay(call, due'[c], Cool'),
           up' = up,
           \A d \in Calls : due'[d] \subseteq due[d],
           \A d \in Calls \ {c} : calls[d].pc = "looking" => Cool \cap due'[d] \subseteq Cool'
    PROVE  Accounted'
  <1>1. ASSUME NEW d \in Calls, d # c
        PROVE  OnTheWay(calls[d], due'[d], Cool')
    BY <1>1, StaysOnTheWay DEF Accounted, Typed, BreakerTypeOK
  <1>2. \A d \in Calls : calls'[d] = IF d = c THEN call ELSE calls[d]
    BY DEF Typed, BreakerTypeOK
  <1>3. \A d \in Calls : OnTheWay(calls'[d], due'[d], Cool')
    BY <1>1, <1>2
  <1>4. \A d \in Calls : \A p \in due'[d] : up'[p]
    BY DEF Accounted
  <1> QED  BY <1>3, <1>4 DEF Accounted

\* Every step of every call, of the clock and of the providers keeps the
\* accounts: what the clock or a success takes out of the cooling providers is
\* no longer due to calls that are looking, and a failure never ends a cooldown.
LEMMA AccountedStep == BreakerInv /\ [Next]_vars => Accounted'
  <1> SUFFICES ASSUME Typed, CooldownFitsStreak, Accounted, [Next]_vars
               PROVE  Accounted'
    BY DEF BreakerInv
  <1>a. \A d \in Calls : /\ calls[d] \in Call /\ InOrder(calls[d])
                         /\ OnTheWay(calls[d], due[d], Cool)
    BY DEF Typed, BreakerTypeOK, Accounted
  <1>1. ASSUME NEW c \in Calls, NEW chain \in Chains, Begin(c, chain)
        PROVE  Accounted'
    <2> DEFINE call == [Idle EXCEPT !.pc = "looking", !.chain = chain]
    <2>1. /\ calls' = [calls EXCEPT ![c] = call]
          /\ due' = [due EXCEPT ![c] = {p \in ToSet(chain) : up[p]}]
          /\ Cool' = Cool /\ up' = up
      BY <1>1 DEF Begin, Cool, Cooling, breaker
    <2>2. chain \in Seq(Providers)
      BY ChainsAssumption
    <2>3. /\ due'[c] = {p \in ToSet(chain) : up[p]}
          /\ \A d \in Calls \ {c} : due'[d] = due[d]
          /\ calls'[c] = call
          /\ \A d \in Calls \ {c} : calls'[d] = calls[d]
      BY <2>1 DEF Typed, BreakerTypeOK
    <2>4. /\ call.pc = "looking" /\ call.chain = chain /\ call.look = 1
      BY DEF Idle
    <2> HIDE DEF call
    <2>5. OnTheWay(call, due'[c], Cool)
      BY <2>2, <2>3, <2>4 DEF OnTheWay, OneOf, ToSet
    <2>6. \A p \in due'[c] : up[p]
      BY <2>3
    <2> QED  BY <1>a, <2>1, <2>3, <2>5, <2>6 DEF Accounted
  <1>2. ASSUME NEW c \in Calls, NEW q \in Providers, BeginLeg(c, q)
        PROVE  Accounted'
    <2> DEFINE call == [Idle EXCEPT !.pc = "sent", !.order = <<q>>]
    <2>1. /\ calls' = [calls EXCEPT ![c] = call]
          /\ due' = [due EXCEPT ![c] = {p \in {q} : up[p]}]
          /\ Cool' = Cool /\ up' = up
      BY <1>2 DEF BeginLeg, Cool, Cooling, breaker
    <2>2. /\ due'[c] = {p \in {q} : up[p]}
          /\ \A d \in Calls \ {c} : due'[d] = due[d]
          /\ calls'[c] = call
          /\ \A d \in Calls \ {c} : calls'[d] = calls[d]
      BY <2>1 DEF Typed, BreakerTypeOK
    <2>3. call.pc = "sent" /\ call.order = <<q>> /\ call.at = 1
      BY DEF Idle
    <2> HIDE DEF call
    <2>4. \A p \in due'[c] : call.order[1] = p
      BY <2>2, <2>3
    <2>5. Len(call.order) = 1
      BY <2>3
    <2>6. OnTheWay(call, due'[c], Cool)
      BY <2>3, <2>4, <2>5 DEF OnTheWay
    <2> QED  BY <1>a, <2>1, <2>2, <2>6 DEF Accounted
  <1>3. ASSUME NEW c \in Calls, LookHealthy(c) PROVE Accounted'
    <2> DEFINE p     == calls[c].chain[calls[c].look]
               order == IF p \in Cool THEN calls[c].order ELSE Append(calls[c].order, p)
               call  == [calls[c] EXCEPT !.look = @ + 1, !.order = order]
    <2>1. calls[c].pc = "looking" /\ calls[c].look \in 1..Len(calls[c].chain)
      BY <1>3, <1>a DEF LookHealthy, InOrder, Call
    <2>2. p \in Providers
      BY <1>a, <2>1 DEF Call
    <2>3. p \in Cool <=> Cooling(p)
      BY <2>2 DEF Cool
    <2>4. calls' = [calls EXCEPT ![c] = call]
      BY <1>3, <2>3 DEF LookHealthy
    <2>5. due' = due /\ Cool' = Cool /\ up' = up
      BY <1>3 DEF LookHealthy, Cool, Cooling, breaker
    <2>6. OnTheWay(call, due[c], Cool)
      BY <1>a, <2>1, HealthyOnTheWay
    <2> HIDE DEF call
    <2> QED  BY <2>4, <2>5, <2>6, AccountedAgain
  <1>4. ASSUME NEW c \in Calls, LookCooling(c) PROVE Accounted'
    <2> DEFINE i     == calls[c].look - Len(calls[c].chain)
               p     == calls[c].chain[i]
               order == IF p \in Cool THEN Append(calls[c].order, p) ELSE calls[c].order
               call  == [calls[c] EXCEPT !.look = @ + 1, !.order = order]
    <2>1. /\ calls[c].pc = "looking"
          /\ i \in 1..Len(calls[c].chain) /\ calls[c].look = Len(calls[c].chain) + i
      <3>1. /\ calls[c].look \in Nat /\ Len(calls[c].chain) \in Nat
            /\ calls[c].look \in Len(calls[c].chain) + 1 .. 2 * Len(calls[c].chain)
        BY <1>4, <1>a DEF LookCooling, Call
      <3>2. calls[c].pc = "looking"
        BY <1>4 DEF LookCooling
      <3>3. i \in 1..Len(calls[c].chain) /\ calls[c].look = Len(calls[c].chain) + i
        BY <3>1
      <3> QED  BY <3>2, <3>3
    <2>2. p \in Providers
      BY <1>a, <2>1 DEF Call
    <2>3. p \in Cool <=> Cooling(p)
      BY <2>2 DEF Cool
    <2>4. calls' = [calls EXCEPT ![c] = call]
      BY <1>4, <2>3 DEF LookCooling
    <2>5. due' = due /\ Cool' = Cool /\ up' = up
      BY <1>4 DEF LookCooling, Cool, Cooling, breaker
    <2>6. OnTheWay(call, due[c], Cool)
      <3> HIDE DEF i
      <3> QED  BY <1>a, <2>1, CoolingOnTheWay
    <2> HIDE DEF call
    <2> QED  BY <2>4, <2>5, <2>6, AccountedAgain
  <1>5. ASSUME NEW c \in Calls, Ordered(c) PROVE Accounted'
    <2> DEFINE call == [Idle EXCEPT !.pc = Try(calls[c].order, 1), !.order = calls[c].order]
    <2>1. calls' = [calls EXCEPT ![c] = call]
      BY <1>5 DEF Ordered
    <2>2. due' = due /\ Cool' = Cool /\ up' = up
      BY <1>5 DEF Ordered, Cool, Cooling, breaker
    <2>3. OnTheWay(call, due[c], Cool)
      BY <1>5, <1>a, OrderedOnTheWay DEF Ordered
    <2> HIDE DEF call
    <2> QED  BY <2>1, <2>2, <2>3, AccountedAgain
  <1>6. ASSUME NEW c \in Calls, Answer(c) PROVE Accounted'
    <2> DEFINE call == [calls[c] EXCEPT !.pc = "answered", !.ok = up[Tried(c)]]
    <2>1. calls' = [calls EXCEPT ![c] = call] /\ calls[c].pc = "sent"
      BY <1>6 DEF Answer
    <2>2. due' = due /\ Cool' = Cool /\ up' = up
      BY <1>6 DEF Answer, Cool, Cooling, breaker
    <2>3. /\ call.pc = "answered" /\ call.ok = up[Tried(c)]
          /\ call.order = calls[c].order /\ call.at = calls[c].at
      BY <1>a DEF Call
    <2>4. Tried(c) \in due[c] => up[Tried(c)]
      BY DEF Accounted
    <2> HIDE DEF call
    <2>5. OnTheWay(call, due[c], Cool)
      BY <1>a, <2>1, <2>3, <2>4 DEF OnTheWay, Tried
    <2> QED  BY <2>1, <2>2, <2>5, AccountedAgain
  <1>7. ASSUME NEW c \in Calls, MarkSuccess(c) PROVE Accounted'
    <2> DEFINE call == [Idle EXCEPT !.pc = "returned"]
    <2>1. calls' = [calls EXCEPT ![c] = call]
      BY <1>7 DEF MarkSuccess
    <2>2. call.pc = "returned"
      BY DEF Idle
    <2> HIDE DEF call
    <2>3. OnTheWay(call, due'[c], Cool')
      BY <2>2 DEF OnTheWay
    <2>4. \A d \in Calls : due'[d] = IF d = c THEN {} ELSE NotDue({Tried(c)})[d]
      BY <1>7 DEF MarkSuccess, NotDue
    <2>5. \A d \in Calls : due'[d] \subseteq due[d]
      BY <2>4 DEF NotDue
    <2>6. \A p \in Providers : p # Tried(c) => left'[p] = left[p]
      BY <1>7 DEF MarkSuccess, Typed, BreakerTypeOK
    <2>7. \A d \in Calls \ {c} : calls[d].pc = "looking" => Cool \cap due'[d] \subseteq Cool'
      BY <2>4, <2>6 DEF NotDue, Looking, Cool, Cooling
    <2>8. up' = up
      BY <1>7 DEF MarkSuccess
    <2> QED  BY <2>1, <2>3, <2>5, <2>7, <2>8, AccountedAgain
  <1>8. ASSUME NEW c \in Calls, MarkFailure(c) PROVE Accounted'
    <2> DEFINE call == [calls[c] EXCEPT !.pc = Try(calls[c].order, calls[c].at + 1),
                                        !.at = @ + 1]
    <2>1. calls' = [calls EXCEPT ![c] = call]
      BY <1>8 DEF MarkFailure
    <2>2. due' = due /\ up' = up
      BY <1>8 DEF MarkFailure
    <2>3. Cool \subseteq Cool'
      <3> SUFFICES ASSUME NEW p \in Providers, left[p] > 0 PROVE left'[p] > 0
        BY DEF Cool, Cooling
      <3>1. CASE p # Tried(c)
        BY <1>8, <3>1 DEF MarkFailure, Typed, BreakerTypeOK
      <3>2. CASE p = Tried(c)
        <4>1. left'[p] = Cooldown(streak[p] + 1)
          BY <1>8, <3>2 DEF MarkFailure, Typed, BreakerTypeOK
        <4>2. streak[p] \in Nat /\ left[p] \in Nat
          BY BreakerAssumption DEF Typed, BreakerTypeOK
        <4>3. left[p] <= Cooldown(streak[p]) /\ Cooldown(streak[p]) <= Cooldown(streak[p] + 1)
          BY <4>2, CooldownGrows DEF CooldownFitsStreak
        <4>4. Cooldown(streak[p]) \in Nat /\ Cooldown(streak[p] + 1) \in Nat
          BY <4>2, CooldownType, BreakerAssumption
        <4> QED  BY <4>1, <4>2, <4>3, <4>4
      <3> QED  BY <3>1, <3>2
    <2>4. /\ calls[c].pc = "answered" /\ ~calls[c].ok
          /\ calls[c].at \in 1..Len(calls[c].order)
      BY <1>8, <1>a DEF MarkFailure, InOrder
    <2>5. OnTheWay(calls[c], due[c], Cool')
      BY <1>a, <2>4, StaysOnTheWay
    <2>6. OnTheWay(call, due[c], Cool')
      BY <1>a, <2>4, <2>5, FailureOnTheWay
    <2> HIDE DEF call
    <2> QED  BY <2>1, <2>2, <2>3, <2>6, AccountedAgain
  <1>9. ASSUME NEW c \in Calls, MarkOverflow(c) PROVE Accounted'
    <2> DEFINE call == [calls[c] EXCEPT !.pc = "crashed"]
    <2>1. calls' = [calls EXCEPT ![c] = call]
      BY <1>9 DEF MarkOverflow
    <2>2. due' = due /\ Cool' = Cool /\ up' = up
      BY <1>9 DEF MarkOverflow, Cool, Cooling
    <2>3. call.pc = "crashed"
      BY <1>a DEF Call
    <2> HIDE DEF call
    <2>4. OnTheWay(call, due[c], Cool)
      BY <2>3 DEF OnTheWay
    <2> QED  BY <2>1, <2>2, <2>4, AccountedAgain
  <1>10. CASE Tick
    <2>1. calls' = calls /\ up' = up
      BY <1>10 DEF Tick
    <2>2. \A d \in Calls : due'[d] = NotDue({p \in Providers : left[p] = 1})[d]
      BY <1>10 DEF Tick
    <2>3. \A d \in Calls : due'[d] \subseteq due[d]
      BY <2>2 DEF NotDue
    <2>4. ASSUME NEW d \in Calls, calls[d].pc = "looking"
          PROVE  Cool \cap due'[d] \subseteq Cool'
      <3> SUFFICES ASSUME NEW p \in Providers, left[p] > 0, p \in due'[d]
                   PROVE  left'[p] > 0
        BY DEF Cool, Cooling
      <3>1. left[p] # 1
        BY <2>2, <2>4 DEF NotDue, Looking
      <3>2. left[p] \in Nat
        BY BreakerAssumption DEF Typed, BreakerTypeOK
      <3> QED  BY <1>10, <3>1, <3>2 DEF Tick
    <2>5. \A d \in Calls : OnTheWay(calls[d], due'[d], Cool')
      BY <1>a, <2>3, <2>4, StaysOnTheWay
    <2> QED  BY <2>1, <2>3, <2>5 DEF Accounted
  <1>11. ASSUME NEW p \in Providers, Flip(p) PROVE Accounted'
    <2>1. /\ calls' = calls /\ Cool' = Cool
          /\ \A d \in Calls : due'[d] = due[d] \ {p}
          /\ \A q \in Providers \ {p} : up'[q] = up[q]
      BY <1>11 DEF Flip, Cool, Cooling, breaker, Typed, BreakerTypeOK
    <2>2. \A d \in Calls : OnTheWay(calls[d], due'[d], Cool)
      BY <1>a, <2>1, StaysOnTheWay
    <2>3. \A d \in Calls : \A q \in due'[d] : up'[q]
      BY <2>1 DEF Accounted, Typed, BreakerTypeOK
    <2> QED  BY <2>1, <2>2, <2>3 DEF Accounted
  <1>12. CASE UNCHANGED vars
    BY <1>12 DEF vars, Accounted, Cool, Cooling
  <1> QED
    BY <1>1, <1>2, <1>3, <1>4, <1>5, <1>6, <1>7, <1>8, <1>9, <1>10, <1>11, <1>12
       DEF Next, CallStep

\* chat and achat raise LLMError only if no provider of the tier was up
\* throughout, or the one that was came out of its cooldown while the call put
\* the providers in order; for any number of calls, providers and failures.
THEOREM FailureIsEarned == Spec => []FailsOnlyIfNoneCouldAnswer
  <1>1. Init => Accounted
    BY DEF Init, Accounted, OnTheWay, Idle
  <1>2. Accounted => FailsOnlyIfNoneCouldAnswer
    BY DEF Accounted, OnTheWay, FailsOnlyIfNoneCouldAnswer
  <1>3. Spec => []Accounted
    BY <1>1, AlwaysTyped, CooldownFits, AccountedStep, PTL DEF Spec, BreakerInv
  <1> QED  BY <1>2, <1>3, PTL

=============================================================================
