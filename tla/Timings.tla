------------------------------- MODULE Timings -------------------------------
(***************************************************************************)
(* The timings told from the match clock alone: the next bounty, power and *)
(* water rune, the next stack, and the window in which Roshan respawns.    *)
(* (packages/world-model: derived/rules/timings)                           *)
(***************************************************************************)
EXTENDS Integers

CONSTANTS
    LastSecond,     \* the match seconds of a run (bound)
    BountyPeriod, PowerFirst, PowerPeriod,
    Waters,         \* the seconds water runes spawn at, in the order of the source's list
    StackSecond,
    RoshanMin, RoshanMax,
    RoshanDeaths    \* the seconds at which Roshan may die

ASSUME TimingAssumption ==
    /\ {BountyPeriod, PowerPeriod} \subseteq Nat \ {0}
    /\ {LastSecond, PowerFirst, RoshanMin, RoshanMax} \subseteq Nat
    /\ StackSecond \in 0 .. 59
    /\ Waters \subseteq Nat

VARIABLES
    second,         \* the match clock, negative before the horn
    died            \* when Roshan was last seen dead, or -1

timingVars == <<second, died>>

\* Math.ceil(n / d) for n >= 0
Ceil(n, d) == (n + d - 1) \div d

\* Mutant: a rune that spawns this very second is the next one.
BountyNow(t) == Ceil(t, BountyPeriod) * BountyPeriod

NextBounty(t) == Ceil(t + 1, BountyPeriod) * BountyPeriod

NextPower(t) ==
    IF t < PowerFirst THEN PowerFirst
    ELSE PowerFirst + Ceil(t - PowerFirst + 1, PowerPeriod) * PowerPeriod

\* The first of the list that is still to come; none after the last.
NextWater(t) ==
    IF \E w \in Waters : w > t
    THEN CHOOSE w \in Waters : w > t /\ \A v \in Waters : v > t => w <= v
    ELSE -1

NextStack(t) ==
    LET s == t % 60
    IN  t + (IF s < StackSecond THEN StackSecond - s ELSE 60 - s + StackSecond)

RoshanWindow == [opens |-> died + RoshanMin, closes |-> died + RoshanMax]
MaybeUp == second >= RoshanWindow.opens

TimingInit == second = -1 /\ died = -1

\* The clock runs, and a death is recorded at the second it is seen.
Ticks ==
    /\ second < LastSecond
    /\ second' = second + 1
    /\ died' \in {died} \cup ({second'} \cap RoshanDeaths)

TimingNext == Ticks

\* Every rune and stack is announced as the next one from the second after its
\* predecessor until it comes, and then gives way to the next: an announcement
\* never moves and never skips one. (createRuneTimingsRule, createStackTimingRule)
NothingIsSkipped ==
    second >= 0 =>
        /\ NextBounty(second) > second /\ NextBounty(second) - BountyPeriod <= second
        /\ NextBounty(second) % BountyPeriod = 0
        /\ NextPower(second) > second
        /\ second >= PowerFirst => NextPower(second) - PowerPeriod <= second
        /\ (NextPower(second) - PowerFirst) % PowerPeriod = 0
        /\ NextWater(second) = -1 <=> \A w \in Waters : w <= second
        /\ NextStack(second) \in second + 1 .. second + 60 /\ NextStack(second) % 60 = StackSecond
        /\ died # -1 /\ MaybeUp => second - died >= RoshanMin
==============================================================================
