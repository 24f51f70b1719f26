------------------------------ MODULE Polling -------------------------------
(***************************************************************************)
(* The pace of an agent that runs as a service: after every cycle the      *)
(* strategy says how long to wait, and the ticker is set to that.          *)
(*                                                                         *)
(*   src/internal/application/polling/strategy.go                          *)
(*   src/cmd/agent/main.go:118-139,161-176,346-357                         *)
(*                                                                         *)
(* Intervals are Durations, signed integers up to MaxDuration. Nothing     *)
(* relates the maximum to the base: only the base is validated, a maximum  *)
(* may be shorter, zero or negative (config.go:131-175). The multiplier is *)
(* a float64, here the fraction it is; the rounding of powers is left out. *)
(* What the conversion of a product yields when it does not fit depends on *)
(* the processor. AdaptiveStrategy is not used by the agent.               *)
(***************************************************************************)
EXTENDS Integers

CONSTANTS Backoff,      \* BACKOFF_ENABLED: exponential, else a fixed interval
          Base,         \* POLL_INTERVAL
          MaxInterval,  \* BACKOFF_MAX_INTERVAL
          MultiplierNum, MultiplierDen,  \* BACKOFF_MULTIPLIER, a fraction
          MaxDuration,  \* largest Duration: 2^63 - 1 in the code
          MaxBackoff    \* bound: failures in a row that are told apart

ASSUME PollingAssumption ==
  /\ Backoff \in {"on", "off"}
  /\ MaxDuration \in Nat /\ Base \in 1 .. MaxDuration
  /\ MaxInterval \in -MaxDuration - 1 .. MaxDuration
  /\ MultiplierNum \in Int /\ MultiplierDen \in Nat \ {0}
  /\ MaxBackoff \in Nat \ {0}

VARIABLES backoff,   \* currentBackoff
          interval   \* what the ticker is set to; 0 when that was refused

pollVars == <<backoff, interval>>

(* A multiplier of 1 or less stands for 2.                                 *)
num == IF MultiplierNum <= MultiplierDen THEN 2 ELSE MultiplierNum
den == IF MultiplierNum <= MultiplierDen THEN 1 ELSE MultiplierDen

NumPower[n \in Nat] == IF n = 0 THEN 1 ELSE num * NumPower[n - 1]
DenPower[n \in Nat] == IF n = 0 THEN 1 ELSE den * DenPower[n - 1]

(* The base interval after n + 1 failures, without a limit.                *)
Product(n) == (Base * NumPower[n]) \div DenPower[n]

(* float64 to int64: the lowest integer on amd64, the largest on arm64.    *)
Duration(x) == IF x <= MaxDuration THEN {x} ELSE {-MaxDuration - 1, MaxDuration}

(* Mutated form: there is no limit.                                        *)
LimitedNot(d) == d

Limited(d) == IF d > MaxInterval THEN MaxInterval ELSE d

(* Ticker.Reset panics for an interval that is not positive.               *)
Reset(d) == interval' = IF d <= 0 THEN 0 ELSE d

IntervalAfterSuccess ==
  /\ backoff' = 0
  /\ Reset(Base)

IntervalAfterFailure ==
  IF Backoff = "off" THEN backoff' = 0 /\ Reset(Base)
  ELSE /\ backoff' = IF backoff < MaxBackoff THEN backoff + 1 ELSE backoff
       /\ \E d \in Duration(Product(backoff' - 1)) : Reset(Limited(d))

PollInit == backoff = 0 /\ interval = Base

(* The ticker fires, the task runs, and the ticker is set again. A panic   *)
(* in the polling goroutine ends the process.                              *)
Poll == interval > 0 /\ (IntervalAfterSuccess \/ IntervalAfterFailure)

PollSpec == PollInit /\ [][Poll]_pollVars
-----------------------------------------------------------------------------
(* However many cycles fail in a row, the next one is due within the       *)
(* maximum interval: "최대 간격 제한" (strategy.go:69).                    *)
WithinMaxInterval == interval \in 1 .. MaxInterval
=============================================================================
