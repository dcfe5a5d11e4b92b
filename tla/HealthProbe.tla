----------------------------- MODULE HealthProbe -----------------------------
(***************************************************************************)
(* Health checks of a container: sdk/runner/health.go.  One checker serves *)
(* either a WaitForHealthy, which counts checks in a row until one of the  *)
(* thresholds is reached, or a HealthPoller, whose goroutine calls back    *)
(* when the status changes.  The container's answers come and go between   *)
(* checks, and the context may be cancelled.                               *)
(***************************************************************************)
EXTENDS Naturals, Sequences, TLC

CONSTANTS
  ProbeCallers,    \* goroutines that start and stop a poller
  Thresholds,      \* values of the probe's thresholds; 0 is "not given"
  MaxChecks,       \* bound: checks of one wait, changes that a poller reports
  MaxPollers       \* bound: calls of a poller's Start

ASSUME ProbeAssumption ==
  Thresholds \subseteq Nat /\ MaxChecks \in Nat /\ MaxPollers \in Nat

Polls == 1 .. MaxPollers

\* No probe at all, one of each action, an exec probe without a command, and a
\* probe without an action.
Probes == {"nil", "httpGet", "exec", "empty exec", "tcpSocket", "no action"}

\* What the container does when asked: refuses, fails, or answers with a code;
\* an exec and a connection succeed or not.
Answers == {"refused", "succeeds", "199", "200", "399", "400"}
Codes == [refused |-> 0, succeeds |-> 200] @@ ("199" :> 199) @@ ("200" :> 200)
           @@ ("399" :> 399) @@ ("400" :> 400)

VARIABLES
  use,       \* "wait" or "poll"
  probe,     \* the checker's probe: its action and thresholds
  answer,    \* what the container answers
  ended,     \* whether the context is cancelled
  wait,      \* where WaitForHealthy is, or how it has ended
  successes, failures,   \* its counters
  checks,    \* the statuses of its checks
  poll,      \* where each goroutine of the poller is
  pollers,   \* how many were started
  stopAsked, stopDone,   \* whether the poller's channels are closed
  lastStatus,
  changes,   \* the statuses that onChange was called with
  stops,     \* calls of Stop
  stopper,   \* where each caller of Stop is
  crashed    \* whether the program has ended in a panic

probeVars == <<use, probe, answer, ended, wait, successes, failures, checks, poll, pollers,
               stopAsked, stopDone, lastStatus, changes, stops, stopper, crashed>>

waitVars == <<wait, successes, failures, checks>>
pollVars == <<poll, pollers, stopAsked, stopDone, lastStatus, changes, stops, stopper, crashed>>

ProbeInit ==
  /\ use \in {"wait", "poll"}
  /\ probe \in [action : Probes, success : Thresholds, failure : Thresholds, delay : BOOLEAN]
  /\ answer = "refused"
  /\ ended = FALSE
  /\ wait = "called" /\ successes = 0 /\ failures = 0 /\ checks = <<>>
  /\ poll = [l \in Polls |-> "none"] /\ pollers = 0
  /\ stopAsked = FALSE /\ stopDone = FALSE
  /\ lastStatus = "unknown" /\ changes = <<>>
  /\ stops = 0 /\ stopper = [c \in ProbeCallers |-> "free"] /\ crashed = FALSE

-----------------------------------------------------------------------------
(* A check. *)

checkHTTP == IF Codes[answer] \in 200 .. 399 THEN "healthy" ELSE "unhealthy"
checkExec == IF probe.action = "exec" /\ answer = "succeeds" THEN "healthy" ELSE "unhealthy"
checkTCP == IF answer = "refused" THEN "unhealthy" ELSE "healthy"

\* Under a cancelled context every question fails.
Checked ==
  CASE probe.action \in {"nil", "no action"} -> "unknown"
    [] ended -> "unhealthy"
    [] probe.action = "httpGet" -> checkHTTP
    [] probe.action \in {"exec", "empty exec"} -> checkExec
    [] probe.action = "tcpSocket" -> checkTCP

-----------------------------------------------------------------------------
(* WaitForHealthy. *)

Default(threshold, default) == IF threshold = 0 THEN default ELSE threshold
SuccessThreshold == Default(probe.success, 1)
FailureThreshold == Default(probe.failure, 3)

\* Without a probe the container counts as healthy.
BeginWait ==
  /\ use = "wait" /\ wait = "called"
  /\ wait' = IF probe.action = "nil" THEN "healthy"
             ELSE IF probe.delay THEN "delaying" ELSE "checking"
  /\ UNCHANGED <<use, probe, answer, ended, successes, failures, checks, pollVars>>

\* The initial delay, or the ticker's next tick; select may miss the context's end.
TimePasses ==
  /\ use = "wait" /\ wait \in {"delaying", "pausing"}
  /\ wait' = "checking"
  /\ UNCHANGED <<use, probe, answer, ended, successes, failures, checks, pollVars>>

GiveUp ==
  /\ use = "wait" /\ wait \in {"delaying", "pausing"}
  /\ ended
  /\ wait' = "cancelled"
  /\ UNCHANGED <<use, probe, answer, ended, successes, failures, checks, pollVars>>

\* Mutant: a healthy check does not reset the count of failures.
CountKeeping ==
  /\ use = "wait" /\ wait = "checking"
  /\ Len(checks) < MaxChecks
  /\ checks' = Append(checks, Checked)
  /\ IF Checked = "healthy"
     THEN /\ successes' = successes + 1 /\ UNCHANGED failures
          /\ wait' = IF successes' >= SuccessThreshold THEN "healthy" ELSE "pausing"
     ELSE /\ failures' = failures + 1 /\ successes' = 0
          /\ wait' = IF failures' >= FailureThreshold THEN "failed" ELSE "pausing"
  /\ UNCHANGED <<use, probe, answer, ended, pollVars>>

Count ==
  /\ use = "wait" /\ wait = "checking"
  /\ Len(checks) < MaxChecks
  /\ checks' = Append(checks, Checked)
  /\ IF Checked = "healthy"
     THEN /\ successes' = successes + 1 /\ failures' = 0
          /\ wait' = IF successes' >= SuccessThreshold THEN "healthy" ELSE "pausing"
     ELSE /\ failures' = failures + 1 /\ successes' = 0
          /\ wait' = IF failures' >= FailureThreshold THEN "failed" ELSE "pausing"
  /\ UNCHANGED <<use, probe, answer, ended, pollVars>>

WaitForHealthy == BeginWait \/ TimePasses \/ GiveUp \/ Count

-----------------------------------------------------------------------------
(* The poller. *)

StartPoller(c) ==
  /\ use = "poll" /\ ~crashed /\ stopper[c] = "free"
  /\ pollers < MaxPollers
  /\ pollers' = pollers + 1
  /\ poll' = [poll EXCEPT ![pollers + 1] = "polling"]
  /\ UNCHANGED <<use, probe, answer, ended, waitVars, stopAsked, stopDone, lastStatus, changes,
                 stops, stopper, crashed>>

StopPoller(c) ==
  /\ use = "poll" /\ ~crashed /\ stopper[c] = "free"
  /\ stopAsked' = TRUE
  /\ crashed' = stopAsked
  /\ stops' = stops + 1
  /\ stopper' = [stopper EXCEPT ![c] = "waiting"]
  /\ UNCHANGED <<use, probe, answer, ended, waitVars, poll, pollers, stopDone, lastStatus, changes>>

StopPollerReturns(c) ==
  /\ use = "poll" /\ ~crashed /\ stopper[c] = "waiting"
  /\ stopDone
  /\ stopper' = [stopper EXCEPT ![c] = "stopped"]
  /\ UNCHANGED <<use, probe, answer, ended, waitVars, poll, pollers, stopAsked, stopDone,
                 lastStatus, changes, stops, crashed>>

PollTick(l) ==
  /\ poll[l] = "polling" /\ ~crashed
  /\ probe.action # "nil"
  /\ Checked # lastStatus
  /\ Len(changes) < MaxChecks
  /\ lastStatus' = Checked
  /\ changes' = Append(changes, Checked)
  /\ UNCHANGED <<use, probe, answer, ended, waitVars, poll, pollers, stopAsked, stopDone,
                 stops, stopper, crashed>>

PollEnds(l) ==
  /\ poll[l] = "polling" /\ ~crashed
  /\ probe.action = "nil" \/ stopAsked \/ ended
  /\ poll' = [poll EXCEPT ![l] = "ended"]
  /\ stopDone' = TRUE
  /\ crashed' = stopDone
  /\ UNCHANGED <<use, probe, answer, ended, waitVars, pollers, stopAsked, lastStatus, changes,
                 stops, stopper>>

-----------------------------------------------------------------------------
AnswerChanges(a) ==
  /\ a # answer
  /\ answer' = a
  /\ UNCHANGED <<use, probe, ended, waitVars, pollVars>>

ContextEnds ==
  /\ ~ended
  /\ ended' = TRUE
  /\ UNCHANGED <<use, probe, answer, waitVars, pollVars>>

ProbeNext ==
  \/ WaitForHealthy
  \/ \E c \in ProbeCallers : StartPoller(c) \/ StopPoller(c) \/ StopPollerReturns(c)
  \/ \E l \in Polls : PollTick(l) \/ PollEnds(l)
  \/ \E a \in Answers : AnswerChanges(a)
  \/ ContextEnds

ProbeSpec == ProbeInit /\ [][ProbeNext]_probeVars

-----------------------------------------------------------------------------
Statuses == {"unknown", "healthy", "unhealthy"}

ProbeTypeOK ==
  /\ wait \in {"called", "delaying", "checking", "pausing", "healthy", "failed", "cancelled"}
  /\ successes \in 0 .. MaxChecks /\ failures \in 0 .. MaxChecks
  /\ checks \in Seq(Statuses) /\ changes \in Seq(Statuses)
  /\ poll \in [Polls -> {"none", "polling", "ended"}] /\ pollers \in 0 .. MaxPollers
  /\ lastStatus \in Statuses /\ stops \in 0 .. 2
  /\ stopper \in [ProbeCallers -> {"free", "waiting", "stopped"}]

\* The checks i - n + 1 to i were all as wanted.
InARow(i, n, Wanted(_)) == i >= n /\ \A j \in (i - n + 1) .. i : Wanted(checks[j])

IsHealthy(status) == status = "healthy"
IsNotHealthy(status) == status # "healthy"

\* A wait ends as healthy exactly after the first check at which as many checks
\* in a row were healthy as the probe asks for, and as failed after the first at
\* which as many in a row were not; it takes whichever comes first.
VerdictIsEarned ==
  LET n == Len(checks)
      passes(i) == InARow(i, SuccessThreshold, IsHealthy)
      fails(i) == InARow(i, FailureThreshold, IsNotHealthy)
  IN /\ n > 0 => (wait = "healthy" <=> passes(n)) /\ (wait = "failed" <=> fails(n))
     /\ \A i \in 1 .. (n - 1) : ~passes(i) /\ ~fails(i)

\* A poller that is started once and stopped at most once does not panic, reports
\* no status twice in a row, and nothing more once Stop has returned.
PollerIsSafe ==
  pollers <= 1 /\ stops <= 1 =>
    /\ ~crashed
    /\ \A i \in 1 .. (Len(changes) - 1) : changes[i] # changes[i + 1]
    /\ (\E c \in ProbeCallers : stopper[c] = "stopped") => \A l \in Polls : poll[l] # "polling"

ChecksAreTrusted == VerdictIsEarned /\ PollerIsSafe
=============================================================================
