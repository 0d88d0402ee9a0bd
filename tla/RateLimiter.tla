----------------------------- MODULE RateLimiter -----------------------------
(***************************************************************************)
(* mcp_gateway/__init__.py, RateLimiter: a sliding window of admitted      *)
(* attempts per tool, kept in the memory of each gateway process.          *)
(*                                                                         *)
(* An attempt is a record of the instant `now` it was made with and of its *)
(* number, which gives the elements of a history list their identity; the  *)
(* order of the list is never looked at, so the list is a set.  The check  *)
(* reads _calls once and writes it once, and the threads of a process can  *)
(* interleave between the two.                                             *)
(***************************************************************************)
EXTENDS Integers, FiniteSets

CONSTANTS
    Workers, Procs, ProcOf,
    Tools, CallsPerMinute,   \* rate_limit.calls_per_minute of each tool
    Window,                  \* one minute, in ticks of the clock
    MaxNow,                  \* bound on the clock
    MaxAttempts              \* bound on the attempts made

ASSUME ProcsAssumption == ProcOf \in [Workers -> Procs]
ASSUME LimitAssumption == CallsPerMinute \in [Tools -> Nat]
ASSUME BoundsAssumption == Window \in Nat \ {0} /\ MaxNow \in Nat /\ MaxAttempts \in Nat

VARIABLES
    now,       \* the wall clock
    calls,     \* per process and tool: _calls
    check,     \* per worker: the check_and_record it is in
    attempts,  \* how many attempts were made
    admitted   \* per process and tool: the attempts answered True in this lifetime (history)

limiterVars == <<calls, check, attempts, admitted>>
clockedVars == <<now, limiterVars>>

Attempt == [at : 0..MaxNow, n : 1..MaxAttempts]
Out == [pc |-> "out"]
Checks == [pc : {"out", "allowed", "limited"}]
          \cup [pc : {"read"}, tool : Tools, attempt : Attempt]
          \cup [pc : {"write"}, tool : Tools, attempt : Attempt, history : SUBSET Attempt]

LimiterTypeOK ==
    /\ now \in 0..MaxNow
    /\ calls \in [Procs -> [Tools -> SUBSET Attempt]]
    /\ check \in [Workers -> Checks]
    /\ attempts \in 0..MaxAttempts
    /\ admitted \in [Procs -> [Tools -> SUBSET Attempt]]

Empty == [t \in Tools |-> {}]

LimiterInit ==
    /\ now = 0
    /\ calls = [p \in Procs |-> Empty]
    /\ check = [w \in Workers |-> Out]
    /\ attempts = 0
    /\ admitted = [p \in Procs |-> Empty]

\* Faulty: t >= window_start keeps an attempt exactly one minute old.
InWindow_Closed(S, t) == {a \in S : a.at >= t - Window}
\* Faulty: one attempt too many.
Full_OffByOne(tool, history) == Cardinality(history) > CallsPerMinute[tool]

\* The attempts a window ending at t still holds.
InWindow(S, t) == {a \in S : a.at > t - Window}
Full(tool, history) == Cardinality(history) >= CallsPerMinute[tool]
-----------------------------------------------------------------------------
\* Gateway.authorize fixes effective_now and calls check_and_record.
Enter(w, tool) ==
    /\ check[w] = Out
    /\ attempts < MaxAttempts
    /\ attempts' = attempts + 1
    /\ check' = [check EXCEPT ![w] = [pc |-> "read", tool |-> tool,
                                      attempt |-> [at |-> now, n |-> attempts + 1]]]
    /\ UNCHANGED <<now, calls, admitted>>

\* history = [t for t in self._calls.get(tool_name, ()) if t > window_start]
Read(w) ==
    /\ check[w].pc = "read"
    /\ LET c == check[w] IN
       check' = [check EXCEPT ![w] =
           [pc |-> "write", tool |-> c.tool, attempt |-> c.attempt,
            history |-> InWindow(calls[ProcOf[w]][c.tool], c.attempt.at)]]
    /\ UNCHANGED <<now, calls, attempts, admitted>>

\* The limit is reached: the history is stored back without this attempt.
Limit(w) ==
    /\ check[w].pc = "write"
    /\ LET c == check[w] IN
       /\ Full(c.tool, c.history)
       /\ calls' = [calls EXCEPT ![ProcOf[w]][c.tool] = c.history]
    /\ check' = [check EXCEPT ![w] = [pc |-> "limited"]]
    /\ UNCHANGED <<now, attempts, admitted>>

\* It is not: the history is stored back with this attempt.
Admit(w) ==
    /\ check[w].pc = "write"
    /\ LET c == check[w]
           p == ProcOf[w]
       IN /\ ~Full(c.tool, c.history)
          /\ calls' = [calls EXCEPT ![p][c.tool] = c.history \cup {c.attempt}]
          /\ admitted' = [admitted EXCEPT ![p][c.tool] = @ \cup {c.attempt}]
    /\ check' = [check EXCEPT ![w] = [pc |-> "allowed"]]
    /\ UNCHANGED <<now, attempts>>

\* check_and_record returns to authorize.
Leave(w) ==
    /\ check[w].pc \in {"allowed", "limited"}
    /\ check' = [check EXCEPT ![w] = Out]
    /\ UNCHANGED <<now, calls, attempts, admitted>>

\* A process is restarted: a new Gateway with an empty RateLimiter.
Restart(p) ==
    /\ calls' = [calls EXCEPT ![p] = Empty]
    /\ admitted' = [admitted EXCEPT ![p] = Empty]
    /\ check' = [w \in Workers |-> IF ProcOf[w] = p THEN Out ELSE check[w]]
    /\ UNCHANGED <<now, attempts>>

LimiterTick ==
    /\ now < MaxNow
    /\ now' = now + 1
    /\ UNCHANGED limiterVars
-----------------------------------------------------------------------------
LimiterNext ==
    \/ \E w \in Workers :
          \/ \E tool \in Tools : Enter(w, tool)
          \/ Read(w) \/ Limit(w) \/ Admit(w) \/ Leave(w)
    \/ \E p \in Procs : Restart(p)
    \/ LimiterTick

LimiterSpec == LimiterInit /\ [][LimiterNext]_clockedVars
-----------------------------------------------------------------------------
Between(S, lo, hi) == {a \in S : lo < a.at /\ a.at <= hi}

\* No window of one minute, wherever it ends, ever holds more admitted
\* attempts of a tool than its limit, within one lifetime of a process.
WindowBound ==
    \A p \in Procs, tool \in Tools, t \in 0..MaxNow :
        Cardinality(Between(admitted[p][tool], t - Window, t)) <= CallsPerMinute[tool]

\* A call is refused only because the minute that ends with it already holds
\* the limit of admitted attempts: neither refused attempts, nor other tools,
\* nor attempts a minute old count against it.
RefusalJustified ==
    [][\A w \in Workers : Limit(w) =>
          LET c == check[w] IN
          Cardinality(Between(admitted[ProcOf[w]][c.tool], c.attempt.at - Window, c.attempt.at))
              >= CallsPerMinute[c.tool]]_clockedVars
==============================================================================
