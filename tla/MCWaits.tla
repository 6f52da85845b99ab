------------------------------- MODULE MCWaits -------------------------------
(* Waits for TLC: retries of samplers, and of commands.                    *)
EXTENDS Waits

\* A sampler whose timeouts and sleeps fit, or not, with the delays of a retry
\* within max_timeout, or not.
Samplers ==
    [kind : {"retry"}, body : {"value", "status"}, text : {FALSE}, catch : BOOLEAN,
     tries : {0, 2}, delay : {1}, backoff : {1}, max_timeout : {3}, max_delay : {2},
     timeout : {0, 2, 4}, sleep : {1, 3}]

\* Samplers that are not to wait at all, in a retry that waits longer.
NoWaits == {[s EXCEPT !.timeout = 0, !.sleep = 0, !.delay = 3, !.max_timeout = 6] : s \in Samplers}

Commands ==
    [kind : {"retry", "until"}, body : {"command"}, text : BOOLEAN, catch : BOOLEAN,
     tries : 0 .. 4, delay : 0 .. 3, backoff : 1 .. 3, max_timeout : {0, 6, 12}, max_delay : {2, 5},
     timeout : {0}, sleep : {0}]

\* A retry_until_exception with its default of four tries, or with two.
UntilWaits ==
    {c \in Commands : /\ c.kind = "until" /\ c.text /\ c.tries \in {2, 4}
                      /\ c.delay = 3 /\ c.backoff = 2 /\ c.max_timeout = 12}

AllWaits == Samplers \cup NoWaits \cup Commands
=============================================================================
