----------------------------- MODULE AuthLimiter -----------------------------
(***************************************************************************)
(* The rate limit of the login (evaluate_basic_auth in src/app/server.py): *)
(* every request but /api/health is evaluated under AUTH_LOCK, before      *)
(* anything is read or done for it.  Time is in whole units.               *)
(***************************************************************************)
EXTENDS Naturals, Sequences, FiniteSets

CONSTANTS
    Clients,  \* addresses
    Limit, Window, Lockout,  \* AUTH_FAILURE_LIMIT, _WINDOW_SECONDS, AUTH_LOCKOUT_SECONDS
    Horizon   \* bound on time

ASSUME AuthAssumption ==
    Limit \in Nat \ {0} /\ Window \in Nat /\ Lockout \in Nat \ {0} /\ Horizon \in Nat

VARIABLES
    now,
    tries,     \* the times of all passwords found wrong since the last right one
    failures,  \* AUTH_FAILURES: those of the tries, by number, that it keeps ...
    lockedTo   \* ... and the end of the lockout; a missing entry is like {} and 0

authVars == <<now, failures, lockedTo, tries>>

AuthTypeOK ==
    /\ now \in 0..Horizon
    /\ \A c \in Clients :
          /\ tries[c] \in Seq(0..now) /\ failures[c] \subseteq DOMAIN tries[c]
          /\ lockedTo[c] \in Nat

AuthInit ==
    /\ now = 0
    /\ tries = [c \in Clients |-> <<>>] /\ failures = [c \in Clients |-> {}]
    /\ lockedTo = [c \in Clients |-> 0]

\* Mutant: the boundary of the window is outside it.
KeptStrictly(c) == {i \in failures[c] : now - tries[c][i] < Window}

\* The failures of the window, its boundary included.
Kept(c) == {i \in failures[c] : now - tries[c][i] <= Window}

Locked(c) == lockedTo[c] > now

\* 429: the window is pruned, nothing else is looked at.
Refuse(c) ==
    /\ Locked(c)
    /\ failures' = [failures EXCEPT ![c] = Kept(c)]
    /\ UNCHANGED <<now, lockedTo, tries>>

RightPassword(c) ==
    /\ ~Locked(c)
    /\ failures' = [failures EXCEPT ![c] = {}]
    /\ lockedTo' = [lockedTo EXCEPT ![c] = 0]
    /\ tries' = [tries EXCEPT ![c] = <<>>]
    /\ UNCHANGED now

WrongPassword(c) ==
    /\ ~Locked(c)
    /\ LET kept == Kept(c) \cup {Len(tries[c]) + 1} IN
       /\ failures' = [failures EXCEPT ![c] = kept]
       /\ lockedTo' = [lockedTo EXCEPT ![c] = IF Cardinality(kept) >= Limit THEN now + Lockout ELSE @]
    /\ tries' = [tries EXCEPT ![c] = Append(@, now)]
    /\ UNCHANGED now

AuthTick == now < Horizon /\ now' = now + 1 /\ UNCHANGED <<failures, lockedTo, tries>>

\* A bound: not more than Limit wrong passwords at one time.
Spaced(c) == Cardinality({i \in DOMAIN tries[c] : tries[c][i] = now}) < Limit

AuthNext ==
    \/ AuthTick
    \/ \E c \in Clients : Refuse(c) \/ RightPassword(c) \/ (Spaced(c) /\ WrongPassword(c))

AuthSpec == AuthInit /\ [][AuthNext]_authVars

-----------------------------------------------------------------------------
\* Try i of client c was the Limit-th, or a later one, within the window.
TooMany(c, i) ==
    Cardinality({j \in 1..i : tries[c][i] - tries[c][j] <= Window}) >= Limit

\* The limiter, which prunes what it keeps at every request, locks a client out
\* exactly as the record of all its tries demands: for Lockout after each try
\* that was one too many in its window, and never without one.
LockedExactly ==
    \A c \in Clients :
        Locked(c) <=> \E i \in DOMAIN tries[c] : TooMany(c, i) /\ now < tries[c][i] + Lockout

\* No password of a client is even looked at during its lockout.
NoTryWhileLocked ==
    \A c \in Clients : \A i, j \in DOMAIN tries[c] :
        i < j /\ TooMany(c, i) => tries[c][j] >= tries[c][i] + Lockout

\* The limiter of evaluate_basic_auth locks a client out exactly when, and for
\* exactly as long as, the record of its tries demands.
LockoutSound == AuthTypeOK /\ LockedExactly /\ NoTryWhileLocked
=============================================================================
