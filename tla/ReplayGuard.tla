---------------------------- MODULE ReplayGuard -----------------------------
(***************************************************************************)
(* Acceptance of signed proofs (#verifyIncomingProof): the timestamp must  *)
(* be fresh and the ReplayGuard must not hold the nonce.  The network may  *)
(* hand over any frame any number of times, at any later time.             *)
(*                                                                         *)
(* Date.now() is read twice, once for the freshness and once by the guard: *)
(* up to Lag passes in between.  The clock is assumed never to step back.  *)
(***************************************************************************)
EXTENDS Integers

CONSTANTS
    Proofs,     \* the proofs that exist (one nonce each)
    Skew,       \* maxTimeSkewMs
    Window,     \* replayWindowMs
    SweepFloor, \* the least sweep interval, 1000 ms in the code
    Lag,        \* assumption: longest time between the two clock readings
    MaxTime     \* bound: the clock stops here

\* Nothing in the code ties the window to the skew; the defaults, 120 s and
\* 30 s, satisfy this.
ASSUME ReplayAssumption ==
    /\ Skew \in Nat \ {0} /\ Window \in Nat \ {0} /\ SweepFloor \in Nat \ {0}
    /\ Lag \in Nat /\ MaxTime \in Nat
    /\ Window > 2 * Skew + Lag

VARIABLES
    now,       \* Date.now() of this node
    stamp,     \* the timestamp in each proof, by the clock of its sender
    seen,      \* ReplayGuard._map: nonce -> expiresAt
    nextSweep, \* ReplayGuard._nextSweepAt
    times      \* history: how often each proof was accepted since clear()

guardVars == <<now, stamp, seen, nextSweep, times>>

Least(a, b) == IF a < b THEN a ELSE b
Greatest(a, b) == IF a > b THEN a ELSE b

SweepInterval == Least(Window, Greatest(SweepFloor, Window \div 4))

NextSweep(at) == at + SweepInterval

GuardInit ==
    /\ now = 0
    /\ stamp \in [Proofs -> 1..MaxTime]
    /\ seen = [p \in {} |-> 0]
    /\ nextSweep = NextSweep(now)
    /\ times = [p \in Proofs |-> 0]

\* isTimestampFresh.
Fresh(p) == now - stamp[p] <= Skew /\ stamp[p] - now <= Skew

Expiry_Off(at) == at + Skew
Expiry(at) == at + Window

\* sweep(): the nonces that have not expired stay.
Kept(at) == {q \in DOMAIN seen : seen[q] > at}

\* The nonces in the map when seenOrAdd looks its own one up.
Held(at) == IF at >= nextSweep THEN Kept(at) ELSE DOMAIN seen

Swept(at) ==
    nextSweep' = IF at >= nextSweep THEN NextSweep(at) ELSE nextSweep

\* seenOrAdd answers false: the nonce enters the map and the frame is handled.
Accept(p, at) ==
    /\ Fresh(p)
    /\ p \in Held(at) => seen[p] <= at
    /\ Swept(at)
    /\ seen' = [q \in Held(at) \cup {p} |-> IF q = p THEN Expiry(at) ELSE seen[q]]
    /\ times' = [times EXCEPT ![p] = @ + 1]
    /\ now' = at
    /\ UNCHANGED stamp

\* seenOrAdd answers true: auth_failed.
RejectReplay(p, at) ==
    /\ Fresh(p)
    /\ p \in Held(at) /\ seen[p] > at
    /\ Swept(at)
    /\ seen' = [q \in Held(at) |-> seen[q]]
    /\ now' = at
    /\ UNCHANGED <<stamp, times>>

\* A proof that is not fresh never reaches the guard and changes nothing.
Verify(p) ==
    \E at \in now..(now + Lag) : Accept(p, at) \/ RejectReplay(p, at)

\* clear(), at the end of #teardown.
Emptied == [p \in {} |-> 0]

Clear ==
    /\ seen' = Emptied
    /\ nextSweep' = NextSweep(now)
    /\ times' = [p \in Proofs |-> 0]
    /\ UNCHANGED <<now, stamp>>

Tick ==
    /\ now < MaxTime
    /\ now' = now + 1
    /\ UNCHANGED <<stamp, seen, nextSweep, times>>

GuardNext ==
    \/ \E p \in Proofs : Verify(p)
    \/ Clear
    \/ Tick

GuardSpec == GuardInit /\ [][GuardNext]_guardVars

(***************************************************************************)
(* Properties.                                                             *)
(***************************************************************************)

\* The shape of the state.
GuardTypeOK ==
    /\ now \in Nat
    /\ stamp \in [Proofs -> Nat]
    /\ DOMAIN seen \subseteq Proofs
    /\ seen \in [DOMAIN seen -> Nat]
    /\ nextSweep \in Nat
    /\ times \in [Proofs -> Nat]

\* A proof is accepted at most once, however often its frame arrives: when the
\* guard forgets the nonce, the timestamp is no longer fresh.
AtMostOnce == \A p \in Proofs : times[p] <= 1

\* Only accepted proofs are held, so a first delivery is never taken for a replay.
NoFalseAlarm == \A p \in DOMAIN seen : times[p] >= 1

\* The guard does not grow with its age: an entry outlives its expiry by less than
\* one sweep interval, measured at the sweep that is due next.
SweptInTime == \A p \in DOMAIN seen : seen[p] + SweepInterval > nextSweep
=============================================================================
