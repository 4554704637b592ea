----------------------------- MODULE DeviceProofs -----------------------------
(***************************************************************************)
(* What a device does over several requests, for any bounds: how it stays  *)
(* in touch (Wakeup), and how it moves a folder from one key to another    *)
(* (ShareKeys).                                                            *)
(*                                                                         *)
(* A stop of either leg of Wakeup leaves nothing behind it.  That the      *)
(* types hold already takes a count: a hint on a socket, a fan-out and a   *)
(* notification are each owed to a write of their own.  What stop waits    *)
(* for is all there is because one attempt is in flight at most, and none  *)
(* beside a subscribed connection; the socket that PushListener.stop       *)
(* closes is the only one because none is opened before the last is gone.  *)
(*                                                                         *)
(* Every file of a shared folder opens at every step of a conversion.      *)
(* That takes what is true of one file, its mark, its key scope and its    *)
(* envelopes, to be kept for all copies at once: a write of one member     *)
(* reaches the files of the others.  That a conversion nobody disturbed is *)
(* accepted takes the reverse of what the device sent, file by file: what  *)
(* still waits is on the list, the rest is ready.                          *)
(***************************************************************************)
EXTENDS Wakeup, ShareKeys, SequenceTheorems, FiniteSetTheorems, WellFoundedInduction, TLAPS

------------------------------------------------------------------------------
(* The types, by the part they are of.                                      *)

\* Before a stop there is an attempt left for every generation.
LegTyped ==
    /\ leg \in Leg /\ events \subseteq Attempts \X {"error", "end"}
    /\ leg.stop = "no" => leg.generation <= MaxAttempts

\* Every hint, wherever on its way, is of a write of its own.
HintsTyped ==
    /\ head \in 0..MaxWrites /\ hub \in Hub
    /\ sockets \in [Sockets -> Socket]
    /\ hub.notified + hub.fanning <= head
    /\ \A s \in Sockets : hub.notified + hub.fanning + sockets[s].hints <= head

\* The socket a listener holds is its own.
PushTyped ==
    /\ session \in Session /\ push \in Push
    /\ push.socket # 0 => sockets[push.socket].of

\* A pass covers what there was when it read.
PassTyped ==
    /\ gate \in Gate /\ watcher \in Watcher
    /\ known \in [head : 0..MaxWrites, edits : 0..MaxEdits] /\ excused \in 0..MaxEdits
    /\ gate.head <= head /\ known.head <= head
    /\ gate.edits <= watcher.edits /\ known.edits <= watcher.edits

SpentTyped == spent \in 0..MaxTurns

Typed == LegTyped /\ HintsTyped /\ PushTyped /\ PassTyped /\ SpentTyped

------------------------------------------------------------------------------
(* The invariants.                                                          *)

InFlight(g) == leg.at[g] \in {"connect", "listen"}

\* One attempt in flight, and then nothing subscribed and nothing to come; a
\* leg that is stopped has neither.
OneAtATime ==
    /\ leg.retry => leg.current = 0
    /\ Stopped => leg.current = 0 /\ ~leg.retry
    /\ \A g \in Attempts : InFlight(g) => leg.current = 0 /\ ~leg.retry
    /\ \A g, k \in Attempts : InFlight(g) /\ InFlight(k) => g = k
    /\ leg.stop = "resolved" => \A g \in Attempts : ~InFlight(g)

\* A connection out of the pool is subscribed, about to be, or being given back.
HeldIsUsed ==
    \A g \in leg.held :
        \/ leg.at[g] = "listen"
        \/ g = leg.current
        \/ leg.stop = "unlisten"

\* The listener has the one socket it holds, and none to lose while it is about
\* to open another.
OneSocket ==
    /\ \A s \in Sockets : sockets[s].of => s = push.socket
    /\ push.timer \/ push.refreshing =>
         \A s \in Sockets : sockets[s].of => sockets[s].at = "closing"
    /\ \A s \in Sockets : ~sockets[s].of => sockets[s].at \in {"none", "closing"}

------------------------------------------------------------------------------
(* The bounds are naturals, and no set of them is empty.                    *)

LEMMA Bounds ==
    /\ MaxWrites \in Nat /\ MaxEdits \in Nat /\ MaxAttempts \in Nat
    /\ MaxSockets \in Nat /\ MaxTurns \in Nat
    /\ MaxAttempts > 0 /\ MaxSockets > 0
    /\ 1 \in Attempts /\ 0 \notin Attempts /\ 0 \notin Sockets
<1>1. /\ MaxWrites \in Nat /\ MaxEdits \in Nat /\ MaxAttempts \in Nat
      /\ MaxSockets \in Nat /\ MaxTurns \in Nat
  BY BoundsAreNaturals
<1>2. QED
  BY <1>1, LegsOutnumberTurns DEF Attempts, Sockets

\* Every step is of one of the parts of Next, named here one by one.
LEMMA Steps ==
    ASSUME [Next]_vars
    PROVE  \/ Run \/ Unlisten \/ StopResolves \/ Drop \/ Stop
           \/ \E g \in Attempts : Connected(g) \/ Subscribed(g) \/ AttemptFails(g)
           \/ \E g \in Attempts, e \in {"error", "end"} : Teardown(g, e)
           \/ Write \/ Notified \/ FanOut \/ FanOutFails
           \/ \E s \in Sockets : \/ Verify(s) \/ Opened(s) \/ Accepted(s) \/ Refused(s)
                                 \/ Closed(s) \/ Hint(s) \/ AuthTimesOut(s) \/ Break(s)
           \/ Connect \/ Refreshed \/ Expire \/ LoseRefresh \/ UnlockFromScreen
           \/ Lock \/ Resume
           \/ Walk \/ EndPass \/ Prompted \/ OtherEnds \/ PassFails \/ Settle
           \/ Edit \/ Switch \/ Press \/ OtherBegins
           \/ UNCHANGED vars
BY DEF Next, Cycle, PassStep, Attempted, Serves, Faults, Person

------------------------------------------------------------------------------
(* The types.                                                               *)
LEMMA LegParts ==
    ASSUME LegTyped
    PROVE  /\ leg.generation \in 0..(MaxAttempts + 1)
           /\ leg.at \in [Attempts -> {"none", "connect", "listen", "done"}]
           /\ leg.current \in 0..MaxAttempts /\ leg.held \in SUBSET Attempts
           /\ leg.broken \in SUBSET Attempts /\ leg.retry \in BOOLEAN
           /\ leg.stop \in {"no", "unlisten", "wait", "resolved"}
BY DEF LegTyped, Leg

\* What every step of the leg makes of it, part by part.
LEMMA Ran ==
    ASSUME LegTyped, Run
    PROVE  \E retry \in BOOLEAN :
             /\ ~retry
             /\ leg' = [generation |-> leg.generation + 1,
                        at |-> [leg.at EXCEPT ![leg.generation + 1] = "connect"],
                        current |-> leg.current, held |-> leg.held, broken |-> leg.broken,
                        retry |-> retry, stop |-> leg.stop]
BY DEF Run, LegTyped, Leg

LEMMA ConnectedOrNot ==
    ASSUME LegTyped, NEW g \in Attempts, Connected(g)
    PROVE  \/ /\ StillAsked(leg, g)
              /\ leg' = [generation |-> leg.generation, at |-> [leg.at EXCEPT ![g] = "listen"],
                         current |-> leg.current, held |-> leg.held \cup {g},
                         broken |-> leg.broken, retry |-> leg.retry, stop |-> leg.stop]
           \/ /\ ~StillAsked(leg, g)
              /\ leg' = [generation |-> leg.generation, at |-> [leg.at EXCEPT ![g] = "done"],
                         current |-> leg.current, held |-> leg.held,
                         broken |-> leg.broken, retry |-> leg.retry, stop |-> leg.stop]
BY DEF Connected, LegTyped, Leg

LEMMA SubscribedOrNot ==
    ASSUME LegTyped, NEW g \in Attempts, Subscribed(g)
    PROVE  \/ /\ StillAsked(leg, g)
              /\ leg' = [generation |-> leg.generation, at |-> [leg.at EXCEPT ![g] = "done"],
                         current |-> g, held |-> leg.held,
                         broken |-> leg.broken, retry |-> leg.retry, stop |-> leg.stop]
           \/ /\ ~StillAsked(leg, g)
              /\ leg' = [generation |-> leg.generation, at |-> [leg.at EXCEPT ![g] = "done"],
                         current |-> leg.current, held |-> leg.held \ {g},
                         broken |-> leg.broken, retry |-> leg.retry, stop |-> leg.stop]
BY DEF Subscribed, Released, LegTyped, Leg

LEMMA Failed ==
    ASSUME LegTyped, NEW g \in Attempts, AttemptFails(g)
    PROVE  \E retry \in BOOLEAN :
             /\ retry => leg.retry \/ leg.stop = "no"
             /\ leg' = [generation |-> leg.generation, at |-> [leg.at EXCEPT ![g] = "done"],
                        current |-> leg.current, held |-> leg.held \ {g},
                        broken |-> leg.broken, retry |-> retry, stop |-> leg.stop]
BY DEF AttemptFails, Scheduled, Released, LegTyped, Leg

LEMMA TornOrStale ==
    ASSUME LegTyped, NEW g \in Attempts, NEW e \in {"error", "end"}, Teardown(g, e)
    PROVE  \/ /\ leg.current = g
              /\ \E retry \in BOOLEAN :
                   /\ retry => leg.retry \/ leg.stop = "no"
                   /\ leg' = [generation |-> leg.generation, at |-> leg.at, current |-> 0,
                              held |-> leg.held \ {g}, broken |-> leg.broken,
                              retry |-> retry, stop |-> leg.stop]
           \/ leg.current # g /\ leg' = leg
BY DEF Teardown, Torn, Scheduled, Released, LegTyped, Leg

LEMMA Dropped ==
    ASSUME LegTyped, Drop
    PROVE  leg' = [generation |-> leg.generation, at |-> leg.at, current |-> leg.current,
                   held |-> leg.held, broken |-> leg.broken \cup {leg.current},
                   retry |-> leg.retry, stop |-> leg.stop]
BY DEF Drop, LegTyped, Leg

LEMMA StopBegun ==
    ASSUME LegTyped, Stop
    PROVE  \E retry \in BOOLEAN :
             /\ ~retry
             /\ leg' = [generation |-> leg.generation + 1, at |-> leg.at, current |-> 0,
                        held |-> leg.held, broken |-> leg.broken, retry |-> retry,
                        stop |-> IF leg.current # 0 THEN "unlisten" ELSE "wait"]
BY DEF Stop, LegTyped, Leg

LEMMA Unlistened ==
    ASSUME LegTyped, Unlisten
    PROVE  leg' = [generation |-> leg.generation, at |-> leg.at, current |-> leg.current,
                   held |-> {g \in leg.held : leg.at[g] = "listen"}, broken |-> leg.broken,
                   retry |-> leg.retry, stop |-> "wait"]
BY DEF Unlisten, LegTyped, Leg

LEMMA StopResolved ==
    ASSUME LegTyped, StopResolves
    PROVE  leg' = [generation |-> leg.generation, at |-> leg.at, current |-> leg.current,
                   held |-> leg.held, broken |-> leg.broken,
                   retry |-> leg.retry, stop |-> "resolved"]
BY DEF StopResolves, LegTyped, Leg

\* Whatever else is done leaves the leg alone.
LEMMA LegSteps ==
    ASSUME [Next]_vars
    PROVE  \/ Run \/ Unlisten \/ StopResolves \/ Drop \/ Stop
           \/ \E g \in Attempts : Connected(g) \/ Subscribed(g) \/ AttemptFails(g)
           \/ \E g \in Attempts, e \in {"error", "end"} : Teardown(g, e)
           \/ UNCHANGED <<leg, events>>
BY Steps DEF Write, Notified, FanOut, FanOutFails, Verify, Opened, Accepted, Refused,
   Closed, Hint, AuthTimesOut, Break, Connect, Refreshed, Expire, LoseRefresh,
   UnlockFromScreen, Lock, Resume, Walk, EndPass, Prompted, OtherEnds, PassFails, Settle,
   Edit, Switch, Press, OtherBegins, vars, serverSide

LEMMA LegTypes == LegTyped /\ [Next]_vars => LegTyped'
<1> SUFFICES ASSUME LegTyped, [Next]_vars PROVE LegTyped'
  OBVIOUS
<1>0. MaxAttempts \in Nat /\ MaxAttempts > 0
  BY Bounds
<1>1. ASSUME Run PROVE LegTyped'
  <2>1. leg.generation + 1 \in Attempts /\ leg.generation + 1 \in 0..(MaxAttempts + 1)
    BY <1>0, <1>1, LegParts DEF Run, Attempts
  <2>2. [leg.at EXCEPT ![leg.generation + 1] = "connect"]
          \in [Attempts -> {"none", "connect", "listen", "done"}]
    BY <2>1, LegParts
  <2>3. leg' \in Leg
    BY <1>1, <2>1, <2>2, LegParts, Ran DEF Leg
  <2>4. leg'.generation <= MaxAttempts /\ events' = events
    BY <1>1, <2>1, Ran DEF Run, Attempts
  <2>5. QED
    BY <2>3, <2>4 DEF LegTyped
<1>2. ASSUME Unlisten \/ StopResolves PROVE LegTyped'
  <2>1. {g \in leg.held : leg.at[g] = "listen"} \in SUBSET Attempts
    BY LegParts
  <2>2. leg' \in Leg
    BY <1>2, <2>1, LegParts, Unlistened, StopResolved DEF Leg
  <2>3. leg'.stop # "no" /\ events' = events
    BY <1>2, Unlistened, StopResolved DEF Unlisten, StopResolves
  <2>4. QED
    BY <2>2, <2>3 DEF LegTyped
<1>3. ASSUME Drop PROVE LegTyped'
  <2>1. leg.current \in Attempts
    BY <1>3, LegParts DEF Drop, Hears, Attempts
  <2>2. leg' \in Leg
    BY <1>3, <2>1, LegParts, Dropped DEF Leg
  <2>3. /\ leg'.stop = leg.stop /\ leg'.generation = leg.generation
        /\ events' \subseteq Attempts \X {"error", "end"}
    BY <1>3, <2>1, Dropped DEF Drop, LegTyped
  <2>4. QED
    BY <2>2, <2>3 DEF LegTyped
<1>4. ASSUME Stop PROVE LegTyped'
  <2>1. leg.generation + 1 \in 0..(MaxAttempts + 1) /\ 0 \in 0..MaxAttempts
    BY <1>0, <1>4, LegParts DEF Stop, Stopped, LegTyped
  <2>2. leg' \in Leg
    BY <1>4, <2>1, LegParts, StopBegun DEF Leg
  <2>3. leg'.stop # "no" /\ events' = events
    BY <1>4, StopBegun DEF Stop
  <2>4. QED
    BY <2>2, <2>3 DEF LegTyped
<1>5. ASSUME NEW g \in Attempts, Connected(g) \/ Subscribed(g) \/ AttemptFails(g)
      PROVE  LegTyped'
  <2>1. /\ [leg.at EXCEPT ![g] = "listen"] \in [Attempts -> {"none", "connect", "listen", "done"}]
        /\ [leg.at EXCEPT ![g] = "done"] \in [Attempts -> {"none", "connect", "listen", "done"}]
        /\ leg.held \cup {g} \in SUBSET Attempts /\ leg.held \ {g} \in SUBSET Attempts
        /\ g \in 0..MaxAttempts /\ (leg.retry \/ leg.stop = "no") \in BOOLEAN
    BY <1>0, LegParts DEF Attempts
  <2>2. CASE Connected(g)
    <3>1. leg' \in Leg /\ leg'.stop = leg.stop /\ leg'.generation = leg.generation
      BY <2>1, <2>2, LegParts, ConnectedOrNot DEF Leg
    <3>2. QED
      BY <2>2, <3>1 DEF Connected, LegTyped
  <2>3. CASE Subscribed(g)
    <3>1. leg' \in Leg /\ leg'.stop = leg.stop /\ leg'.generation = leg.generation
      BY <2>1, <2>3, LegParts, SubscribedOrNot DEF Leg
    <3>2. QED
      BY <2>3, <3>1 DEF Subscribed, LegTyped
  <2>4. CASE AttemptFails(g)
    <3>1. leg' \in Leg /\ leg'.stop = leg.stop /\ leg'.generation = leg.generation
      BY <2>1, <2>4, LegParts, Failed DEF Leg
    <3>2. QED
      BY <2>4, <3>1 DEF AttemptFails, LegTyped
  <2>5. QED
    BY <1>5, <2>2, <2>3, <2>4
<1>6. ASSUME NEW g \in Attempts, NEW e \in {"error", "end"}, Teardown(g, e) PROVE LegTyped'
  <2>1. 0 \in 0..MaxAttempts /\ leg.held \ {g} \in SUBSET Attempts
        /\ (leg.retry \/ leg.stop = "no") \in BOOLEAN
    BY <1>0, LegParts
  <2>2. leg' \in Leg /\ leg'.stop = leg.stop /\ leg'.generation = leg.generation
    BY <1>6, <2>1, LegParts, TornOrStale DEF LegTyped, Leg
  <2>3. QED
    BY <1>6, <2>2 DEF Teardown, LegTyped
<1>7. QED
  BY <1>1, <1>2, <1>3, <1>4, <1>5, <1>6, LegSteps DEF LegTyped

------------------------------------------------------------------------------
(* The leg.                                                                 *)

\* One attempt at a time, step by step: an attempt begins when none is in
\* flight and nothing is subscribed, for only then a retry is scheduled.
LEMMA LegKeepsToOne == LegTyped /\ OneAtATime /\ [Next]_vars => OneAtATime'
<1> SUFFICES ASSUME LegTyped, OneAtATime, [Next]_vars PROVE OneAtATime'
  OBVIOUS
<1>0. 0 \notin Attempts /\ leg.at \in [Attempts -> {"none", "connect", "listen", "done"}]
  BY Bounds, LegParts
<1>1. ASSUME Run PROVE OneAtATime'
  <2>1. /\ leg.current = 0 /\ leg.stop = "no" /\ leg.retry
        /\ \A g \in Attempts : ~InFlight(g)
    BY <1>1 DEF Run, OneAtATime, Stopped
  <2>2. /\ leg'.current = leg.current /\ ~leg'.retry /\ leg'.stop = leg.stop
        /\ leg'.at = [leg.at EXCEPT ![leg.generation + 1] = "connect"]
    BY <1>1, Ran
  <2>3. \A g \in Attempts : InFlight(g)' => g = leg.generation + 1
    BY <1>0, <2>1, <2>2 DEF InFlight
  <2>4. QED
    BY <2>1, <2>2, <2>3 DEF OneAtATime, Stopped
<1>2. ASSUME Unlisten \/ StopResolves PROVE OneAtATime'
  <2>1. leg'.current = leg.current /\ leg'.retry = leg.retry /\ leg'.at = leg.at
    BY <1>2, Unlistened, StopResolved
  <2>2. leg.stop \in {"unlisten", "wait"}
    BY <1>2 DEF Unlisten, StopResolves
  <2>3. leg'.stop = "resolved" => \A g \in Attempts : ~InFlight(g)
    BY <1>2, Unlistened, StopResolved DEF StopResolves, InFlight
  <2>4. QED
    BY <2>1, <2>2, <2>3 DEF OneAtATime, Stopped, InFlight
<1>3. ASSUME Drop PROVE OneAtATime'
  <2>1. /\ leg'.current = leg.current /\ leg'.retry = leg.retry /\ leg'.at = leg.at
        /\ leg'.stop = leg.stop
    BY <1>3, Dropped
  <2>2. QED
    BY <2>1 DEF OneAtATime, Stopped, InFlight
<1>4. ASSUME Stop PROVE OneAtATime'
  <2>1. /\ leg'.current = 0 /\ ~leg'.retry /\ leg'.at = leg.at
        /\ leg'.stop \in {"unlisten", "wait"}
    BY <1>4, StopBegun
  <2>2. QED
    BY <2>1 DEF OneAtATime, Stopped, InFlight
<1>5. ASSUME NEW g \in Attempts, Connected(g) PROVE OneAtATime'
  <2>1. InFlight(g)
    BY <1>5 DEF Connected, InFlight
  <2>2. /\ leg'.current = leg.current /\ leg'.retry = leg.retry /\ leg'.stop = leg.stop
        /\ \E at \in {"listen", "done"} : leg'.at = [leg.at EXCEPT ![g] = at]
    BY <1>5, ConnectedOrNot
  <2>3. \A k \in Attempts : InFlight(k)' => InFlight(k)
    BY <1>0, <2>1, <2>2 DEF InFlight
  <2>4. QED
    BY <2>2, <2>3 DEF OneAtATime, Stopped
<1>6. ASSUME NEW g \in Attempts, Subscribed(g) PROVE OneAtATime'
  <2>1. InFlight(g)
    BY <1>6 DEF Subscribed, InFlight
  <2>2. /\ leg'.retry = leg.retry /\ leg'.stop = leg.stop
        /\ leg'.at = [leg.at EXCEPT ![g] = "done"]
        /\ leg'.current = leg.current \/ leg.stop = "no"
    BY <1>6, SubscribedOrNot DEF StillAsked
  <2>3. \A k \in Attempts : ~InFlight(k)'
    BY <1>0, <2>1, <2>2 DEF InFlight, OneAtATime
  <2>4. QED
    BY <2>1, <2>2, <2>3 DEF OneAtATime, Stopped
<1>7. ASSUME NEW g \in Attempts, AttemptFails(g) PROVE OneAtATime'
  <2>1. InFlight(g)
    BY <1>7 DEF AttemptFails, InFlight
  <2>2. /\ leg'.current = leg.current /\ leg'.stop = leg.stop
        /\ leg'.at = [leg.at EXCEPT ![g] = "done"]
        /\ leg'.retry => leg.retry \/ leg.stop = "no"
    BY <1>7, Failed
  <2>3. \A k \in Attempts : ~InFlight(k)'
    BY <1>0, <2>1, <2>2 DEF InFlight, OneAtATime
  <2>4. QED
    BY <2>1, <2>2, <2>3 DEF OneAtATime, Stopped
<1>8. ASSUME NEW g \in Attempts, NEW e \in {"error", "end"}, Teardown(g, e)
      PROVE  OneAtATime'
  <2>1. CASE leg' = leg
    BY <2>1 DEF OneAtATime, Stopped, InFlight
  <2>2. CASE leg' # leg
    <3>1. /\ leg.current # 0 /\ leg'.current = 0 /\ leg'.stop = leg.stop /\ leg'.at = leg.at
          /\ leg'.retry => leg.retry \/ leg.stop = "no"
      BY <1>0, <1>8, <2>2, TornOrStale
    <3>2. QED
      BY <3>1 DEF OneAtATime, Stopped, InFlight
  <2>3. QED
    BY <2>1, <2>2
<1>9. QED
  BY <1>1, <1>2, <1>3, <1>4, <1>5, <1>6, <1>7, <1>8, LegSteps
     DEF OneAtATime, Stopped, InFlight

\* Every connection taken is accounted for.
LEMMA LegKeepsAccount == LegTyped /\ OneAtATime /\ HeldIsUsed /\ [Next]_vars => HeldIsUsed'
<1> SUFFICES ASSUME LegTyped, OneAtATime, HeldIsUsed, [Next]_vars PROVE HeldIsUsed'
  OBVIOUS
<1>0. /\ 0 \notin Attempts /\ leg.at \in [Attempts -> {"none", "connect", "listen", "done"}]
      /\ leg.held \in SUBSET Attempts
  BY Bounds, LegParts
<1>1. ASSUME Run PROVE HeldIsUsed'
  <2>1. leg.current = 0 /\ leg.stop = "no" /\ \A g \in Attempts : ~InFlight(g)
    BY <1>1 DEF Run, OneAtATime, Stopped
  <2>2. leg.held = {}
    BY <1>0, <2>1 DEF HeldIsUsed, InFlight
  <2>3. leg'.held = leg.held
    BY <1>1, Ran
  <2>4. QED
    BY <2>2, <2>3 DEF HeldIsUsed
<1>2. ASSUME Unlisten PROVE HeldIsUsed'
  BY <1>2, Unlistened DEF HeldIsUsed
<1>3. ASSUME StopResolves PROVE HeldIsUsed'
  BY <1>3, StopResolved DEF HeldIsUsed, StopResolves
<1>4. ASSUME Drop PROVE HeldIsUsed'
  BY <1>4, Dropped DEF HeldIsUsed
<1>5. ASSUME Stop PROVE HeldIsUsed'
  <2>1. /\ leg'.held = leg.held /\ leg'.at = leg.at
        /\ leg'.stop = IF leg.current # 0 THEN "unlisten" ELSE "wait"
    BY <1>5, StopBegun
  <2>2. leg.stop = "no"
    BY <1>5 DEF Stop, Stopped
  <2>3. QED
    BY <1>0, <2>1, <2>2 DEF HeldIsUsed
<1>6. ASSUME NEW g \in Attempts, Connected(g) PROVE HeldIsUsed'
  <2>1. leg.at[g] = "connect"
    BY <1>6 DEF Connected
  <2>2. CASE StillAsked(leg, g)
    <3>1. /\ leg'.held = leg.held \cup {g} /\ leg'.current = leg.current
          /\ leg'.stop = leg.stop /\ leg'.at = [leg.at EXCEPT ![g] = "listen"]
      BY <1>6, <2>2, ConnectedOrNot
    <3>2. QED
      BY <1>0, <3>1 DEF HeldIsUsed
  <2>3. CASE ~StillAsked(leg, g)
    <3>1. /\ leg'.held = leg.held /\ leg'.current = leg.current
          /\ leg'.stop = leg.stop /\ leg'.at = [leg.at EXCEPT ![g] = "done"]
      BY <1>6, <2>3, ConnectedOrNot
    <3>2. QED
      BY <1>0, <2>1, <3>1 DEF HeldIsUsed
  <2>4. QED
    BY <2>2, <2>3
<1>7. ASSUME NEW g \in Attempts, Subscribed(g) PROVE HeldIsUsed'
  <2>1. InFlight(g) /\ leg.current = 0
    BY <1>7 DEF Subscribed, InFlight, OneAtATime
  <2>2. /\ leg'.stop = leg.stop /\ leg'.at = [leg.at EXCEPT ![g] = "done"]
        /\ \/ leg'.current = g /\ leg'.held = leg.held
           \/ leg'.current = leg.current /\ leg'.held = leg.held \ {g}
    BY <1>7, SubscribedOrNot
  <2>3. QED
    BY <1>0, <2>1, <2>2 DEF HeldIsUsed
<1>8. ASSUME NEW g \in Attempts, AttemptFails(g) PROVE HeldIsUsed'
  <2>1. /\ leg'.stop = leg.stop /\ leg'.at = [leg.at EXCEPT ![g] = "done"]
        /\ leg'.current = leg.current /\ leg'.held = leg.held \ {g}
    BY <1>8, Failed
  <2>2. QED
    BY <1>0, <2>1 DEF HeldIsUsed
<1>9. ASSUME NEW g \in Attempts, NEW e \in {"error", "end"}, Teardown(g, e)
      PROVE  HeldIsUsed'
  <2>1. CASE leg' = leg
    BY <2>1 DEF HeldIsUsed
  <2>2. CASE leg' # leg
    <3>1. /\ leg.current = g /\ leg'.stop = leg.stop /\ leg'.at = leg.at
          /\ leg'.held = leg.held \ {g}
      BY <1>9, <2>2, TornOrStale
    <3>2. QED
      BY <3>1 DEF HeldIsUsed
  <2>3. QED
    BY <2>1, <2>2
<1>10. QED
  BY <1>1, <1>2, <1>3, <1>4, <1>5, <1>6, <1>7, <1>8, <1>9, LegSteps DEF HeldIsUsed

------------------------------------------------------------------------------
(* The hints, and the sockets they are on.                                  *)

\* Whatever else is done leaves the hints and the sockets alone.
LEMMA HintSteps ==
    ASSUME [Next]_vars
    PROVE  \/ Drop \/ Stop \/ Write \/ Notified \/ FanOut \/ FanOutFails
           \/ \E s \in Sockets : \/ Verify(s) \/ Opened(s) \/ Accepted(s) \/ Refused(s)
                                 \/ Closed(s) \/ Hint(s) \/ AuthTimesOut(s) \/ Break(s)
           \/ Connect \/ Expire \/ Lock \/ Resume
           \/ UNCHANGED <<head, hub, sockets>>
BY Steps DEF Run, Unlisten, StopResolves, Connected, Subscribed, AttemptFails, Teardown,
   Refreshed, LoseRefresh, UnlockFromScreen, Walk, EndPass, Prompted, OtherEnds, PassFails,
   Settle, Edit, Switch, Press, OtherBegins, vars, serverSide, deviceSide

\* The socket a connection opens was not in use.
LEMMA Opening ==
    ASSUME Connect, HintsTyped, session \in Session, push \in Push
    PROVE  \E s \in Sockets :
             /\ sockets[s].at = "none"
             /\ sockets' = [sockets EXCEPT ![s] = sockets'[s]]
             /\ sockets'[s] \in Socket /\ sockets'[s].of /\ sockets'[s].hints = 0
             /\ push' \in Push /\ push'.socket = s /\ ~push'.timer
             /\ push'.refreshing = push.refreshing
<1> DEFINE s == CHOOSE x \in Unused : TRUE
           opened == [NoSocket EXCEPT !.at = "opening", !.of = TRUE, !.token = session.fresh]
<1>0. MaxWrites \in Nat
  BY Bounds
<1>1. s \in Sockets /\ sockets[s].at = "none"
  BY DEF Connect, Unused
<1>2. NoSocket \in Socket
  BY <1>0 DEF NoSocket, Socket
<1>3. session.fresh \in BOOLEAN
  BY DEF Session
<1>4. opened \in Socket /\ opened.of /\ opened.hints = 0
  BY <1>2, <1>3 DEF NoSocket, Socket
<1>5. sockets' = [sockets EXCEPT ![s] = opened]
  BY DEF Connect
<1>6. push' = [push EXCEPT !.timer = FALSE, !.socket = s]
  BY DEF Connect
<1> HIDE DEF s, opened
<1>7. s \in 0..MaxSockets
  BY <1>1, Bounds DEF Sockets
<1>8. /\ push' \in Push /\ push'.socket = s /\ ~push'.timer
      /\ push'.refreshing = push.refreshing
  BY <1>6, <1>7 DEF Push
<1>9. sockets'[s] = opened
  BY <1>1, <1>5 DEF HintsTyped
<1>10. QED
  BY <1>1, <1>4, <1>5, <1>8, <1>9

\* A listener that stops gives up all its sockets and closes the one it holds.
LEMMA Silenced ==
    ASSUME HintsTyped, Lock \/ Resume, NEW s \in Sockets
    PROVE  /\ sockets'[s] \in Socket /\ ~sockets'[s].of
           /\ s = push.socket => sockets'[s].at = "closing" /\ sockets'[s].hints = 0
           /\ s # push.socket => /\ sockets'[s].at = sockets[s].at
                                 /\ sockets'[s].hints = sockets[s].hints
<1>0. sockets[s] \in Socket /\ 0 \in 0..MaxWrites
  BY Bounds DEF HintsTyped
<1>1. sockets'[s] = IF s = push.socket
                    THEN [sockets[s] EXCEPT !.at = "closing", !.of = FALSE, !.hints = 0]
                    ELSE [sockets[s] EXCEPT !.of = FALSE]
  BY DEF Lock, Resume, StopPush
<1>2. CASE s = push.socket
  BY <1>0, <1>1, <1>2 DEF Socket
<1>3. CASE s # push.socket
  BY <1>0, <1>1, <1>3 DEF Socket
<1>4. QED
  BY <1>2, <1>3

LEMMA HintTypes == HintsTyped /\ session \in Session /\ push \in Push /\ [Next]_vars => HintsTyped'
<1> SUFFICES ASSUME HintsTyped, session \in Session, push \in Push, [Next]_vars PROVE HintsTyped'
  OBVIOUS
<1>0. MaxWrites \in Nat /\ MaxSockets \in Nat
  BY Bounds
<1>1. ASSUME Drop \/ Stop PROVE HintsTyped'
  <2>0. hub \in Hub /\ 0 \in 0..MaxWrites
    BY <1>0 DEF HintsTyped
  <2>1. /\ hub'.notified = 0 /\ hub'.fanning = hub.fanning /\ hub' \in Hub
        /\ head' = head /\ sockets' = sockets
    <3>1. CASE Drop
      BY <2>0, <3>1 DEF Drop, Hub, deviceSide
    <3>2. CASE Stop
      BY <2>0, <3>2 DEF Stop, Hub, deviceSide
    <3>3. QED
      BY <1>1, <3>1, <3>2
  <2>2. QED
    BY <1>0, <2>1 DEF HintsTyped, Hub, Socket
<1>2. ASSUME Write PROVE HintsTyped'
  BY <1>0, <1>2 DEF Write, HintsTyped, Hub, Socket, deviceSide
<1>3. ASSUME Notified PROVE HintsTyped'
  <2>1. /\ hub'.notified = hub.notified - 1 /\ hub'.fanning = hub.fanning + 1
        /\ hub.notified > 0 /\ head' = head /\ sockets' = sockets
    BY <1>0, <1>3 DEF Notified, HintsTyped, Hub, deviceSide
  <2>2. hub' \in Hub
    <3>1. hub.notified - 1 \in 0..MaxWrites /\ hub.fanning + 1 \in 0..MaxWrites
      BY <1>0, <2>1 DEF HintsTyped, Hub
    <3>2. QED
      BY <1>3, <3>1 DEF Notified, HintsTyped, Hub
  <2>3. QED
    BY <1>0, <2>1, <2>2 DEF HintsTyped, Hub, Socket
<1>4. ASSUME FanOut PROVE HintsTyped'
  BY <1>0, <1>4 DEF FanOut, HintsTyped, Hub, Socket, deviceSide
<1>5. ASSUME FanOutFails PROVE HintsTyped'
  BY <1>0, <1>5 DEF FanOutFails, HintsTyped, Hub, Socket, deviceSide
<1>6. ASSUME NEW s \in Sockets, Verify(s) PROVE HintsTyped'
  BY <1>0, <1>6 DEF Verify, At, Joined, HintsTyped, Hub, Socket, deviceSide
<1>7. ASSUME NEW s \in Sockets, Opened(s) \/ Accepted(s) \/ Refused(s) \/ AuthTimesOut(s)
      PROVE  HintsTyped'
  BY <1>0, <1>7 DEF Opened, Accepted, Refused, AuthTimesOut, At, HintsTyped, Hub, Socket, serverSide
<1>8. ASSUME NEW s \in Sockets, Closed(s) PROVE HintsTyped'
  BY <1>0, <1>8 DEF Closed, NoSocket, HintsTyped, Hub, Socket, deviceSide
<1>9. ASSUME NEW s \in Sockets, Hint(s) PROVE HintsTyped'
  BY <1>0, <1>9 DEF Hint, HintsTyped, Hub, Socket, serverSide
<1>10. ASSUME NEW s \in Sockets, Break(s) PROVE HintsTyped'
  <2>0. sockets[s] \in Socket /\ 0 \in 0..MaxWrites
    BY <1>0 DEF HintsTyped
  <2>10. sockets' = [sockets EXCEPT ![s] = [sockets[s] EXCEPT !.at = "closing", !.hints = 0]]
    BY <1>10 DEF Break, HintsTyped
  <2>1. /\ sockets' = [sockets EXCEPT ![s] = sockets'[s]]
        /\ sockets'[s] \in Socket /\ sockets'[s].hints = 0
    BY <2>0, <2>10 DEF HintsTyped, Socket
  <2>2. hub' = hub /\ head' = head
    BY <1>10 DEF Break, serverSide
  <2>3. QED
    BY <1>0, <2>1, <2>2 DEF HintsTyped, Hub, Socket
<1>11. ASSUME Connect PROVE HintsTyped'
  <2>1. PICK s \in Sockets : /\ sockets' = [sockets EXCEPT ![s] = sockets'[s]]
                              /\ sockets'[s] \in Socket /\ sockets'[s].hints = 0
    BY <1>11, Opening
  <2>2. hub' = hub /\ head' = head
    BY <1>11 DEF Connect, serverSide
  <2>3. QED
    BY <1>0, <2>1, <2>2 DEF HintsTyped, Hub, Socket
<1>12. ASSUME Expire PROVE HintsTyped'
  BY <1>0, <1>12 DEF Expire, HintsTyped, Hub, Socket, serverSide
<1>13. ASSUME Lock \/ Resume PROVE HintsTyped'
  <2>1. hub' = hub /\ head' = head
    BY <1>13 DEF Lock, Resume, serverSide
  <2>2. sockets' \in [Sockets -> Socket]
    BY <1>13, Silenced DEF Lock, Resume, StopPush
  <2>3. \A s \in Sockets : sockets'[s].hints \in {0, sockets[s].hints}
    BY <1>13, Silenced
  <2>4. QED
    BY <1>0, <2>1, <2>2, <2>3 DEF HintsTyped, Hub, Socket
<1>14. QED
  BY <1>1, <1>2, <1>3, <1>4, <1>5, <1>6, <1>7, <1>8, <1>9, <1>10, <1>11, <1>12, <1>13, HintSteps
     DEF HintsTyped

------------------------------------------------------------------------------
(* The listener.                                                            *)

\* As long as a socket is neither opened, closed nor given up it keeps its
\* owner, and one that is gone or going stays so.
LEMMA SocketsLive ==
    ASSUME HintsTyped,
           \/ FanOut \/ Expire
           \/ \E s \in Sockets : \/ Verify(s) \/ Opened(s) \/ Accepted(s) \/ Refused(s)
                                 \/ Hint(s) \/ AuthTimesOut(s) \/ Break(s),
           NEW k \in Sockets
    PROVE  /\ sockets'[k].of <=> sockets[k].of
           /\ sockets[k].at \in {"none", "closing"} => sockets'[k].at = sockets[k].at
<1> DEFINE Goal == /\ sockets'[k].of <=> sockets[k].of
                   /\ sockets[k].at \in {"none", "closing"} => sockets'[k].at = sockets[k].at
<1>0. sockets \in [Sockets -> Socket]
  BY DEF HintsTyped
<1>1. ASSUME FanOut PROVE Goal
  BY <1>0, <1>1 DEF FanOut, Socket
<1>2. ASSUME Expire PROVE Goal
  BY <1>0, <1>2 DEF Expire, Socket
<1>3. ASSUME NEW s \in Sockets, Verify(s) PROVE Goal
  BY <1>0, <1>3 DEF Verify, At, Socket
<1>4. ASSUME NEW s \in Sockets, Opened(s) \/ Accepted(s) \/ AuthTimesOut(s) PROVE Goal
  BY <1>0, <1>4 DEF Opened, Accepted, AuthTimesOut, At, Socket
<1>5. ASSUME NEW s \in Sockets, Refused(s) PROVE Goal
  BY <1>0, <1>5 DEF Refused, At, Socket
<1>6. ASSUME NEW s \in Sockets, Hint(s) PROVE Goal
  BY <1>0, <1>6 DEF Hint, Socket
<1>7. ASSUME NEW s \in Sockets, Break(s) PROVE Goal
  BY <1>0, <1>7 DEF Break, Socket
<1>8. QED
  BY <1>1, <1>2, <1>3, <1>4, <1>5, <1>6, <1>7

\* What a refused socket, a refresh and a close make of the listener.
LEMMA ListenerRefused ==
    ASSUME PushTyped, NEW s \in Sockets, Refused(s)
    PROVE  /\ push' \in Push /\ push'.socket = push.socket /\ (push'.timer <=> push.timer)
           /\ push'.refreshing => push.refreshing \/ sockets[s].of
BY DEF PushTyped, Refused, Push

LEMMA ListenerRefreshed ==
    ASSUME PushTyped, Refreshed
    PROVE  /\ push' \in Push /\ push'.socket = push.socket /\ push.refreshing
           /\ sockets' = sockets
BY DEF PushTyped, Refreshed, Schedule, Push

LEMMA ListenerClosed ==
    ASSUME PushTyped, NEW s \in Sockets, Closed(s)
    PROVE  /\ push' \in Push
           /\ ~sockets[s].of => push' = push
           /\ sockets[s].of /\ push.socket # s => push'.socket = push.socket
           /\ sockets[s].of /\ push.socket = s => push'.socket = 0
<1>0. push \in Push /\ 0 \in 0..MaxSockets
  BY Bounds DEF PushTyped
<1>1. push' = IF sockets[s].of THEN Schedule(ForgetsOwn(s)) ELSE push
  BY DEF Closed, AfterClose
<1>2. ForgetsOwn(s) \in Push
  BY <1>0 DEF ForgetsOwn, Push
<1>3. \A p \in Push : Schedule(p) \in Push /\ Schedule(p).socket = p.socket
  BY DEF Schedule, Push
<1>4. ForgetsOwn(s).socket = IF push.socket = s THEN 0 ELSE push.socket
  BY <1>0 DEF ForgetsOwn, Push
<1>5. QED
  BY <1>0, <1>1, <1>2, <1>3, <1>4

LEMMA ListenerStopped ==
    ASSUME Lock \/ Resume
    PROVE  push' \in Push /\ push'.socket = 0
<1>1. 0 \in 0..MaxSockets
  BY Bounds
<1>2. Silent \in Push /\ Silent.socket = 0
  BY <1>1 DEF Silent, Push
<1>3. push' = Silent \/ push' = [Silent EXCEPT !.on = TRUE, !.timer = TRUE]
  BY DEF Lock, Resume
<1>4. QED
  BY <1>2, <1>3 DEF Push

\* Every way the session changes.
LEMMA SessionTypes == session \in Session /\ [Next]_vars => session' \in Session
<1> SUFFICES ASSUME session \in Session, [Next]_vars PROVE session' \in Session
  OBVIOUS
<1>1. ASSUME Refreshed PROVE session' \in Session
  BY <1>1 DEF Refreshed, Session
<1>2. ASSUME Expire \/ LoseRefresh PROVE session' \in Session
  BY <1>2 DEF Expire, LoseRefresh, Session
<1>3. ASSUME Prompted \/ UnlockFromScreen \/ Lock \/ Resume PROVE session' \in Session
  <2>1. /\ [open |-> TRUE, fresh |-> TRUE, refreshable |-> TRUE] \in Session
        /\ [open |-> FALSE, fresh |-> FALSE, refreshable |-> FALSE] \in Session
    BY Zenon DEF Session
  <2>2. QED
    BY <1>3, <2>1, Zenon DEF Prompted, UnlockFromScreen, Opens, Lock, Resume
<1>4. ASSUME Walk PROVE session' \in Session
  BY <1>4 DEF Walk, Session
<1>5. \/ Refreshed \/ Expire \/ LoseRefresh \/ Prompted \/ UnlockFromScreen \/ Lock \/ Resume
      \/ Walk \/ UNCHANGED session
  BY Steps DEF Run, Unlisten, StopResolves, Drop, Stop, Connected, Subscribed, AttemptFails,
     Teardown, Write, Notified, FanOut, FanOutFails, Verify, Opened, Accepted, Refused, Closed,
     Hint, AuthTimesOut, Break, Connect, EndPass, OtherEnds, PassFails, Settle, Edit, Switch,
     Press, OtherBegins, vars, deviceSide
<1>6. QED
  BY <1>1, <1>2, <1>3, <1>4, <1>5

\* Every way the sockets and the listener change.
LEMMA SocketSteps ==
    ASSUME [Next]_vars
    PROVE  \/ FanOut /\ UNCHANGED push
           \/ Expire /\ UNCHANGED push
           \/ \E s \in Sockets : \/ Refused(s) \/ Closed(s)
                                 \/ /\ \/ Verify(s) \/ Opened(s) \/ Accepted(s)
                                       \/ Hint(s) \/ AuthTimesOut(s) \/ Break(s)
                                    /\ UNCHANGED push
           \/ Connect \/ Refreshed \/ Lock \/ Resume
           \/ UNCHANGED <<push, sockets>>
BY Steps, ZenonT(60) DEF Run, Unlisten, StopResolves, Drop, Stop, Connected, Subscribed,
        AttemptFails,
   Teardown, Write, Notified, FanOut, FanOutFails, Verify, Opened, Accepted,
   Hint, AuthTimesOut, Break, Expire, LoseRefresh, UnlockFromScreen, Walk, EndPass, Prompted,
   OtherEnds, PassFails, Settle, Edit, Switch, Press, OtherBegins, vars, deviceSide

LEMMA PushTypes == HintsTyped /\ PushTyped /\ [Next]_vars => PushTyped'
<1> SUFFICES ASSUME HintsTyped, PushTyped, [Next]_vars PROVE PushTyped'
  OBVIOUS
<1>0. /\ session' \in Session /\ 0 \notin Sockets /\ push \in Push
      /\ sockets \in [Sockets -> Socket] /\ push.socket \in Sockets \cup {0}
  BY SessionTypes, Bounds DEF PushTyped, HintsTyped, Push, Sockets
<1>1. ASSUME UNCHANGED push,
             \/ FanOut \/ Expire
             \/ \E s \in Sockets : \/ Verify(s) \/ Opened(s) \/ Accepted(s)
                                   \/ Hint(s) \/ AuthTimesOut(s) \/ Break(s)
      PROVE  PushTyped'
  <2>1. \A k \in Sockets : sockets'[k].of <=> sockets[k].of
    BY <1>1, SocketsLive
  <2>2. QED
    BY <1>0, <1>1, <2>1 DEF PushTyped
<1>2. ASSUME NEW s \in Sockets, Refused(s) PROVE PushTyped'
  <2>1. \A k \in Sockets : sockets'[k].of <=> sockets[k].of
    BY <1>2, SocketsLive
  <2>2. push' \in Push /\ push'.socket = push.socket
    BY <1>2, ListenerRefused
  <2>3. QED
    BY <1>0, <2>1, <2>2 DEF PushTyped
<1>3. ASSUME NEW s \in Sockets, Closed(s) PROVE PushTyped'
  <2>1. /\ push' \in Push
        /\ ~sockets[s].of => push' = push
        /\ sockets[s].of /\ push.socket # s => push'.socket = push.socket
        /\ sockets[s].of /\ push.socket = s => push'.socket = 0
    BY <1>3, ListenerClosed
  <2>2. \A k \in Sockets \ {s} : sockets'[k] = sockets[k]
    BY <1>0, <1>3 DEF Closed
  <2>3. QED
    BY <1>0, <2>1, <2>2 DEF PushTyped
<1>4. ASSUME Connect PROVE PushTyped'
  <2>1. push' \in Push /\ sockets'[push'.socket].of
    BY <1>4, Opening DEF PushTyped
  <2>2. QED
    BY <1>0, <2>1 DEF PushTyped
<1>5. ASSUME Refreshed PROVE PushTyped'
  BY <1>0, <1>5, ListenerRefreshed DEF PushTyped
<1>6. ASSUME Lock \/ Resume PROVE PushTyped'
  BY <1>0, <1>6, ListenerStopped DEF PushTyped
<1>7. QED
  BY <1>0, <1>1, <1>2, <1>3, <1>4, <1>5, <1>6, SocketSteps DEF PushTyped

\* One socket at a time: a connection is opened when no close is to come.
LEMMA ListenerKeepsToOne ==
    ASSUME ~LateAnswers, HintsTyped, PushTyped, OneSocket, [Next]_vars
    PROVE  OneSocket'
<1>0. /\ 0 \notin Sockets /\ push \in Push /\ sockets \in [Sockets -> Socket]
      /\ session \in Session
  BY Bounds DEF PushTyped, HintsTyped
<1>1. ASSUME UNCHANGED push,
             \/ FanOut \/ Expire
             \/ \E s \in Sockets : \/ Verify(s) \/ Opened(s) \/ Accepted(s)
                                   \/ Hint(s) \/ AuthTimesOut(s) \/ Break(s)
      PROVE  OneSocket'
  <2>1. \A k \in Sockets :
          /\ sockets'[k].of <=> sockets[k].of
          /\ sockets[k].at \in {"none", "closing"} => sockets'[k].at = sockets[k].at
    BY <1>1, SocketsLive
  <2>2. QED
    BY <1>0, <1>1, <2>1 DEF OneSocket
<1>2. ASSUME NEW s \in Sockets, Refused(s) PROVE OneSocket'
  <2>1. \A k \in Sockets :
          /\ sockets'[k].of <=> sockets[k].of
          /\ sockets[k].at \in {"none", "closing"} => sockets'[k].at = sockets[k].at
    BY <1>2, SocketsLive
  <2>2. /\ push'.socket = push.socket /\ (push'.timer <=> push.timer)
        /\ push'.refreshing => push.refreshing \/ sockets[s].of
    BY <1>2, ListenerRefused
  <2>3. sockets'[s].at = "closing"
    BY <1>0, <1>2 DEF Refused, At, Socket
  <2>4. \A k \in Sockets : sockets[k].of => k = push.socket
    BY DEF OneSocket
  <2>5. push'.timer \/ push'.refreshing =>
          \A k \in Sockets : sockets'[k].of => sockets'[k].at = "closing"
    BY <2>1, <2>2, <2>3, <2>4 DEF OneSocket
  <2>6. QED
    BY <2>1, <2>2, <2>5 DEF OneSocket
<1>3. ASSUME NEW s \in Sockets, Closed(s) PROVE OneSocket'
  <2>1. /\ ~sockets[s].of => push' = push
        /\ sockets[s].of /\ push.socket # s => push'.socket = push.socket
    BY <1>3, ListenerClosed
  <2>2. /\ \A k \in Sockets \ {s} : sockets'[k] = sockets[k]
        /\ sockets'[s].at = "none" /\ ~sockets'[s].of
    BY <1>0, <1>3 DEF Closed, NoSocket
  <2>3. CASE sockets[s].of
    <3>1. \A k \in Sockets : ~sockets'[k].of
      BY <2>2, <2>3 DEF OneSocket
    <3>2. QED
      BY <2>2, <3>1 DEF OneSocket
  <2>4. CASE ~sockets[s].of
    BY <2>1, <2>2, <2>4 DEF OneSocket
  <2>5. QED
    BY <2>3, <2>4
<1>4. ASSUME Connect PROVE OneSocket'
  <2>1. PICK s \in Sockets :
          /\ sockets' = [sockets EXCEPT ![s] = sockets'[s]] /\ sockets'[s].of
          /\ push'.socket = s /\ ~push'.timer /\ push'.refreshing = push.refreshing
    BY <1>0, <1>4, Opening
  <2>2. push.timer /\ InTime
    BY <1>4 DEF Connect
  <2>3. \A k \in Sockets : ~sockets[k].of
    BY <2>2 DEF InTime, OneSocket
  <2>4. \A k \in Sockets \ {s} : sockets'[k] = sockets[k]
    BY <1>0, <2>1
  <2>5. ~push'.refreshing
    BY <2>1, <2>2 DEF InTime
  <2>6. QED
    BY <2>1, <2>3, <2>4, <2>5 DEF OneSocket
<1>5. ASSUME Refreshed PROVE OneSocket'
  <2>1. push'.socket = push.socket /\ push.refreshing /\ sockets' = sockets
    BY <1>5, ListenerRefreshed
  <2>2. QED
    BY <2>1 DEF OneSocket
<1>6. ASSUME Lock \/ Resume PROVE OneSocket'
  <2>1. \A s \in Sockets : /\ ~sockets'[s].of
                           /\ s = push.socket => sockets'[s].at = "closing"
                           /\ s # push.socket => sockets'[s].at = sockets[s].at
    BY <1>6, Silenced
  <2>2. QED
    BY <2>1 DEF OneSocket
<1>7. QED
  BY <1>1, <1>2, <1>3, <1>4, <1>5, <1>6, SocketSteps DEF OneSocket

------------------------------------------------------------------------------
(* The passes.                                                              *)

\* A gate that nobody holds, that another operation holds, that a pass begins.
LEMMA Gates ==
    /\ Nobody \in Gate /\ Nobody.head = 0 /\ Nobody.edits = 0
    /\ \A at \in {"prompt", "begun"} : /\ Pass(at) \in Gate
                                       /\ Pass(at).head = 0 /\ Pass(at).edits = 0
    /\ [Nobody EXCEPT !.by = "other"] \in Gate
    /\ [Nobody EXCEPT !.by = "other"].head = 0 /\ [Nobody EXCEPT !.by = "other"].edits = 0
<1>1. 0 \in 0..MaxWrites /\ 0 \in 0..MaxEdits
  BY Bounds
<1>2. Nobody \in Gate /\ Nobody.head = 0 /\ Nobody.edits = 0
  BY <1>1 DEF Nobody, Gate
<1>3. QED
  BY <1>2 DEF Pass, Gate

\* Every way a pass begins, goes on or ends, and every way an edit is excused.
LEMMA PassSteps ==
    ASSUME [Next]_vars
    PROVE  \/ \E s \in Sockets : Hint(s)
           \/ Write
           \/ Walk \/ EndPass \/ Prompted \/ OtherEnds \/ PassFails \/ Settle
           \/ Edit \/ Switch \/ Press \/ OtherBegins
           \/ UNCHANGED <<head, gate, watcher, known, excused>>
BY Steps DEF Run, Unlisten, StopResolves, Drop, Stop, Connected, Subscribed, AttemptFails,
   Teardown, Notified, FanOut, FanOutFails, Verify, Opened, Accepted, Refused, Closed,
   AuthTimesOut, Break, Connect, Refreshed, Expire, LoseRefresh, UnlockFromScreen, Lock,
   Resume, vars, deviceSide

LEMMA PassTypes == HintsTyped /\ PassTyped /\ [Next]_vars => PassTyped'
<1> SUFFICES ASSUME HintsTyped, PassTyped, [Next]_vars PROVE PassTyped'
  OBVIOUS
<1>0. /\ MaxWrites \in Nat /\ MaxEdits \in Nat /\ head \in 0..MaxWrites
      /\ gate \in Gate /\ gate.head \in 0..MaxWrites /\ gate.edits \in 0..MaxEdits
      /\ watcher \in Watcher /\ watcher.edits \in 0..MaxEdits
      /\ known \in [head : 0..MaxWrites, edits : 0..MaxEdits] /\ excused \in 0..MaxEdits
      /\ gate.head <= head /\ known.head <= head
      /\ gate.edits <= watcher.edits /\ known.edits <= watcher.edits
  BY Bounds DEF PassTyped, HintsTyped, Gate, Watcher
<1>1. ASSUME NEW s \in Sockets, Hint(s) PROVE PassTyped'
  <2>1. \/ gate' = gate
        \/ gate' \in Gate /\ gate'.head = 0 /\ gate'.edits = 0
    BY <1>1, Gates DEF Hint, Unattended
  <2>2. UNCHANGED <<head, watcher, known, excused>>
    BY <1>1 DEF Hint
  <2>3. QED
    BY <1>0, <2>1, <2>2 DEF PassTyped
<1>2. ASSUME Write PROVE PassTyped'
  BY <1>0, <1>2 DEF Write, deviceSide, PassTyped
<1>3. ASSUME Walk PROVE PassTyped'
  <2>1. gate' \in Gate /\ gate'.head = head /\ gate'.edits = watcher.edits
    BY <1>0, <1>3 DEF Walk, Gate
  <2>2. UNCHANGED <<head, watcher, known, excused>>
    BY <1>3 DEF Walk
  <2>3. QED
    BY <1>0, <2>1, <2>2 DEF PassTyped
<1>4. ASSUME EndPass PROVE PassTyped'
  <2>1. /\ gate' \in Gate /\ gate'.head = 0 /\ gate'.edits = 0
        /\ known' = [head |-> gate.head, edits |-> gate.edits] /\ head' = head
    BY <1>4, Gates DEF EndPass
  <2>2. watcher' \in Watcher /\ watcher'.edits = watcher.edits
    BY <1>0, <1>4 DEF EndPass, Watcher
  <2>3. excused' \in 0..MaxEdits
    BY <1>0, <1>4 DEF EndPass
  <2>4. QED
    BY <1>0, <2>1, <2>2, <2>3 DEF PassTyped
<1>5. ASSUME Prompted \/ OtherEnds \/ Press \/ OtherBegins PROVE PassTyped'
  <2>1. gate' \in Gate /\ gate'.head = 0 /\ gate'.edits = 0
    BY <1>5, Gates DEF Prompted, OtherEnds, Press, OtherBegins
  <2>2. UNCHANGED <<head, watcher, known, excused>>
    BY <1>5 DEF Prompted, OtherEnds, Press, OtherBegins
  <2>3. QED
    BY <1>0, <2>1, <2>2 DEF PassTyped
<1>6. ASSUME PassFails PROVE PassTyped'
  <2>1. gate' \in Gate /\ gate'.head = 0 /\ gate'.edits = 0
    BY <1>6, Gates DEF PassFails
  <2>2. UNCHANGED <<head, watcher, known>> /\ excused' = watcher.edits
    BY <1>6 DEF PassFails
  <2>3. QED
    BY <1>0, <2>1, <2>2 DEF PassTyped
<1>7. ASSUME Settle PROVE PassTyped'
  <2>1. \/ gate' = gate
        \/ gate' \in Gate /\ gate'.head = 0 /\ gate'.edits = 0
    BY <1>7, Gates DEF Settle, Unattended
  <2>2. watcher' \in Watcher /\ watcher'.edits = watcher.edits
    BY <1>0, <1>7 DEF Settle, Watcher
  <2>3. UNCHANGED <<head, known>> /\ excused' \in {excused, watcher.edits}
    BY <1>7 DEF Settle
  <2>4. QED
    BY <1>0, <2>1, <2>2, <2>3 DEF PassTyped
<1>8. ASSUME Edit PROVE PassTyped'
  <2>1. watcher.edits + 1 \in 0..MaxEdits
    BY <1>0, <1>8 DEF Edit
  <2>2. watcher' \in Watcher /\ watcher'.edits = watcher.edits + 1
    BY <1>0, <1>8, <2>1 DEF Edit, Watcher
  <2>3. UNCHANGED <<head, gate, known>> /\ excused' \in {excused, watcher.edits + 1}
    BY <1>8 DEF Edit
  <2>4. QED
    BY <1>0, <2>1, <2>2, <2>3 DEF PassTyped
<1>9. ASSUME Switch PROVE PassTyped'
  <2>1. watcher' \in Watcher /\ watcher'.edits = watcher.edits
    BY <1>0, <1>9 DEF Switch, Watcher
  <2>2. UNCHANGED <<head, gate, known, excused>>
    BY <1>9 DEF Switch, serverSide
  <2>3. QED
    BY <1>0, <2>1, <2>2 DEF PassTyped
<1>10. QED
  BY <1>1, <1>2, <1>3, <1>4, <1>5, <1>6, <1>7, <1>8, <1>9, PassSteps DEF PassTyped

\* The faults and the acts of a person are counted.
LEMMA SpentTypes == SpentTyped /\ [Next]_vars => SpentTyped'
<1> SUFFICES ASSUME SpentTyped, [Next]_vars PROVE SpentTyped'
  OBVIOUS
<1>0. MaxTurns \in Nat
  BY Bounds
<1>1. \/ Turn \/ UNCHANGED spent
      \/ CanTurn /\ spent' = spent + 1
  BY Steps DEF Run, Unlisten, StopResolves, Drop, Stop, Connected, Subscribed, AttemptFails,
     Teardown, Write, Notified, FanOut, FanOutFails, Verify, Opened, Accepted, Refused, Closed,
     Hint, AuthTimesOut, Break, Connect, Refreshed, Expire, LoseRefresh, UnlockFromScreen,
     Lock, Resume, Walk, EndPass, Prompted, OtherEnds, PassFails, Settle, Edit, Switch, Press,
     OtherBegins, vars, deviceSide
<1>2. QED
  BY <1>0, <1>1 DEF Turn, CanTurn, SpentTyped

------------------------------------------------------------------------------
(* The theorems.                                                            *)

LEMMA InitTypes == Init => Typed
<1> SUFFICES ASSUME Init PROVE Typed
  OBVIOUS
<1>0. /\ 1 \in Attempts /\ MaxAttempts > 0 /\ MaxAttempts \in Nat /\ MaxWrites \in Nat
      /\ MaxSockets \in Nat /\ MaxTurns \in Nat /\ MaxEdits \in Nat
  BY Bounds
<1>1. LegTyped
  BY <1>0 DEF Init, LegTyped, Leg, Attempts
<1>2. HintsTyped
  BY <1>0 DEF Init, HintsTyped, Hub, Socket, NoSocket
<1>3. PushTyped
  <2>1. session \in Session
    BY Zenon DEF Init, Session
  <2>2. Silent \in Push /\ Silent.socket = 0
    BY <1>0 DEF Silent, Push
  <2>3. push = [Silent EXCEPT !.on = TRUE, !.timer = TRUE]
    BY DEF Init
  <2>4. push \in Push /\ push.socket = 0
    BY <2>2, <2>3 DEF Push
  <2>5. QED
    BY <2>1, <2>4 DEF PushTyped
<1>4. PassTyped
  <2>1. gate \in Gate /\ gate.head = 0 /\ gate.edits = 0
    BY Gates DEF Init
  <2>2. watcher \in Watcher /\ watcher.edits = 0
    <3>1. 0 \in 0..MaxEdits
      BY <1>0
    <3>2. PICK auto \in BOOLEAN : watcher = [armed |-> FALSE, auto |-> auto, edits |-> 0]
      BY DEF Init
    <3>3. FALSE \in BOOLEAN
      OBVIOUS
    <3>4. watcher \in Watcher
      BY <3>1, <3>2, <3>3, Zenon DEF Watcher
    <3>5. QED
      BY <3>2, <3>4
  <2>3. QED
    BY <1>0, <2>1, <2>2 DEF Init, PassTyped
<1>5. SpentTyped
  BY <1>0 DEF Init, SpentTyped
<1>6. QED
  BY <1>1, <1>2, <1>3, <1>4, <1>5 DEF Typed

LEMMA NextTypes == Typed /\ [Next]_vars => Typed'
BY LegTypes, HintTypes, PushTypes, PassTypes, SpentTypes DEF Typed, PushTyped

LEMMA TypedIsTypeOK == Typed => TypeOK
<1> SUFFICES ASSUME Typed PROVE TypeOK
  OBVIOUS
<1>1. leg \in Leg /\ events \subseteq Attempts \X {"error", "end"}
  BY DEF Typed, LegTyped
<1>2. head \in 0..MaxWrites /\ hub \in Hub /\ \A s \in Sockets : sockets[s] \in Socket
  BY DEF Typed, HintsTyped
<1>3. spent <= MaxTurns
  BY Bounds DEF Typed, SpentTyped
<1>4. QED
  BY <1>1, <1>2, <1>3 DEF Typed, PushTyped, PassTyped, TypeOK

\* The shape of the state: no more hints than writes, an attempt for every
\* generation, a pass that covers no more than there is, and a listener that
\* holds no socket but its own.
THEOREM WakeupTypeCorrect == Spec => []TypeOK
BY InitTypes, NextTypes, TypedIsTypeOK, PTL DEF Spec

LEMMA InitOnes == Init => OneAtATime /\ HeldIsUsed /\ OneSocket
<1> SUFFICES ASSUME Init PROVE OneAtATime /\ HeldIsUsed /\ OneSocket
  OBVIOUS
<1>1. OneAtATime /\ HeldIsUsed
  BY DEF Init, OneAtATime, HeldIsUsed, InFlight, Stopped
<1>2. OneSocket
  BY DEF Init, OneSocket, NoSocket
<1>3. QED
  BY <1>1, <1>2

\* A stop of either leg is complete: when stop of the LISTEN resolves no
\* connection is kept from the pool, nothing is subscribed and no attempt is to
\* come, whatever was in flight when it began; and a listener that was stopped
\* leaves no socket open, as long as no answer outlasts the delay before the
\* next connection: one that does begins a second connection beside the first.
THEOREM StopIsComplete ==
    ASSUME ~LateAnswers
    PROVE  Spec => []NothingOutlivesStop
<1> DEFINE Inv == Typed /\ OneAtATime /\ HeldIsUsed /\ OneSocket
<1>1. Init => Inv
  BY InitTypes, InitOnes
<1>2. Inv /\ [Next]_vars => Inv'
  BY NextTypes, LegKeepsToOne, LegKeepsAccount, ListenerKeepsToOne DEF Typed
<1>3. Inv => NothingOutlivesStop
  <2> SUFFICES ASSUME Inv PROVE NothingOutlivesStop
    OBVIOUS
  <2>1. leg.held \in SUBSET Attempts
    BY LegParts DEF Typed
  <2>2. ASSUME leg.stop = "resolved" PROVE leg.held = {} /\ leg.current = 0 /\ ~leg.retry
    <3>1. leg.current = 0 /\ ~leg.retry /\ \A g \in Attempts : ~InFlight(g)
      BY <2>2 DEF OneAtATime, Stopped
    <3>2. \A g \in leg.held : g \in Attempts /\ leg.at[g] = "listen"
      BY <2>1, <2>2, <3>1, Bounds DEF HeldIsUsed
    <3>3. QED
      BY <3>1, <3>2 DEF InFlight
  <2>3. QED
    BY <2>2 DEF OneSocket, NothingOutlivesStop
<1>4. QED
  BY <1>1, <1>2, <1>3, PTL DEF Spec

------------------------------------------------------------------------------
(* ShareKeys: what opens, in any state.                                     *)

\* Who is in a share that is under way, and that nobody is left in one that is over.
Populations ==
  /\ member[Initiator] # "invited"
  /\ share = "none" => \A u \in Users : member[u] = "none"
  /\ share = "preparing" => \A u \in Users \ {Initiator} : member[u] = "none"
  /\ share \in {"ended", "cancelled"} =>
       \A u \in Users : member[u] \in {"none", "finalizing", "left"}

\* What a tag names opens under the scope of the tag.
TagsOpen ==
  \A s \in Scopes, t \in Texts : tag[s][t] # None => Sealed(s, tag[s][t])

\* A file n of u carries the mark while u is inside, and opens.
FileFits(u, n) ==
  LET home == IF n.marked THEN "KS" ELSE u
  IN  /\ n.marked <=> Inside(u)
      /\ n.key \in Offered(u)
      /\ \A b \in n.kept \cup {n.head} : OpensFor(u, b)
      /\ (~n.marked \/ share = "active") =>
           n.key = home /\ \A b \in n.kept \cup {n.head} : Sealed(home, b)

FilesFit ==
  \A u \in Users, i \in Items : node[u][i] # None => FileFits(u, node[u][i])

OpenInv == KeysTypeOK /\ Populations /\ TagsOpen /\ FilesFit

-----------------------------------------------------------------------------

LEMMA KeysConstants ==
  /\ Initiator \in Users /\ "KS" \notin Users
  /\ Items \subseteq Nat /\ IsFiniteSet(Items)
  /\ Said \in Texts \X Texts /\ Said[1] # Said[2]
  /\ MaxBlobs \in Nat \ {0, 1} /\ MaxOthersWrites \in Nat
  /\ None \notin 1..MaxBlobs /\ None \notin Node /\ None \notin Conversion
BY InitiatorIsAUser, ItemsAreNumbered, TextsWereWritten, KeyBoundsAreNaturals,
   NoneIsApart DEF Blobs

\* A write keeps what opened open.
LEMMA FileStillFits ==
  ASSUME NEW u \in Users, NEW n, FileFits(u, n), UNCHANGED <<share, member>>,
         sealed \subseteq sealed'
  PROVE  FileFits(u, n)'
<1>1. \A s, b : Sealed(s, b) => Sealed(s, b)'
  BY DEF Sealed
<1>2. \A b : OpensFor(u, b) => OpensFor(u, b)'
  BY <1>1 DEF OpensFor, Offered, Inside
<1> QED
  BY <1>1, <1>2 DEF FileFits, Inside, Offered

\* What a device seals or looks up: an address that opens under the scope.
LEMMA StoredOpens ==
  ASSUME KeysTypeOK, TagsOpen, NEW s \in Scopes, NEW t \in Texts,
         NEW w \in Stored(s, t)
  PROVE  /\ w.at \in Blobs /\ w.at \in 1..Len(w.text) /\ <<w.at, s>> \in w.sealed
         /\ sealed \subseteq w.sealed /\ w.sealed \subseteq (1..Len(w.text)) \X Scopes
         /\ w.tag \in [Scopes -> [Texts -> (1..Len(w.text)) \cup {None}]]
         /\ w.text \in Seq(Texts) /\ Len(w.text) <= MaxBlobs
         /\ \A b \in 1..Len(text) : b \in 1..Len(w.text) /\ w.text[b] = text[b]
         /\ \A r \in Scopes, x \in Texts :
              w.tag[r][x] # None => <<w.tag[r][x], r>> \in w.sealed
<1> USE DEF KeysTypeOK, Held, Blobs
<1>1. CASE w = Reused(s, t)
  <2>1. /\ w.at = tag[s][t] /\ w.at # None
        /\ w.sealed = sealed /\ w.tag = tag /\ w.text = text
    BY <1>1 DEF Stored, Reused
  <2>2. w.at \in 1..Len(text) /\ <<w.at, s>> \in sealed
    BY <2>1 DEF TagsOpen, Sealed
  <2>3. MaxBlobs \in Nat
    BY KeysConstants
  <2>4. Len(text) \in Nat
    OBVIOUS
  <2> QED
    BY <2>1, <2>2, <2>3, <2>4 DEF TagsOpen, Sealed
<1>2. CASE w = SealedAnew(s, t)
  <2>1. /\ w.at = Len(text) + 1 /\ w.sealed = sealed \cup {<<w.at, s>>}
        /\ w.tag = [tag EXCEPT ![s][t] = w.at] /\ w.text = Append(text, t)
    BY <1>2 DEF SealedAnew
  <2>2. /\ Len(text) \in Nat /\ w.text \in Seq(Texts) /\ Len(w.text) = Len(text) + 1
        /\ \A b \in 1..Len(text) : w.text[b] = text[b]
    BY <2>1
  <2>3. Len(w.text) <= MaxBlobs
    BY DEF Stored
  <2>4. w.tag \in [Scopes -> [Texts -> (1..Len(w.text)) \cup {None}]]
    BY <2>1, <2>2
  <2>5. \A r \in Scopes, x \in Texts :
          w.tag[r][x] # None => <<w.tag[r][x], r>> \in w.sealed
    BY <2>1 DEF TagsOpen, Sealed
  <2>6. w.sealed \subseteq (1..Len(w.text)) \X Scopes
    BY <2>1, <2>2
  <2>7. MaxBlobs \in Nat
    BY KeysConstants
  <2> QED
    BY <2>1, <2>2, <2>3, <2>4, <2>5, <2>6, <2>7
<1> QED
  BY <1>1, <1>2 DEF Stored
\* Beside the initiator somebody is live in an active share only.
LEMMA OthersMakeItActive ==
  ASSUME OpenInv, NEW u \in Users, Inside(u), NEW v \in Live \ {u}
  PROVE  share = "active" /\ v \in Users /\ Inside(v)
BY KeysConstants DEF OpenInv, Populations, KeysTypeOK, Inside, Live

LEMMA CountedTyped ==
  ASSUME KeysTypeOK, NEW u \in Users, Counted(u)
  PROVE  /\ op' \in [Users -> Conversion \cup {None}]
         /\ writes' \in 0..MaxOthersWrites /\ UNCHANGED <<share, member>>
<1>1. writes' \in 0..MaxOthersWrites /\ UNCHANGED <<share, member>>
  <2>1. writes \in 0..MaxOthersWrites
    BY DEF KeysTypeOK
  <2>2. writes < MaxOthersWrites /\ writes' = writes + 1 /\ UNCHANGED <<share, member>>
    BY DEF Counted
  <2> QED
    BY <2>1, <2>2, KeysConstants
<1>2. op[u] # None /\ op[u].doing = "share" =>
        [op[u] EXCEPT !.calm = FALSE] \in Conversion
  <2> SUFFICES ASSUME op[u] # None, op[u].doing = "share"
               PROVE  [op[u] EXCEPT !.calm = FALSE] \in Conversion
    OBVIOUS
  <2>1. op[u] \in Conversion
    BY DEF KeysTypeOK
  <2> QED
    BY <2>1 DEF Conversion
<1>3. op' = [op EXCEPT ![u] = IF op[u] # None /\ op[u].doing = "share"
                              THEN [op[u] EXCEPT !.calm = FALSE] ELSE op[u]]
  BY DEF Counted
<1> QED
  BY <1>1, <1>2, <1>3 DEF KeysTypeOK

\* What a file of u became reaches the copies of those live, and all of them open.
LEMMA WriteOpen ==
  ASSUME OpenInv, NEW u \in Users, NEW i \in Items, Counted(u),
         sealed \subseteq sealed', sealed' \subseteq (1..Len(text')) \X Scopes,
         tag' \in [Scopes -> [Texts -> (1..Len(text')) \cup {None}]],
         text' \in Seq(Texts), Len(text') <= MaxBlobs, TagsOpen',
         NEW n \in Node, NEW theirs \in [Users -> Node \cup {None}],
         node' = Fanned(u, i, n, theirs), FileFits(u, n)',
         \A v \in Live \ {u} :
           n.marked /\ theirs[v] # None => FileFits(v, theirs[v])'
  PROVE  OpenInv'
<1>1. UNCHANGED <<share, member>> /\ writes' \in 0..MaxOthersWrites
      /\ op' \in [Users -> Conversion \cup {None}]
  BY CountedTyped DEF OpenInv
<1>2. node \in [Users -> [Items -> Node \cup {None}]]
  BY DEF OpenInv, KeysTypeOK
<1>3. node' \in [Users -> [Items -> Node \cup {None}]]
  BY <1>2 DEF Fanned
<1>4. KeysTypeOK'
  BY <1>1, <1>3 DEF OpenInv, KeysTypeOK, Held
<1>5. ASSUME NEW v \in Users, NEW j \in Items, node'[v][j] # None
      PROVE  FileFits(v, node[v][j])'
  <2>1. CASE node'[v][j] = node[v][j]
    <3>1. FileFits(v, node[v][j])
      BY <1>5, <2>1 DEF OpenInv, FilesFit
    <3>2. \A m : FileFits(v, m) => FileFits(v, m)'
      BY <1>1, FileStillFits
    <3> QED
      BY <2>1, <3>1, <3>2 DEF FileFits
  <2>2. CASE v = u /\ j = i
    <3>1. node'[v][j] = n
      BY <1>2, <2>2 DEF Fanned
    <3> QED
      BY <2>2, <3>1 DEF FileFits
  <2>3. CASE v \in Live \ {u} /\ j = i /\ n.marked
    <3>1. node'[v][j] = theirs[v]
      BY <1>2, <2>3 DEF Fanned
    <3> QED
      BY <1>5, <2>3, <3>1 DEF FileFits
  <2> QED
    BY <1>2, <2>1, <2>2, <2>3 DEF Fanned
<1> QED
  BY <1>1, <1>4, <1>5 DEF OpenInv, Populations, FilesFit
\* A file that comes to point at one more address: it opens under the scope of the
\* file or, in a folder that is not shared yet or no more, under one on offer.
LEMMA MovedOnFits ==
  ASSUME NEW v \in Users, NEW old \in Node, NEW new \in Node, NEW b,
         FileFits(v, old), UNCHANGED <<share, member>>, sealed \subseteq sealed',
         new.key = old.key, new.marked = old.marked,
         new.kept \cup {new.head} \subseteq old.kept \cup {old.head, b},
         \/ <<b, IF old.marked THEN "KS" ELSE v>> \in sealed'
         \/ old.marked /\ share # "active" /\ \E s \in {v, "KS"} : <<b, s>> \in sealed'
  PROVE  FileFits(v, new)'
<1>1. FileFits(v, old)'
  BY FileStillFits
<1> QED
  BY <1>1 DEF FileFits, OpensFor, Sealed, Offered, Inside

LEMMA PutTyped ==
  ASSUME NEW old \in Node \cup {None}, NEW b \in Blobs
  PROVE  /\ Put(old, b) \in Node \cup {None}
         /\ old # None => /\ Put(old, b) \in Node
                          /\ Put(old, b).key = old.key
                          /\ Put(old, b).marked = old.marked
                          /\ Put(old, b).kept \cup {Put(old, b).head}
                               \subseteq old.kept \cup {old.head, b}
         /\ old # None /\ old.live => Put(old, b).head = b
BY DEF Put, Node

\* What a write may call the scope of its name, and what it has to bring.
LEMMA AcceptedFits ==
  ASSUME OpenInv, NEW u \in Users, NEW s \in Believed(u),
         UNCHANGED <<share, member>>, NEW n \in Node, n.key = s, n.kept = {n.head},
         <<n.head, s>> \in sealed', NEW tags,
         MarkAccepted(u, n), NameAccepted(u, n),
         MaterialAccepted(u, n, sealed', tags)
  PROVE  FileFits(u, n)'
<1>1. share \in {"none", "preparing", "active", "cancelled", "ended"}
  BY DEF OpenInv, KeysTypeOK
<1>2. n.marked <=> Inside(u)'
  BY DEF MarkAccepted, Inside
<1>3. CASE ~n.marked
  <2>1. n.key = u
    BY <1>3 DEF NameAccepted
  <2>2. <<n.head, u>> \in sealed'
    BY <1>3 DEF MaterialAccepted
  <2> QED
    BY <1>2, <1>3, <2>1, <2>2 DEF FileFits, OpensFor, Sealed, Offered
<1>4. CASE n.marked /\ share = "active"
  <2>1. n.key = "KS" /\ <<n.head, "KS">> \in sealed'
    BY <1>4 DEF NameAccepted, MaterialAccepted
  <2> QED
    BY <1>2, <1>4, <2>1 DEF FileFits, OpensFor, Sealed, Offered
<1>5. CASE n.marked /\ share # "active"
  <2>1. n.key \in {u, "KS"}
    BY <1>1, <1>5 DEF NameAccepted
  <2> QED
    BY <1>2, <1>5, <2>1 DEF FileFits, OpensFor, Sealed, Offered
<1> QED
  BY <1>3, <1>4, <1>5

LEMMA CreateOpen ==
  ASSUME OpenInv, NEW u \in Users, NEW i \in Items, NEW t \in Texts,
         NEW s \in Scopes, CreateNode(u, i, t, s)
  PROVE  OpenInv'
<1>1. PICK w \in Stored(s, t) :
        \E n \in [live : {TRUE}, marked : BOOLEAN, key : {s}, head : {w.at}, kept : {{w.at}}] :
          /\ MarkAccepted(u, n) /\ NameAccepted(u, n)
          /\ MaterialAccepted(u, n, w.sealed, w.tag)
          /\ node' = Fanned(u, i, n, [v \in Users |-> n])
          /\ sealed' = w.sealed /\ tag' = w.tag /\ text' = w.text
  BY DEF CreateNode
<1>2. PICK n \in [live : {TRUE}, marked : BOOLEAN, key : {s}, head : {w.at}, kept : {{w.at}}] :
          /\ MarkAccepted(u, n) /\ NameAccepted(u, n)
          /\ MaterialAccepted(u, n, w.sealed, w.tag)
          /\ node' = Fanned(u, i, n, [v \in Users |-> n])
          /\ sealed' = w.sealed /\ tag' = w.tag /\ text' = w.text
  BY <1>1
<1>3. Counted(u) /\ s \in Believed(u) /\ UNCHANGED <<share, member>>
  BY DEF CreateNode, Counted
<1>4. /\ w.at \in Blobs /\ <<w.at, s>> \in sealed'
      /\ sealed \subseteq sealed' /\ sealed' \subseteq (1..Len(text')) \X Scopes
      /\ tag' \in [Scopes -> [Texts -> (1..Len(text')) \cup {None}]]
      /\ text' \in Seq(Texts) /\ Len(text') <= MaxBlobs /\ TagsOpen'
  BY <1>2, StoredOpens DEF OpenInv, TagsOpen, Sealed
<1>5. n \in Node /\ n.key = s /\ n.head = w.at /\ n.kept = {n.head}
  BY <1>2, <1>4 DEF Node
<1>6. FileFits(u, n)'
  BY <1>2, <1>3, <1>4, <1>5, AcceptedFits
<1>7. ASSUME NEW v \in Live \ {u}, n.marked
      PROVE  FileFits(v, n)'
  <2>1. Inside(u)
    BY <1>2, <1>7 DEF MarkAccepted
  <2>2. share = "active" /\ v \in Users /\ Inside(v)
    BY <2>1, OthersMakeItActive
  <2>3. share' = "active" /\ Inside(v)'
    BY <1>3, <2>2 DEF Inside
  <2> QED
    BY <1>6, <1>7, <2>2, <2>3 DEF FileFits, Offered, OpensFor
<1> DEFINE theirs == [v \in Users |-> n]
<1>8. theirs \in [Users -> Node \cup {None}] /\ \A v \in Users : theirs[v] = n
  BY <1>5
<1>9. \A v \in Live \ {u} : n.marked /\ theirs[v] # None => FileFits(v, theirs[v])'
  BY <1>7, <1>8 DEF Live
<1> QED
  BY <1>2, <1>3, <1>4, <1>5, <1>6, <1>8, <1>9, WriteOpen
\* The copies that a write of u reaches: what becomes of them opens if the write
\* brought the envelope the share asks for.
LEMMA ReachedFit ==
  ASSUME OpenInv, NEW u \in Users, NEW i \in Items, NEW n \in Node,
         node[u][i] \in Node, FileFits(u, node[u][i]), n.marked = node[u][i].marked,
         UNCHANGED <<share, member>>, sealed \subseteq sealed',
         NEW b, NEW theirs \in [Users -> Node \cup {None}],
         n.marked /\ share = "active" => <<b, "KS">> \in sealed',
         \A v \in Users : theirs[v] # None =>
           /\ node[v][i] # None
           /\ theirs[v].key = node[v][i].key /\ theirs[v].marked = node[v][i].marked
           /\ theirs[v].kept \cup {theirs[v].head}
                \subseteq node[v][i].kept \cup {node[v][i].head, b},
         NEW v \in Live \ {u}, n.marked, theirs[v] # None
  PROVE  FileFits(v, theirs[v])'
<1>1. Inside(u)
  BY DEF FileFits
<1>2. share = "active" /\ v \in Users /\ Inside(v)
  BY <1>1, OthersMakeItActive
<1>3. node[v][i] \in Node /\ FileFits(v, node[v][i])
  BY <1>2 DEF OpenInv, KeysTypeOK, FilesFit
<1>4. node[v][i].marked /\ <<b, "KS">> \in sealed'
  BY <1>2, <1>3 DEF FileFits
<1> DEFINE old == node[v][i]
           new == theirs[v]
<1>5. /\ new \in Node /\ new.key = old.key /\ new.marked = old.marked
      /\ new.kept \cup {new.head} \subseteq old.kept \cup {old.head, b}
      /\ <<b, IF old.marked THEN "KS" ELSE v>> \in sealed'
  BY <1>2, <1>4
<1>6. \A m : m = new => FileFits(v, m)'
  <2> HIDE DEF old, new
  <2> QED
    BY <1>2, <1>3, <1>5, MovedOnFits DEF old
<1>7. theirs[v]' = theirs[v]
  OBVIOUS
<1> QED
  BY <1>6 DEF FileFits

LEMMA PutContentOpen ==
  ASSUME OpenInv, NEW u \in Users, NEW i \in Items, NEW t \in Texts,
         NEW s \in Scopes, PutContent(u, i, t, s)
  PROVE  OpenInv'
<1>1. PICK w \in Stored(s, t) :
        /\ MaterialAccepted(u, Put(node[u][i], w.at), w.sealed, w.tag)
        /\ node' = Fanned(u, i, Put(node[u][i], w.at),
                               [v \in Users |-> Put(node[v][i], w.at)])
        /\ sealed' = w.sealed /\ tag' = w.tag /\ text' = w.text
  BY DEF PutContent
<1>2. /\ Counted(u) /\ s \in Believed(u) /\ UNCHANGED <<share, member>>
      /\ node[u][i] # None /\ node[u][i].live
  BY DEF PutContent, Counted
<1>3. /\ w.at \in Blobs /\ <<w.at, s>> \in sealed'
      /\ sealed \subseteq sealed' /\ sealed' \subseteq (1..Len(text')) \X Scopes
      /\ tag' \in [Scopes -> [Texts -> (1..Len(text')) \cup {None}]]
      /\ text' \in Seq(Texts) /\ Len(text') <= MaxBlobs /\ TagsOpen'
  BY <1>1, StoredOpens DEF OpenInv, TagsOpen, Sealed
<1>4. \A v \in Users : node[v][i] \in Node \cup {None}
  BY DEF OpenInv, KeysTypeOK
<1>5. FileFits(u, node[u][i])
  BY <1>2 DEF OpenInv, FilesFit
<1>6. PICK n : n = Put(node[u][i], w.at)
  OBVIOUS
<1>7. PICK theirs : theirs = [v \in Users |-> Put(node[v][i], w.at)]
  OBVIOUS
<1>8. /\ n \in Node /\ n.head = w.at
      /\ n.key = node[u][i].key /\ n.marked = node[u][i].marked
      /\ n.kept \cup {n.head} \subseteq node[u][i].kept \cup {node[u][i].head, w.at}
  BY <1>2, <1>3, <1>4, <1>6, PutTyped
<1>9. /\ ~n.marked => <<w.at, u>> \in sealed'
      /\ n.marked /\ share = "active" => <<w.at, "KS">> \in sealed'
  BY <1>1, <1>6, <1>8 DEF MaterialAccepted
<1>10. FileFits(u, n)'
  <2>1. \/ <<w.at, IF node[u][i].marked THEN "KS" ELSE u>> \in sealed'
        \/ node[u][i].marked /\ share # "active"
           /\ \E r \in {u, "KS"} : <<w.at, r>> \in sealed'
    BY <1>2, <1>3, <1>8, <1>9 DEF Believed
  <2>2. node[u][i] \in Node
    BY <1>2, <1>4
  <2> QED
    BY <1>2, <1>3, <1>5, <1>8, <2>1, <2>2, MovedOnFits
<1>11. \A v \in Users : theirs[v] = Put(node[v][i], w.at)
  BY <1>7
<1>12. /\ theirs \in [Users -> Node \cup {None}]
       /\ \A v \in Users : theirs[v] # None =>
           /\ node[v][i] # None
           /\ theirs[v].key = node[v][i].key /\ theirs[v].marked = node[v][i].marked
           /\ theirs[v].kept \cup {theirs[v].head}
                \subseteq node[v][i].kept \cup {node[v][i].head, w.at}
  <2>1. \A v \in Users : theirs[v] \in Node \cup {None}
    BY <1>3, <1>4, <1>11, PutTyped
  <2>2. \A v \in Users : node[v][i] = None => theirs[v] = None
    BY <1>11 DEF Put
  <2>3. ASSUME NEW v \in Users, theirs[v] # None
        PROVE  /\ node[v][i] # None
               /\ theirs[v].key = node[v][i].key /\ theirs[v].marked = node[v][i].marked
               /\ theirs[v].kept \cup {theirs[v].head}
                    \subseteq node[v][i].kept \cup {node[v][i].head, w.at}
    <3>1. node[v][i] # None
      BY <2>2, <2>3
    <3> QED
      BY <1>3, <1>4, <1>11, <3>1, PutTyped
  <2> QED
    BY <1>7, <2>1, <2>3
<1>13. ASSUME NEW v \in Live \ {u}, n.marked, theirs[v] # None
       PROVE  FileFits(v, theirs[v])'
  BY <1>2, <1>3, <1>4, <1>5, <1>8, <1>9, <1>12, <1>13, ReachedFit
<1> QED
  BY <1>1, <1>2, <1>3, <1>6, <1>7, <1>8, <1>10, <1>12, <1>13, WriteOpen
LEMMA DeleteOpen ==
  ASSUME OpenInv, NEW u \in Users, NEW i \in Items, DeleteNode(u, i)
  PROVE  OpenInv'
<1>1. /\ node' = Fanned(u, i, Trashed(node[u][i]),
                             [v \in Users |-> Trashed(node[v][i])])
      /\ UNCHANGED <<sealed, tag, text>> /\ Counted(u) /\ UNCHANGED <<share, member>>
      /\ node[u][i] # None
  BY DEF DeleteNode, Counted
<1>2. /\ sealed \subseteq sealed' /\ sealed' \subseteq (1..Len(text')) \X Scopes
      /\ tag' \in [Scopes -> [Texts -> (1..Len(text')) \cup {None}]]
      /\ text' \in Seq(Texts) /\ Len(text') <= MaxBlobs /\ TagsOpen'
  BY <1>1 DEF OpenInv, TagsOpen, Sealed, KeysTypeOK, Held
<1>3. \A v \in Users : node[v][i] \in Node \cup {None}
  BY DEF OpenInv, KeysTypeOK
<1>4. node[u][i] \in Node /\ FileFits(u, node[u][i])
  BY <1>1, <1>3 DEF OpenInv, FilesFit
<1>5. PICK n : n = Trashed(node[u][i])
  OBVIOUS
<1>6. PICK theirs : theirs = [v \in Users |-> Trashed(node[v][i])]
  OBVIOUS
<1>7. PICK b : b = node[u][i].head
  OBVIOUS
<1>8. /\ n \in Node /\ n.key = node[u][i].key /\ n.marked = node[u][i].marked
      /\ n.kept \cup {n.head} \subseteq node[u][i].kept \cup {node[u][i].head, b}
  BY <1>4, <1>5, <1>1 DEF Trashed, Node
<1>9. /\ theirs \in [Users -> Node \cup {None}]
      /\ \A v \in Users : theirs[v] # None =>
           /\ node[v][i] # None
           /\ theirs[v].key = node[v][i].key /\ theirs[v].marked = node[v][i].marked
           /\ theirs[v].kept \cup {theirs[v].head}
                \subseteq node[v][i].kept \cup {node[v][i].head, b}
  BY <1>3, <1>6 DEF Trashed, Node
<1>10. n.marked /\ share = "active" => <<b, "KS">> \in sealed'
  BY <1>1, <1>4, <1>7, <1>8 DEF FileFits, Sealed
<1>11. FileFits(u, n)'
  <2>1. \/ <<b, IF node[u][i].marked THEN "KS" ELSE u>> \in sealed'
        \/ node[u][i].marked /\ share # "active"
           /\ \E r \in {u, "KS"} : <<b, r>> \in sealed'
    BY <1>1, <1>4, <1>7 DEF FileFits, Sealed, OpensFor, Offered
  <2> QED
    BY <1>1, <1>2, <1>4, <1>8, <2>1, MovedOnFits
<1>12. ASSUME NEW v \in Live \ {u}, n.marked, theirs[v] # None
       PROVE  FileFits(v, theirs[v])'
  BY <1>1, <1>2, <1>4, <1>8, <1>9, <1>10, <1>12, ReachedFit
<1> QED
  BY <1>1, <1>2, <1>5, <1>6, <1>8, <1>9, <1>11, <1>12, WriteOpen

LEMMA RestoredTyped ==
  ASSUME NEW old \in Node \cup {None}, NEW b \in Blobs
  PROVE  /\ Restored(old, b) \in Node \cup {None}
         /\ old = None => Restored(old, b) = None
         /\ old # None => /\ Restored(old, b) \in Node
                          /\ Restored(old, b).key = old.key
                          /\ Restored(old, b).live
                          /\ Restored(old, b).marked = old.marked
                          /\ Restored(old, b).head = b
                          /\ Restored(old, b).kept \cup {Restored(old, b).head}
                               \subseteq old.kept \cup {old.head, b}
<1>1. CASE old = None
  BY <1>1 DEF Restored
<1>2. CASE old # None
  <2>1. old \in Node
    BY <1>2
  <2>2. PICK up : up = [old EXCEPT !.live = TRUE]
    OBVIOUS
  <2>3. up \in Node /\ up.live /\ up.key = old.key /\ up.marked = old.marked
        /\ up.kept = old.kept /\ up.head = old.head
    BY <2>1, <2>2 DEF Node
  <2>4. Restored(old, b) = IF up = None \/ ~up.live THEN up
                                ELSE [up EXCEPT !.head = b, !.kept = up.kept \cup {b}]
    BY <1>2, <2>2 DEF Restored, Put
  <2>5. Restored(old, b) = [up EXCEPT !.head = b, !.kept = up.kept \cup {b}]
    BY <2>3, <2>4, KeysConstants
  <2>6. PICK put : put = [up EXCEPT !.head = b, !.kept = up.kept \cup {b}]
    OBVIOUS
  <2>7. put \in Node /\ put.live /\ put.key = up.key /\ put.marked = up.marked
    BY <2>3, <2>6 DEF Node
  <2>8. put.head = b /\ put.kept = up.kept \cup {b}
    BY <2>3, <2>6 DEF Node
  <2> QED
    BY <1>2, <2>3, <2>5, <2>6, <2>7, <2>8
<1> QED
  BY <1>1, <1>2

LEMMA RestoreOpen ==
  ASSUME OpenInv, NEW u \in Users, NEW i \in Items, NEW b \in Blobs,
         RestoreNode(u, i, b)
  PROVE  OpenInv'
<1>1. /\ node' = Fanned(u, i, Restored(node[u][i], b),
                             [v \in Users |-> Restored(node[v][i], b)])
      /\ UNCHANGED <<sealed, tag, text>> /\ Counted(u) /\ UNCHANGED <<share, member>>
      /\ node[u][i] # None /\ b \in node[u][i].kept
      /\ MaterialAccepted(u, Restored(node[u][i], b), sealed, tag)
  BY DEF RestoreNode, Counted
<1>2. /\ sealed \subseteq sealed' /\ sealed' \subseteq (1..Len(text')) \X Scopes
      /\ tag' \in [Scopes -> [Texts -> (1..Len(text')) \cup {None}]]
      /\ text' \in Seq(Texts) /\ Len(text') <= MaxBlobs /\ TagsOpen'
  BY <1>1 DEF OpenInv, TagsOpen, Sealed, KeysTypeOK, Held
<1>3. \A v \in Users : node[v][i] \in Node \cup {None}
  BY DEF OpenInv, KeysTypeOK
<1>4. node[u][i] \in Node /\ FileFits(u, node[u][i])
  BY <1>1, <1>3 DEF OpenInv, FilesFit
<1>5. PICK n : n = Restored(node[u][i], b)
  OBVIOUS
<1>6. PICK theirs : theirs = [v \in Users |-> Restored(node[v][i], b)]
  OBVIOUS
<1>7. /\ n \in Node /\ n.key = node[u][i].key /\ n.marked = node[u][i].marked
      /\ n.head = b
      /\ n.kept \cup {n.head} \subseteq node[u][i].kept \cup {node[u][i].head, b}
  BY <1>4, <1>5, <1>1, RestoredTyped
<1>8. \A v \in Users : theirs[v] = Restored(node[v][i], b)
  BY <1>6
<1>9. /\ theirs \in [Users -> Node \cup {None}]
      /\ \A v \in Users : theirs[v] # None =>
           /\ node[v][i] # None
           /\ theirs[v].key = node[v][i].key /\ theirs[v].marked = node[v][i].marked
           /\ theirs[v].kept \cup {theirs[v].head}
                \subseteq node[v][i].kept \cup {node[v][i].head, b}
  BY <1>3, <1>6, <1>8, RestoredTyped
<1>10. /\ ~n.marked => <<b, u>> \in sealed'
       /\ n.marked /\ share = "active" => <<b, "KS">> \in sealed'
  BY <1>1, <1>5, <1>7 DEF MaterialAccepted
<1>11. FileFits(u, n)'
  <2>1. \/ <<b, IF node[u][i].marked THEN "KS" ELSE u>> \in sealed'
        \/ node[u][i].marked /\ share # "active"
           /\ \E r \in {u, "KS"} : <<b, r>> \in sealed'
    BY <1>1, <1>4 DEF FileFits, Sealed, OpensFor, Offered
  <2> QED
    BY <1>1, <1>2, <1>4, <1>7, <2>1, MovedOnFits
<1>12. ASSUME NEW v \in Live \ {u}, n.marked, theirs[v] # None
       PROVE  FileFits(v, theirs[v])'
  <2>1. n.marked /\ share = "active" => <<b, "KS">> \in sealed'
    BY <1>10
  <2>2. UNCHANGED <<share, member>> /\ sealed \subseteq sealed'
    BY <1>1, <1>2
  <2>3. n \in Node /\ n.marked = node[u][i].marked
    BY <1>7
  <2> QED
    BY <2>1, <2>2, <2>3, <1>4, <1>9, <1>12, ReachedFit
<1> QED
  BY <1>1, <1>2, <1>5, <1>6, <1>7, <1>9, <1>11, <1>12, WriteOpen
\* What opens goes on to while its owner stays inside, or stays outside.
LEMMA FileFitsOn ==
  ASSUME NEW v \in Users, NEW n, FileFits(v, n), sealed \subseteq sealed',
         Inside(v)' <=> Inside(v),
         share' = "active" => share = "active" \/ ~n.marked
  PROVE  FileFits(v, n)'
<1>1. \A s, b : Sealed(s, b) => Sealed(s, b)'
  BY DEF Sealed
<1>2. Offered(v)' = Offered(v)
  BY DEF Offered
<1>3. \A b : OpensFor(v, b) => OpensFor(v, b)'
  BY <1>1, <1>2 DEF OpensFor
<1> QED
  BY <1>1, <1>2, <1>3 DEF FileFits

LEMMA OnlyOpMoves ==
  ASSUME OpenInv, UNCHANGED <<share, member, node, sealed, tag, text, writes>>,
         op' \in [Users -> Conversion \cup {None}]
  PROVE  OpenInv'
<1>1. KeysTypeOK'
  BY DEF OpenInv, KeysTypeOK, Held
<1>2. Populations' /\ TagsOpen'
  BY DEF OpenInv, Populations, TagsOpen, Sealed
<1>3. ASSUME NEW u \in Users, NEW i \in Items, node'[u][i] # None
      PROVE  FileFits(u, node[u][i])'
  <2>1. PICK n : n = node[u][i]
    OBVIOUS
  <2>2. FileFits(u, n)
    BY <1>3, <2>1 DEF OpenInv, FilesFit
  <2>3. FileFits(u, n)'
    BY <2>2, FileFitsOn DEF Inside
  <2> QED
    BY <2>1, <2>3 DEF FileFits
<1> QED
  BY <1>1, <1>2, <1>3 DEF OpenInv, FilesFit

LEMMA BeginSharingOpen ==
  ASSUME OpenInv, BeginSharing
  PROVE  OpenInv'
<1>1. PICK walk : walk = [i \in Items |->
        LET n == node[Initiator][i] IN IF n = None \/ ~n.live THEN None ELSE n.head]
  OBVIOUS
<1>2. node[Initiator] \in [Items -> Node \cup {None}]
  BY KeysConstants DEF OpenInv, KeysTypeOK
<1>3. walk \in [Items -> Blobs \cup {None}]
  BY <1>1, <1>2 DEF Node
<1>4. PICK c : c = [doing |-> "share", step |-> "create", calm |-> TRUE, todo |-> {},
                    owed |-> [i \in Items |-> {}], walk |-> walk]
  OBVIOUS
<1>5. c \in Conversion
  BY <1>3, <1>4 DEF Conversion
<1>6. op' = [op EXCEPT ![Initiator] = c]
  BY <1>1, <1>4 DEF BeginSharing
<1>7. op' \in [Users -> Conversion \cup {None}]
  BY <1>5, <1>6 DEF OpenInv, KeysTypeOK
<1> QED
  BY <1>7, OnlyOpMoves DEF BeginSharing

LEMMA ShareOpTyped ==
  ASSUME OpenInv, Converts(Initiator, "share")
  PROVE  /\ op[Initiator] \in
              [doing : {"share"}, step : {"create", "owed", "prepare", "activate"},
               walk : [Items -> Blobs \cup {None}], owed : [Items -> SUBSET Blobs],
               todo : SUBSET Items, calm : BOOLEAN]
BY KeysConstants DEF OpenInv, KeysTypeOK, Converts, Conversion

LEMMA AskWhatIsOwedOpen ==
  ASSUME OpenInv, AskWhatIsOwed
  PROVE  OpenInv'
<1>1. Converts(Initiator, "share")
  BY DEF AskWhatIsOwed, AtStep
<1>2. \A i \in Items : node[Initiator][i] \in Node \cup {None}
  BY KeysConstants DEF OpenInv, KeysTypeOK
<1>3. PICK owed : owed = [i \in Items |-> IF i \in Marked(Initiator)
                            THEN HistoryOwed(node[Initiator][i], "KS") ELSE {}]
  OBVIOUS
<1>4. owed \in [Items -> SUBSET Blobs]
  BY <1>2, <1>3 DEF HistoryOwed, Node, Marked
<1>5. PICK todo : todo = {i \in Items : op[Initiator].walk[i] # None}
  OBVIOUS
<1>6. PICK c : c = [op[Initiator] EXCEPT !.step = "prepare", !.todo = todo, !.owed = owed]
  OBVIOUS
<1>7. c \in Conversion
  BY <1>1, <1>4, <1>5, <1>6, ShareOpTyped DEF Conversion
<1>8. op' = [op EXCEPT ![Initiator] = IF share # "preparing" THEN None ELSE c]
  BY <1>3, <1>5, <1>6 DEF AskWhatIsOwed
<1>9. op' \in [Users -> Conversion \cup {None}]
  BY <1>7, <1>8 DEF OpenInv, KeysTypeOK
<1> QED
  BY <1>9, OnlyOpMoves DEF AskWhatIsOwed

LEMMA EndBatchesOpen ==
  ASSUME OpenInv, EndBatches
  PROVE  OpenInv'
<1>1. Converts(Initiator, "share")
  BY DEF EndBatches, AtStep
<1>2. PICK c : c = [op[Initiator] EXCEPT !.step = "activate"]
  OBVIOUS
<1>3. c \in Conversion
  BY <1>1, <1>2, ShareOpTyped DEF Conversion
<1>4. op' = [op EXCEPT ![Initiator] = c]
  BY <1>2 DEF EndBatches
<1>5. op' \in [Users -> Conversion \cup {None}]
  BY <1>3, <1>4 DEF OpenInv, KeysTypeOK
<1> QED
  BY <1>5, OnlyOpMoves DEF EndBatches

LEMMA GiveUpOpen ==
  ASSUME OpenInv, NEW u \in Users, GiveUp(u)
  PROVE  OpenInv'
<1>1. op' \in [Users -> Conversion \cup {None}]
  BY DEF OpenInv, KeysTypeOK, GiveUp
<1> QED
  BY <1>1, OnlyOpMoves DEF GiveUp

LEMMA ListReplicaOpen ==
  ASSUME OpenInv, NEW u \in Users, ListReplica(u)
  PROVE  OpenInv'
<1>1. PICK rows : rows = Listing(u)
  OBVIOUS
<1>2. Marked(u) \subseteq Items
  BY DEF Marked
<1>3. \A i \in Marked(u) : node[u][i] \in Node
  BY DEF OpenInv, KeysTypeOK, Marked
<1>4. rows \in [Marked(u) -> Row]
  BY <1>1, <1>3 DEF Listing, Row, Node, HistoryOwed
<1>5. rows \in UNION {[S -> Row] : S \in SUBSET Items}
  BY <1>2, <1>4
<1>6. PICK c : c = [doing |-> "leave", step |-> "begin", rows |-> rows]
  OBVIOUS
<1>7. c \in Conversion
  BY <1>5, <1>6 DEF Conversion
<1>8. op' = [op EXCEPT ![u] = c]
  BY <1>1, <1>6 DEF ListReplica
<1>9. op' \in [Users -> Conversion \cup {None}]
  BY <1>7, <1>8 DEF OpenInv, KeysTypeOK
<1> QED
  BY <1>9, OnlyOpMoves DEF ListReplica
\* A step at the membership of the share: whoever was inside, or is made so, has
\* files that open.
LEMMA FilesGoOn ==
  ASSUME OpenInv, sealed \subseteq sealed',
         \A u \in Users, i \in Items : node'[u][i] # None =>
           \/ /\ node'[u][i] = node[u][i] /\ (Inside(u)' <=> Inside(u))
              /\ share' = "active" => share = "active" \/ ~node[u][i].marked
           \/ FileFits(u, node[u][i])'
  PROVE  FilesFit'
<1> SUFFICES ASSUME NEW u \in Users, NEW i \in Items, node'[u][i] # None
             PROVE  FileFits(u, node[u][i])'
  BY DEF FilesFit
<1>1. CASE /\ node'[u][i] = node[u][i] /\ (Inside(u)' <=> Inside(u))
           /\ share' = "active" => share = "active" \/ ~node[u][i].marked
  <2>1. PICK n : n = node[u][i]
    OBVIOUS
  <2>2. FileFits(u, n)
    BY <1>1, <2>1 DEF OpenInv, FilesFit
  <2>3. FileFits(u, n)'
    BY <1>1, <2>1, <2>2, FileFitsOn
  <2> QED
    BY <1>1, <2>1, <2>3 DEF FileFits
<1> QED
  BY <1>1

LEMMA CreateShareOpen ==
  ASSUME OpenInv, CreateShare
  PROVE  OpenInv'
<1>1. /\ share = "none" /\ share' = "preparing"
      /\ member' = [member EXCEPT ![Initiator] = "joined"]
      /\ node' = [node EXCEPT ![Initiator] = [i \in Items |->
                   IF node[Initiator][i] = None THEN None
                   ELSE [node[Initiator][i] EXCEPT !.marked = TRUE]]]
      /\ op' = [op EXCEPT ![Initiator].step = "owed"]
      /\ UNCHANGED <<sealed, tag, text, writes>>
      /\ Converts(Initiator, "share")
  BY DEF CreateShare, AtStep
<1>2. /\ node \in [Users -> [Items -> Node \cup {None}]]
      /\ member \in [Users -> {"none", "invited", "joined", "finalizing", "left"}]
      /\ \A u \in Users : member[u] = "none"
  BY <1>1 DEF OpenInv, KeysTypeOK, Populations
<1>3. node' \in [Users -> [Items -> Node \cup {None}]]
  <2>1. \A m \in Node : [m EXCEPT !.marked = TRUE] \in Node
    BY DEF Node
  <2>2. PICK g : g = [i \in Items |-> IF node[Initiator][i] = None THEN None
                                 ELSE [node[Initiator][i] EXCEPT !.marked = TRUE]]
    OBVIOUS
  <2>3. node[Initiator] \in [Items -> Node \cup {None}]
    BY <1>2, KeysConstants
  <2>4. g \in [Items -> Node \cup {None}]
    BY <2>1, <2>2, <2>3
  <2>5. node' = [node EXCEPT ![Initiator] = g]
    BY <1>1, <2>2
  <2> QED
    BY <1>2, <2>4, <2>5
<1>4. op' \in [Users -> Conversion \cup {None}]
  <2>1. [op[Initiator] EXCEPT !.step = "owed"] \in Conversion
    BY <1>1, ShareOpTyped DEF Conversion
  <2> QED
    BY <1>1, <2>1 DEF OpenInv, KeysTypeOK
<1>5. member' \in [Users -> {"none", "invited", "joined", "finalizing", "left"}]
      /\ member'[Initiator] = "joined"
  BY <1>1, <1>2, KeysConstants
<1>6. KeysTypeOK'
  BY <1>1, <1>3, <1>4, <1>5 DEF OpenInv, KeysTypeOK, Held
<1>7. Populations'
  BY <1>1, <1>2, <1>5 DEF Populations
<1>8. TagsOpen'
  BY <1>1 DEF OpenInv, TagsOpen, Sealed
<1>9. ASSUME NEW u \in Users, NEW i \in Items, node'[u][i] # None
      PROVE  \/ /\ node'[u][i] = node[u][i] /\ (Inside(u)' <=> Inside(u))
                /\ share' = "active" => share = "active" \/ ~node[u][i].marked
             \/ FileFits(u, node[u][i])'
  <2>1. CASE u # Initiator
    BY <1>1, <1>2, <2>1 DEF Inside
  <2>2. CASE u = Initiator
    <3>1. node[u][i] # None /\ node[u][i] \in Node
          /\ node'[u][i] = [node[u][i] EXCEPT !.marked = TRUE]
      BY <1>1, <1>2, <1>9, <2>2
    <3>2. FileFits(u, node[u][i]) /\ ~Inside(u)
      BY <1>2, <3>1 DEF OpenInv, FilesFit, Inside
    <3>3. node[u][i].key = u /\ \A b \in node[u][i].kept \cup {node[u][i].head} :
                                  <<b, u>> \in sealed
      BY <3>2 DEF FileFits, Sealed
    <3>4. /\ node'[u][i].marked /\ node'[u][i].key = u
          /\ \A b \in node'[u][i].kept \cup {node'[u][i].head} : <<b, u>> \in sealed'
      BY <1>1, <3>1, <3>3 DEF Node
    <3>5. Inside(u)'
      BY <1>5, <2>2 DEF Inside
    <3> QED
      BY <1>1, <3>4, <3>5 DEF FileFits, Offered, OpensFor, Sealed
  <2> QED
    BY <2>1, <2>2
<1>10. FilesFit'
  BY <1>1, <1>9, FilesGoOn
<1> QED
  BY <1>6, <1>7, <1>8, <1>10 DEF OpenInv
LEMMA PrepareBatchOpen ==
  ASSUME OpenInv, NEW i \in Items, PrepareBatch(i)
  PROVE  OpenInv'
<1>1. CASE BatchRefused(i)
  <2>1. UNCHANGED <<share, member, node, sealed, tag, text, writes>>
        /\ op' = [op EXCEPT ![Initiator] = None]
    BY <1>1 DEF PrepareBatch
  <2>2. op' \in [Users -> Conversion \cup {None}]
    BY <2>1 DEF OpenInv, KeysTypeOK
  <2> QED
    BY <2>1, <2>2, OnlyOpMoves
<1>2. CASE ~BatchRefused(i)
  <2> DEFINE o == op[Initiator]
             given == Addresses(o.walk[i], o.owed[i])
  <2>1. /\ Converts(Initiator, "share") /\ i \in o.todo
        /\ node' = [node EXCEPT ![Initiator][i].key = "KS"]
        /\ sealed' = sealed \cup Moved(given, Initiator, "KS")
        /\ tag' = [tag EXCEPT !["KS"][text[o.walk[i]]] = o.walk[i]]
        /\ op' = [op EXCEPT ![Initiator].todo = o.todo \ {i}]
        /\ UNCHANGED <<share, member, text, writes>>
    BY <1>2 DEF PrepareBatch, AtStep, OnDisk
  <2>2. /\ share = "preparing" /\ node[Initiator][i] # None
        /\ \A b \in given : Sealed(Initiator, b)
    BY <1>2 DEF BatchRefused
  <2>3. /\ \A v \in Users : node[v] \in [Items -> Node \cup {None}]
        /\ node \in [Users -> [Items -> Node \cup {None}]]
        /\ sealed \subseteq (1..Len(text)) \X Scopes
        /\ tag \in [Scopes -> [Texts -> (1..Len(text)) \cup {None}]]
    BY DEF OpenInv, KeysTypeOK, Held
  <2>4. node[Initiator][i] \in Node
    BY <2>2, <2>3, KeysConstants
  <2>5. PICK m : m = [node[Initiator][i] EXCEPT !.key = "KS"]
    OBVIOUS
  <2>6. /\ m \in Node /\ m.key = "KS" /\ m.marked = node[Initiator][i].marked
        /\ m.kept = node[Initiator][i].kept /\ m.head = node[Initiator][i].head
    BY <2>4, <2>5 DEF Node, Scopes
  <2>7. /\ node' \in [Users -> [Items -> Node \cup {None}]]
        /\ node'[Initiator][i] = m
        /\ \A v \in Users, j \in Items :
             v # Initiator \/ j # i => node'[v][j] = node[v][j]
    BY <2>1, <2>3, <2>5, <2>6, KeysConstants
  <2>8. /\ sealed \subseteq sealed' /\ sealed' \subseteq (1..Len(text')) \X Scopes
        /\ \A b \in given : <<b, "KS">> \in sealed' /\ b \in 1..Len(text)
    <3>1. \A b \in given : b \in 1..Len(text)
      BY <2>2, <2>3 DEF Sealed
    <3>2. Moved(given, Initiator, "KS") \subseteq (1..Len(text)) \X Scopes
      BY <3>1 DEF Moved, Scopes
    <3>3. \A b \in given : <<b, "KS">> \in Moved(given, Initiator, "KS")
      BY <2>2 DEF Moved
    <3> HIDE DEF given
    <3> QED
      BY <2>1, <2>3, <3>1, <3>2, <3>3
  <2>9. o.walk[i] # None => o.walk[i] \in 1..Len(text) /\ <<o.walk[i], "KS">> \in sealed'
    BY <2>8 DEF Addresses
  <2>10. tag' \in [Scopes -> [Texts -> (1..Len(text')) \cup {None}]]
    BY <2>1, <2>3, <2>9
  <2>11. TagsOpen'
    BY <2>1, <2>3, <2>8, <2>9 DEF OpenInv, TagsOpen, Sealed
  <2>12. op' \in [Users -> Conversion \cup {None}]
    <3>1. [o EXCEPT !.todo = o.todo \ {i}] \in Conversion
      BY <2>1, ShareOpTyped DEF Conversion
    <3> QED
      BY <2>1, <3>1 DEF OpenInv, KeysTypeOK
  <2>13. KeysTypeOK'
    BY <2>1, <2>7, <2>8, <2>10, <2>12 DEF OpenInv, KeysTypeOK, Held
  <2>14. Populations'
    BY <2>1 DEF OpenInv, Populations
  <2>15. FileFits(Initiator, m)'
    <3>1. FileFits(Initiator, node[Initiator][i]) /\ Inside(Initiator)
      BY <2>2, KeysConstants DEF OpenInv, FilesFit, KeysTypeOK, Inside
    <3>2. PICK old : old = node[Initiator][i]
      OBVIOUS
    <3>3. FileFits(Initiator, old)'
      BY <2>1, <2>8, <3>1, <3>2, FileFitsOn, KeysConstants DEF Inside
    <3> QED
      BY <2>1, <2>2, <2>6, <3>1, <3>2, <3>3 DEF FileFits, Offered, Inside
  <2>16. ASSUME NEW v \in Users, NEW j \in Items, node'[v][j] # None
         PROVE  \/ /\ node'[v][j] = node[v][j] /\ (Inside(v)' <=> Inside(v))
                   /\ share' = "active" => share = "active" \/ ~node[v][j].marked
                \/ FileFits(v, node[v][j])'
    <3>1. CASE v # Initiator \/ j # i
      BY <2>1, <2>7, <3>1 DEF Inside
    <3>2. CASE v = Initiator /\ j = i
      BY <2>7, <2>15, <3>2 DEF FileFits
    <3> QED
      BY <3>1, <3>2
  <2>17. FilesFit'
    BY <2>8, <2>16, FilesGoOn
  <2> QED
    BY <2>11, <2>13, <2>14, <2>17 DEF OpenInv
<1> QED
  BY <1>1, <1>2
LEMMA ActivateOpen ==
  ASSUME OpenInv, Activate
  PROVE  OpenInv'
<1>1. /\ share' = IF share = "preparing" /\ ActivationAccepted THEN "active" ELSE share
      /\ op' = [op EXCEPT ![Initiator] = None]
      /\ UNCHANGED <<member, node, sealed, tag, text, writes>>
  BY DEF Activate
<1>2. op' \in [Users -> Conversion \cup {None}]
  BY <1>1 DEF OpenInv, KeysTypeOK
<1>3. CASE ~(share = "preparing" /\ ActivationAccepted)
  BY <1>1, <1>2, <1>3, OnlyOpMoves
<1>4. CASE share = "preparing" /\ ActivationAccepted
  <2>1. KeysTypeOK'
    BY <1>1, <1>2, <1>4 DEF OpenInv, KeysTypeOK, Held
  <2>2. Populations'
    BY <1>1, <1>4 DEF OpenInv, Populations
  <2>3. TagsOpen'
    BY <1>1 DEF OpenInv, TagsOpen, Sealed
  <2>4. ASSUME NEW v \in Users, NEW j \in Items, node'[v][j] # None
        PROVE  \/ /\ node'[v][j] = node[v][j] /\ (Inside(v)' <=> Inside(v))
                  /\ share' = "active" => share = "active" \/ ~node[v][j].marked
               \/ FileFits(v, node[v][j])'
    <3>1. FileFits(v, node[v][j]) /\ (Inside(v)' <=> Inside(v))
      BY <1>1, <2>4 DEF OpenInv, FilesFit, Inside
    <3>2. CASE ~node[v][j].marked
      BY <1>1, <3>1, <3>2
    <3>3. CASE node[v][j].marked
      <4>1. v = Initiator
        BY <1>4, <3>1, <3>3 DEF FileFits, OpenInv, Populations, Inside
      <4>2. j \in Marked(Initiator)
        BY <1>1, <2>4, <3>3, <4>1 DEF Marked
      <4>3. /\ node[v][j].key = "KS"
            /\ \A b \in node[v][j].kept \cup {node[v][j].head} : <<b, "KS">> \in sealed
        BY <1>4, <4>1, <4>2 DEF ActivationAccepted, Sealed
      <4> QED
        BY <1>1, <3>1, <3>3, <4>3
           DEF FileFits, Inside, Offered, OpensFor, Sealed
    <3> QED
      BY <3>2, <3>3
  <2>5. FilesFit'
    BY <1>1, <2>4, FilesGoOn
  <2> QED
    BY <2>1, <2>2, <2>3, <2>5 DEF OpenInv
<1> QED
  BY <1>3, <1>4

LEMMA CancelShareOpen ==
  ASSUME OpenInv, CancelShare
  PROVE  OpenInv'
<1>1. /\ share = "preparing" /\ share' = "cancelled" /\ CancelAccepted
      /\ member' = [member EXCEPT ![Initiator] = "left"]
      /\ node' = [node EXCEPT ![Initiator] = [i \in Items |->
                   IF node[Initiator][i] = None THEN None
                   ELSE [node[Initiator][i] EXCEPT !.marked = FALSE]]]
      /\ UNCHANGED <<sealed, tag, text, op, writes>>
  BY DEF CancelShare
<1>2. /\ node \in [Users -> [Items -> Node \cup {None}]]
      /\ member \in [Users -> {"none", "invited", "joined", "finalizing", "left"}]
      /\ \A u \in Users \ {Initiator} : member[u] = "none"
  BY <1>1 DEF OpenInv, KeysTypeOK, Populations
<1>3. node' \in [Users -> [Items -> Node \cup {None}]]
  <2>1. \A m \in Node : [m EXCEPT !.marked = FALSE] \in Node
    BY DEF Node
  <2>2. PICK g : g = [i \in Items |-> IF node[Initiator][i] = None THEN None
                                 ELSE [node[Initiator][i] EXCEPT !.marked = FALSE]]
    OBVIOUS
  <2>3. node[Initiator] \in [Items -> Node \cup {None}]
    BY <1>2, KeysConstants
  <2>4. g \in [Items -> Node \cup {None}]
    BY <2>1, <2>2, <2>3
  <2>5. node' = [node EXCEPT ![Initiator] = g]
    BY <1>1, <2>2
  <2> QED
    BY <1>2, <2>4, <2>5
<1>4. member' \in [Users -> {"none", "invited", "joined", "finalizing", "left"}]
      /\ member'[Initiator] = "left"
  BY <1>1, <1>2, KeysConstants
<1>5. KeysTypeOK'
  BY <1>1, <1>3, <1>4 DEF OpenInv, KeysTypeOK, Held
<1>6. Populations'
  BY <1>1, <1>2, <1>4 DEF Populations
<1>7. TagsOpen'
  BY <1>1 DEF OpenInv, TagsOpen, Sealed
<1>8. ASSUME NEW u \in Users, NEW i \in Items, node'[u][i] # None
      PROVE  \/ /\ node'[u][i] = node[u][i] /\ (Inside(u)' <=> Inside(u))
                /\ share' = "active" => share = "active" \/ ~node[u][i].marked
             \/ FileFits(u, node[u][i])'
  <2>1. CASE u # Initiator
    BY <1>1, <1>2, <2>1 DEF Inside
  <2>2. CASE u = Initiator
    <3>1. node[u][i] # None /\ node[u][i] \in Node
          /\ node'[u][i] = [node[u][i] EXCEPT !.marked = FALSE]
      BY <1>1, <1>2, <1>8, <2>2
    <3>2. FileFits(u, node[u][i]) /\ Inside(u)
      BY <1>1, <2>2, <3>1 DEF OpenInv, FilesFit, Inside, KeysTypeOK
    <3>3. i \in Marked(Initiator)
      BY <2>2, <3>1, <3>2 DEF Marked, FileFits
    <3>4. node[u][i].key = u /\ \A b \in node[u][i].kept \cup {node[u][i].head} :
                                  <<b, u>> \in sealed
      BY <1>1, <2>2, <3>3 DEF CancelAccepted, UnmarkAccepted
    <3>5. /\ ~node'[u][i].marked /\ node'[u][i].key = u
          /\ \A b \in node'[u][i].kept \cup {node'[u][i].head} : <<b, u>> \in sealed'
      BY <1>1, <3>1, <3>4 DEF Node
    <3>6. ~Inside(u)'
      BY <1>4, <2>2 DEF Inside
    <3> QED
      BY <1>1, <3>5, <3>6 DEF FileFits, Offered, OpensFor, Sealed
  <2> QED
    BY <2>1, <2>2
<1>9. FilesFit'
  BY <1>1, <1>8, FilesGoOn
<1> QED
  BY <1>5, <1>6, <1>7, <1>9 DEF OpenInv
\* A step that only moves accounts between the places outside, or inside, a share.
LEMMA MembershipOpen ==
  ASSUME OpenInv, KeysTypeOK', Populations',
         UNCHANGED <<node, sealed, tag, text>>,
         \A u \in Users : Inside(u)' <=> Inside(u),
         share' = "active" => share = "active"
  PROVE  OpenInv'
<1>1. FilesFit'
  BY FilesGoOn
<1> QED
  BY <1>1 DEF OpenInv, TagsOpen, Sealed

LEMMA InvitationOpen ==
  ASSUME OpenInv, NEW u \in Users, Invite(u) \/ Decline(u)
  PROVE  OpenInv'
<1>1. /\ member[u] \in {"none", "invited"}
      /\ \E p \in {"none", "invited"} : /\ member' = [member EXCEPT ![u] = p]
                                        /\ p = "invited" => share = "active" /\ u # Initiator
      /\ UNCHANGED <<share, node, sealed, tag, text, op, writes>>
  BY DEF Invite, Decline, OpenInv, KeysTypeOK, Live
<1>2. /\ member \in [Users -> {"none", "invited", "joined", "finalizing", "left"}]
      /\ share \in {"preparing", "active"} <=> member[Initiator] = "joined"
  BY DEF OpenInv, KeysTypeOK
<1>3. /\ member' \in [Users -> {"none", "invited", "joined", "finalizing", "left"}]
      /\ member'[Initiator] = "joined" <=> member[Initiator] = "joined"
      /\ \A v \in Users : Inside(v)' <=> Inside(v)
  BY <1>1, <1>2, KeysConstants DEF Inside
<1>4. KeysTypeOK'
  BY <1>1, <1>3 DEF OpenInv, KeysTypeOK, Held
<1>5. Populations'
  BY <1>1, <1>2 DEF OpenInv, Populations
<1> QED
  BY <1>1, <1>3, <1>4, <1>5, MembershipOpen

LEMMA DepartOpen ==
  ASSUME OpenInv, NEW u \in Users, Depart(u),
         UNCHANGED <<node, sealed, tag, text, writes>>,
         op' \in [Users -> Conversion \cup {None}]
  PROVE  OpenInv'
<1>1. /\ member \in [Users -> {"none", "invited", "joined", "finalizing", "left"}]
      /\ share \in {"none", "preparing", "active", "cancelled", "ended"}
      /\ share \in {"preparing", "active"} <=> member[Initiator] = "joined"
      /\ Initiator \in Users
  BY KeysConstants DEF OpenInv, KeysTypeOK
<1>2. member[u] = "joined"
  BY DEF Depart, MayDepart
<1>3. share \in {"preparing", "active"}
  BY <1>1, <1>2 DEF OpenInv, Populations
<1>4. CASE EndsShare(u)
  <2>1. /\ share' = IF share = "preparing" THEN "cancelled" ELSE "ended"
        /\ member' = [v \in Users |->
                        IF member[v] = "joined" THEN "finalizing" ELSE member[v]]
        /\ \A v \in Users : member[v] # "invited"
    BY <1>4 DEF Depart, MayDepart
  <2>2. /\ member' \in [Users -> {"none", "invited", "joined", "finalizing", "left"}]
        /\ \A v \in Users : member'[v] \in {"none", "finalizing", "left"}
        /\ \A v \in Users : Inside(v)' <=> Inside(v)
    BY <1>1, <2>1 DEF Inside
  <2>3. KeysTypeOK'
    BY <1>1, <1>3, <2>1, <2>2 DEF OpenInv, KeysTypeOK, Held
  <2>4. Populations'
    BY <1>1, <1>3, <2>1, <2>2 DEF Populations
  <2> QED
    BY <1>3, <2>1, <2>2, <2>3, <2>4, MembershipOpen
<1>5. CASE ~EndsShare(u)
  <2>1. share' = share /\ member' = [member EXCEPT ![u] = "finalizing"] /\ u # Initiator
    BY <1>5 DEF Depart, EndsShare
  <2>2. /\ member' \in [Users -> {"none", "invited", "joined", "finalizing", "left"}]
        /\ member'[Initiator] = member[Initiator]
        /\ \A v \in Users : Inside(v)' <=> Inside(v)
    BY <1>1, <1>2, <2>1 DEF Inside
  <2>3. KeysTypeOK'
    BY <1>1, <2>1, <2>2 DEF OpenInv, KeysTypeOK, Held
  <2>4. share = "active"
    BY <1>1, <1>2, <1>3, <2>1 DEF OpenInv, Populations
  <2>5. Populations'
    BY <1>1, <2>1, <2>2, <2>4 DEF Populations
  <2> QED
    BY <2>1, <2>2, <2>3, <2>5, MembershipOpen
<1> QED
  BY <1>4, <1>5

LEMMA RemoveMemberOpen ==
  ASSUME OpenInv, NEW u \in Users, RemoveMember(u)
  PROVE  OpenInv'
BY DepartOpen DEF RemoveMember, OpenInv, KeysTypeOK

LEMMA BeginLeaveOpen ==
  ASSUME OpenInv, NEW u \in Users, BeginLeave(u)
  PROVE  OpenInv'
<1>1. /\ UNCHANGED <<node, sealed, tag, text, writes>>
      /\ op' = [op EXCEPT ![u].step = "finalize"] \/ op' = [op EXCEPT ![u] = None]
      /\ Depart(u) \/ UNCHANGED <<share, member>>
      /\ op[u] # None /\ op[u].doing = "leave"
  BY DEF BeginLeave, AtStep, Converts
<1>2. op \in [Users -> Conversion \cup {None}]
  BY DEF OpenInv, KeysTypeOK
<1>3. [op[u] EXCEPT !.step = "finalize"] \in Conversion
  <2>1. op[u] \in [doing : {"leave"}, step : {"begin", "finalize"},
                   rows : UNION {[S -> Row] : S \in SUBSET Items}]
    BY <1>1, <1>2 DEF Conversion
  <2> QED
    BY <2>1 DEF Conversion
<1>4. op' \in [Users -> Conversion \cup {None}]
  BY <1>1, <1>2, <1>3
<1> QED
  BY <1>1, <1>4, DepartOpen, OnlyOpMoves

LEMMA JoinShareOpen ==
  ASSUME OpenInv, NEW u \in Users, JoinShare(u)
  PROVE  OpenInv'
<1>1. PICK copies : copies = [i \in Items |->
        LET n == node[Initiator][i] IN IF n = None \/ ~n.live THEN None ELSE n]
  OBVIOUS
<1>2. /\ share = "active" /\ member[u] = "invited"
      /\ node' = [node EXCEPT ![u] = copies]
      /\ member' = [member EXCEPT ![u] = "joined"]
      /\ UNCHANGED <<share, sealed, tag, text, op, writes>>
  BY <1>1 DEF JoinShare
<1>3. /\ node \in [Users -> [Items -> Node \cup {None}]] /\ Initiator \in Users
      /\ member \in [Users -> {"none", "invited", "joined", "finalizing", "left"}]
      /\ member[Initiator] = "joined"
  BY <1>2, KeysConstants DEF OpenInv, KeysTypeOK
<1>4. copies \in [Items -> Node \cup {None}]
  BY <1>1, <1>3
<1>5. node' \in [Users -> [Items -> Node \cup {None}]]
  BY <1>2, <1>3, <1>4
<1>6. member' \in [Users -> {"none", "invited", "joined", "finalizing", "left"}]
      /\ member'[Initiator] = "joined" /\ member'[u] = "joined"
  BY <1>2, <1>3
<1>7. KeysTypeOK'
  BY <1>2, <1>5, <1>6 DEF OpenInv, KeysTypeOK, Held
<1>8. Populations' /\ TagsOpen'
  BY <1>2, <1>6 DEF OpenInv, Populations, TagsOpen, Sealed
<1>9. ASSUME NEW v \in Users, NEW j \in Items, node'[v][j] # None
      PROVE  \/ /\ node'[v][j] = node[v][j] /\ (Inside(v)' <=> Inside(v))
                /\ share' = "active" => share = "active" \/ ~node[v][j].marked
             \/ FileFits(v, node[v][j])'
  <2>1. CASE v # u
    BY <1>2, <1>3, <2>1 DEF Inside
  <2>2. CASE v = u
    <3>1. node'[v][j] = node[Initiator][j] /\ node[Initiator][j] # None
      BY <1>1, <1>2, <1>3, <1>4, <1>9, <2>2
    <3>2. FileFits(Initiator, node[Initiator][j]) /\ Inside(Initiator)
      BY <1>3, <3>1 DEF OpenInv, FilesFit, Inside
    <3>3. /\ node'[v][j].marked /\ node'[v][j].key = "KS"
          /\ \A b \in node'[v][j].kept \cup {node'[v][j].head} : <<b, "KS">> \in sealed'
      BY <1>2, <3>1, <3>2 DEF FileFits, Sealed
    <3>4. Inside(v)'
      BY <1>6, <2>2 DEF Inside
    <3> QED
      BY <3>3, <3>4 DEF FileFits, Offered, OpensFor, Sealed
  <2> QED
    BY <2>1, <2>2
<1>10. FilesFit'
  BY <1>2, <1>9, FilesGoOn
<1> QED
  BY <1>7, <1>8, <1>10 DEF OpenInv
LEMMA LastIsOfThem ==
  ASSUME NEW S \in SUBSET Nat, IsFiniteSet(S), S # {}
  PROVE  Max(S) \in S /\ \A y \in S : Max(S) >= y
<1> DEFINE above(x) == {y \in S : y > x}
           F == {above(x) : x \in S}
<1>1. F \subseteq FiniteSubsetsOf(S) /\ F # {}
  <2>1. \A x \in S : above(x) \subseteq S
    OBVIOUS
  <2>2. \A T \in SUBSET S : IsFiniteSet(T)
    BY FS_Subset
  <2> QED
    BY <2>1, <2>2 DEF FiniteSubsetsOf
<1>2. PICK T \in F : \A U \in F : ~(<<U, T>> \in StrictSubsetOrdering(S))
  BY <1>1, FS_StrictSubsetOrderingWellFounded, WFMin
<1>3. PICK x \in S : T = above(x)
  OBVIOUS
<1>4. ASSUME NEW y \in S, y > x PROVE FALSE
  <2>1. /\ x \in Nat /\ y \in Nat /\ \A z \in S : z \in Nat
    OBVIOUS
  <2>2. \A z \in S : z > y => z > x
    BY <1>4, <2>1
  <2>3. ~(y > y)
    BY <2>1
  <2>4. above(y) \subseteq above(x) /\ y \in above(x) /\ y \notin above(y)
    BY ONLY <1>4, <2>2, <2>3, y \in S
  <2>5. above(y) \in F
    OBVIOUS
  <2>6. above(x) \subseteq S
    OBVIOUS
  <2> HIDE DEF above, F
  <2>7. <<above(y), above(x)>> \in StrictSubsetOrdering(S)
    BY <2>4, <2>6 DEF StrictSubsetOrdering
  <2> QED
    BY <1>2, <1>3, <2>5, <2>7
<1>5. \A y \in S : x >= y
  <2> SUFFICES ASSUME NEW y \in S PROVE x >= y
    OBVIOUS
  <2>1. x \in Nat /\ y \in Nat /\ ~(y > x)
    BY <1>4
  <2> QED
    BY <2>1
<1> QED
  BY <1>5 DEF Max
\* What a departure brings: its envelopes add to what is sealed, and its tags
\* open under the key of whoever goes.
LEMMA DepartureMaterial ==
  ASSUME OpenInv, NEW u \in Users, NEW D \in SUBSET Items,
         NEW rows \in [D -> Row], NEW k
  PROVE  LET after == EnvelopesAfter(u, rows)
             tags  == TagsAfter(u, rows, k)
         IN  /\ sealed \subseteq after /\ after \subseteq (1..Len(text)) \X Scopes
             /\ tags \in [Scopes -> [Texts -> (1..Len(text)) \cup {None}]]
             /\ \A s \in Scopes, t \in Texts :
                  tags[s][t] # None => <<tags[s][t], s>> \in after
<1> DEFINE after == EnvelopesAfter(u, rows)
           tags  == TagsAfter(u, rows, k)
           by(t) == {j \in Tags(rows) : j <= k /\ text[rows[j].address] = t}
<1>1. /\ sealed \subseteq (1..Len(text)) \X Scopes
      /\ tag \in [Scopes -> [Texts -> (1..Len(text)) \cup {None}]]
      /\ u \in Scopes /\ DOMAIN rows = D /\ Items \subseteq Nat /\ IsFiniteSet(Items)
  BY KeysConstants DEF OpenInv, KeysTypeOK, Held, Scopes
<1>2. sealed \subseteq after
  BY DEF EnvelopesAfter
<1>3. \A b : Sealed("KS", b) => b \in 1..Len(text)
  BY <1>1 DEF Sealed
<1>4. after \subseteq (1..Len(text)) \X Scopes
  BY <1>1, <1>3 DEF EnvelopesAfter, Moved
<1>5. ASSUME NEW i \in Tags(rows)
      PROVE  /\ i \in D /\ rows[i].address \in 1..Len(text)
             /\ <<rows[i].address, u>> \in after
  <2>1. /\ i \in D /\ rows[i].address # None /\ Sealed("KS", rows[i].address)
    BY <1>1 DEF Tags
  <2>2. rows[i].address \in Addresses(rows[i].address, rows[i].history)
    BY <2>1 DEF Addresses
  <2>3. <<rows[i].address, u>>
          \in Moved(Addresses(rows[i].address, rows[i].history), "KS", u)
    BY <2>1, <2>2 DEF Moved
  <2> QED
    BY <1>1, <1>3, <2>1, <2>3 DEF EnvelopesAfter
<1>6. ASSUME NEW t \in Texts, by(t) # {}
      PROVE  Max(by(t)) \in Tags(rows)
  <2>1. by(t) \subseteq Items /\ by(t) \subseteq Tags(rows)
    BY <1>5
  <2>2. by(t) \in SUBSET Nat /\ IsFiniteSet(by(t))
    BY <1>1, <2>1, FS_Subset
  <2> HIDE DEF by
  <2>3. Max(by(t)) \in by(t)
    BY <1>6, <2>2, LastIsOfThem
  <2> QED
    BY <2>1, <2>3
<1>7. PICK mine : mine = [t \in Texts |-> IF by(t) = {} THEN tag[u][t]
                                          ELSE rows[Max(by(t))].address]
  OBVIOUS
<1>8. tags = [tag EXCEPT ![u] = mine]
  BY <1>7 DEF TagsAfter, OnDisk
<1>9. /\ mine \in [Texts -> (1..Len(text)) \cup {None}]
      /\ \A t \in Texts : mine[t] # None => <<mine[t], u>> \in after
  <2>1. ASSUME NEW t \in Texts
        PROVE  /\ mine[t] \in (1..Len(text)) \cup {None}
               /\ mine[t] # None => <<mine[t], u>> \in after
    <3>1. CASE by(t) = {}
      <4>1. mine[t] = tag[u][t]
        BY <1>7, <3>1
      <4>2. tag[u][t] # None => <<tag[u][t], u>> \in sealed
        BY <1>1 DEF OpenInv, TagsOpen, Sealed
      <4> QED
        BY <1>1, <1>2, <4>1, <4>2
    <3>2. CASE by(t) # {}
      <4>1. mine[t] = rows[Max(by(t))].address
        BY <1>7, <3>2
      <4> QED
        BY <1>5, <1>6, <3>2, <4>1
    <3> QED
      BY <3>1, <3>2
  <2> QED
    BY <1>7, <2>1
<1>10. tags \in [Scopes -> [Texts -> (1..Len(text)) \cup {None}]]
  BY <1>1, <1>8, <1>9
<1>11. ASSUME NEW s \in Scopes, NEW t \in Texts, tags[s][t] # None
       PROVE  <<tags[s][t], s>> \in after
  <2>1. CASE s = u
    BY <1>1, <1>8, <1>9, <1>11, <2>1
  <2>2. CASE s # u
    <3>1. tags[s][t] = tag[s][t]
      BY <1>1, <1>8, <2>2
    <3> QED
      BY <1>2, <1>11, <3>1 DEF OpenInv, TagsOpen, Sealed
  <2> QED
    BY <2>1, <2>2
<1> QED
  BY <1>2, <1>4, <1>10, <1>11

\* What the pass of a departure makes of one file of who leaves.
LEMMA ReturnedFits ==
  ASSUME NEW u \in Users, NEW m \in Node, NEW after, NEW tags,
         UnmarkAccepted(u, Returned(u, m), after, tags), sealed' = after,
         ~Inside(u)'
  PROVE  FileFits(u, Returned(u, m))' /\ Returned(u, m) \in Node
<1>1. PICK n : n = Returned(u, m)
  OBVIOUS
<1>2. n \in Node /\ ~n.marked /\ n.key = u
  BY <1>1 DEF Returned, Node, Scopes
<1>3. \A b \in n.kept \cup {n.head} : <<b, u>> \in sealed'
  BY <1>1 DEF UnmarkAccepted
<1>4. FileFits(u, n)'
  BY <1>2, <1>3 DEF FileFits, Offered, OpensFor, Sealed
<1>5. FileFits(u, Returned(u, m))' = FileFits(u, n)'
  BY <1>1 DEF FileFits, Returned
<1> QED
  BY <1>1, <1>2, <1>4, <1>5

LEMMA FinalizeLeaveOpen ==
  ASSUME OpenInv, NEW u \in Users, FinalizeLeave(u)
  PROVE  OpenInv'
<1>1. /\ op' = [op EXCEPT ![u] = None] /\ UNCHANGED <<share, text, writes>>
      /\ op[u] # None /\ op[u].doing = "leave"
  BY DEF FinalizeLeave, AtStep, Converts
<1>2. op' \in [Users -> Conversion \cup {None}]
  BY <1>1 DEF OpenInv, KeysTypeOK
<1>3. PICK rows : rows = op[u].rows
  OBVIOUS
<1>4. CASE ~FinalizeAccepted(u, rows)
  <2>1. UNCHANGED <<node, sealed, tag, member>>
    BY <1>3, <1>4 DEF FinalizeLeave
  <2> QED
    BY <1>1, <1>2, <2>1, OnlyOpMoves
<1>5. CASE FinalizeAccepted(u, rows)
  <2>1. /\ node' = [node EXCEPT ![u] = [i \in Items |->
                     IF i \in Marked(u) THEN Returned(u, node[u][i])
                     ELSE node[u][i]]]
        /\ sealed' = EnvelopesAfter(u, rows)
        /\ tag' = TagsAfter(u, rows, Max(Items))
        /\ member' = [member EXCEPT ![u] = "left"]
    BY <1>3, <1>5 DEF FinalizeLeave
  <2>2. PICK D \in SUBSET Items : rows \in [D -> Row]
    <3>1. op[u] \in Conversion
      BY <1>1 DEF OpenInv, KeysTypeOK
    <3>2. rows \in UNION {[S -> Row] : S \in SUBSET Items}
      BY <1>1, <1>3, <3>1 DEF Conversion
    <3> QED
      BY <3>2
  <2>3. /\ sealed \subseteq sealed' /\ sealed' \subseteq (1..Len(text)) \X Scopes
        /\ tag' \in [Scopes -> [Texts -> (1..Len(text)) \cup {None}]]
        /\ \A s \in Scopes, t \in Texts : tag'[s][t] # None => <<tag'[s][t], s>> \in sealed'
    BY <2>1, <2>2, DepartureMaterial
  <2>4. /\ node \in [Users -> [Items -> Node \cup {None}]]
        /\ member \in [Users -> {"none", "invited", "joined", "finalizing", "left"}]
        /\ share \in {"preparing", "active"} <=> member[Initiator] = "joined"
    BY DEF OpenInv, KeysTypeOK
  <2>5. member[u] = "finalizing" /\ Marked(u) \subseteq D /\ D \subseteq Marked(u)
    BY <1>5, <2>2 DEF FinalizeAccepted, MayLeave
  <2>6. /\ member' \in [Users -> {"none", "invited", "joined", "finalizing", "left"}]
        /\ member'[Initiator] = "joined" <=> member[Initiator] = "joined"
        /\ member'[u] = "left" /\ ~Inside(u)'
        /\ \A v \in Users \ {u} : Inside(v)' <=> Inside(v)
    BY <2>1, <2>4, <2>5, KeysConstants DEF Inside
  <2>7. ASSUME NEW i \in Marked(u)
        PROVE  node'[u][i] \in Node /\ FileFits(u, node[u][i])'
    <3>1. PICK m : m = node[u][i]
      OBVIOUS
    <3>2. i \in Items /\ m \in Node /\ node'[u][i] = Returned(u, m)
      BY <2>1, <2>4, <3>1 DEF Marked
    <3>3. UnmarkAccepted(u, Returned(u, m), EnvelopesAfter(u, rows),
                              TagsAfter(u, rows, i))
      BY <1>5, <2>2, <2>5, <3>1 DEF FinalizeAccepted
    <3>4. FileFits(u, Returned(u, m))' /\ Returned(u, m) \in Node
      BY <2>1, <2>6, <3>2, <3>3, ReturnedFits
    <3>5. FileFits(u, Returned(u, m))' = FileFits(u, node[u][i])'
      BY <3>2 DEF FileFits, Returned
    <3> QED
      BY <3>2, <3>4, <3>5
  <2>8. node' \in [Users -> [Items -> Node \cup {None}]]
    <3>1. PICK g : g = [i \in Items |-> IF i \in Marked(u)
                       THEN Returned(u, node[u][i]) ELSE node[u][i]]
      OBVIOUS
    <3>2. node' = [node EXCEPT ![u] = g]
      BY <2>1, <3>1
    <3>3. \A i \in Items : g[i] \in Node \cup {None}
      BY <2>4, <2>7, <3>1, <3>2
    <3>4. g \in [Items -> Node \cup {None}]
      BY <3>1, <3>3
    <3> QED
      BY <2>4, <3>2, <3>4
  <2>9. KeysTypeOK'
    BY <1>1, <1>2, <2>3, <2>6, <2>8 DEF OpenInv, KeysTypeOK, Held
  <2>10. Populations'
    BY <1>1, <2>1, <2>4, <2>5 DEF OpenInv, Populations
  <2>11. TagsOpen'
    BY <2>3 DEF TagsOpen, Sealed
  <2>12. ASSUME NEW v \in Users, NEW j \in Items, node'[v][j] # None
         PROVE  \/ /\ node'[v][j] = node[v][j] /\ (Inside(v)' <=> Inside(v))
                   /\ share' = "active" => share = "active" \/ ~node[v][j].marked
                \/ FileFits(v, node[v][j])'
    <3>1. CASE v # u
      BY <1>1, <2>1, <2>4, <2>6, <3>1
    <3>2. CASE v = u /\ j \in Marked(u)
      BY <2>7, <3>2
    <3>3. CASE v = u /\ j \notin Marked(u)
      <4>1. node'[v][j] = node[v][j]
        BY <2>1, <2>4, <3>3
      <4>2. FileFits(v, node[v][j]) /\ ~node[v][j].marked
        BY <2>12, <3>3, <4>1 DEF Marked, OpenInv, FilesFit
      <4>3. Inside(v)
        BY <2>5, <3>3 DEF Inside
      <4> QED
        BY <4>2, <4>3 DEF FileFits
    <3> QED
      BY <3>1, <3>2, <3>3
  <2>13. FilesFit'
    BY <2>3, <2>12, FilesGoOn
  <2> QED
    BY <2>9, <2>10, <2>11, <2>13 DEF OpenInv
<1> QED
  BY <1>4, <1>5

LEMMA SaidIsASequence ==
  Said \in Seq(Texts) /\ Len(Said) = 2 /\ Said[1] \in Texts /\ Said[2] \in Texts
  /\ Said[1] # Said[2]
<1>1. PICK x \in Texts, y \in Texts : Said = <<x, y>>
  BY KeysConstants
<1>2. Said[1] # Said[2]
  BY KeysConstants
<1> QED
  BY <1>1, <1>2

LEMMA InitOpen ==
  ASSUME KeysInit
  PROVE  OpenInv
<1>1. /\ share = "none" /\ member = [u \in Users |-> "none"] /\ text = Said
      /\ sealed = {<<1, Initiator>>, <<2, Initiator>>}
      /\ op = [u \in Users |-> None] /\ writes = 0
  BY DEF KeysInit
<1>2. PICK first : first = [t \in Texts |-> CHOOSE b \in 1..2 : Said[b] = t]
  OBVIOUS
<1>3. tag = [s \in Scopes |-> [t \in Texts |->
               IF s = Initiator /\ t \in Range(Said) THEN first[t] ELSE None]]
  BY <1>2 DEF KeysInit
<1>4. \A t \in Texts : t \in Range(Said) => first[t] \in {1, 2}
  <2> SUFFICES ASSUME NEW t \in Texts, t \in Range(Said)
               PROVE  first[t] \in {1, 2}
    OBVIOUS
  <2>1. \E b \in 1..2 : Said[b] = t
    BY SaidIsASequence DEF Range
  <2>2. (CHOOSE b \in 1..2 : Said[b] = t) \in 1..2
    BY <2>1
  <2> QED
    BY <1>2, <2>2
<1>5. Initiator \in Users /\ Initiator \in Scopes /\ Len(text) = 2 /\ text \in Seq(Texts)
      /\ MaxBlobs \in Nat \ {0, 1} /\ MaxOthersWrites \in Nat
  BY <1>1, KeysConstants, SaidIsASequence DEF Scopes
<1>6. PICK i \in Items :
        node = [u \in Users |-> [j \in Items |->
                  IF u = Initiator /\ j = i
                  THEN [live |-> TRUE, marked |-> FALSE, key |-> u,
                        head |-> 2, kept |-> {1, 2}]
                  ELSE None]]
  BY DEF KeysInit
<1>7. PICK m : m = [live |-> TRUE, marked |-> FALSE, key |-> Initiator,
                    head |-> 2, kept |-> {1, 2}]
  OBVIOUS
<1>8. node = [u \in Users |-> [j \in Items |->
                IF u = Initiator /\ j = i THEN m ELSE None]]
  BY <1>6, <1>7
<1>9. m \in Node
  BY <1>5, <1>7 DEF Node, Blobs
<1>10. KeysTypeOK
  <2>1. node \in [Users -> [Items -> Node \cup {None}]]
    BY <1>8, <1>9
  <2>2. sealed \subseteq (1..Len(text)) \X Scopes
    BY <1>1, <1>5
  <2>3. tag \in [Scopes -> [Texts -> (1..Len(text)) \cup {None}]]
    BY <1>3, <1>4, <1>5
  <2>4. Len(text) <= MaxBlobs /\ writes \in 0..MaxOthersWrites
    BY <1>1, <1>5
  <2>5. /\ share \in {"none", "preparing", "active", "cancelled", "ended"}
        /\ member \in [Users -> {"none", "invited", "joined", "finalizing", "left"}]
        /\ share \in {"preparing", "active"} <=> member[Initiator] = "joined"
        /\ op \in [Users -> Conversion \cup {None}]
    BY <1>1, <1>5
  <2> QED
    BY <1>5, <2>1, <2>2, <2>3, <2>4, <2>5 DEF KeysTypeOK, Held
<1>11. Populations
  BY <1>1, <1>5 DEF Populations
<1>12. TagsOpen
  BY <1>1, <1>3, <1>4 DEF TagsOpen, Sealed
<1>13. FilesFit
  <2> SUFFICES ASSUME NEW u \in Users, NEW j \in Items, node[u][j] # None
               PROVE  FileFits(u, node[u][j])
    BY DEF FilesFit
  <2>1. node[u][j] = m /\ u = Initiator
    BY <1>8
  <2> QED
    BY <1>1, <1>7, <2>1 DEF FileFits, Inside, Offered, OpensFor, Sealed
<1> QED
  BY <1>10, <1>11, <1>12, <1>13 DEF OpenInv

LEMMA KeysStepOpen ==
  ASSUME OpenInv, [KeysNext]_keysVars
  PROVE  OpenInv'
<1>1. CASE UNCHANGED keysVars
  <2>1. op' \in [Users -> Conversion \cup {None}]
    BY <1>1 DEF OpenInv, KeysTypeOK, keysVars
  <2> QED
    BY <1>1, <2>1, OnlyOpMoves DEF keysVars
<1>2. ASSUME NEW u \in Users, NEW i \in Items, NEW t \in Texts, NEW s \in Scopes,
             CreateNode(u, i, t, s) \/ PutContent(u, i, t, s)
      PROVE  OpenInv'
  BY <1>2, CreateOpen, PutContentOpen
<1>3. ASSUME NEW u \in Users, NEW i \in Items,
             DeleteNode(u, i) \/ \E b \in Blobs : RestoreNode(u, i, b)
      PROVE  OpenInv'
  BY <1>3, DeleteOpen, RestoreOpen
<1>4. CASE BeginSharing \/ CreateShare \/ AskWhatIsOwed \/ EndBatches
           \/ Activate \/ CancelShare
  BY <1>4, BeginSharingOpen, CreateShareOpen, AskWhatIsOwedOpen, EndBatchesOpen,
     ActivateOpen, CancelShareOpen
<1>5. ASSUME NEW i \in Items, PrepareBatch(i) PROVE OpenInv'
  BY <1>5, PrepareBatchOpen
<1>6. ASSUME NEW u \in Users,
             Invite(u) \/ Decline(u) \/ JoinShare(u) \/ RemoveMember(u)
      PROVE  OpenInv'
  BY <1>6, InvitationOpen, JoinShareOpen, RemoveMemberOpen
<1>7. ASSUME NEW u \in Users,
             ListReplica(u) \/ BeginLeave(u) \/ FinalizeLeave(u)
             \/ GiveUp(u)
      PROVE  OpenInv'
  BY <1>7, ListReplicaOpen, BeginLeaveOpen, FinalizeLeaveOpen, GiveUpOpen
<1> QED
  BY <1>1, <1>2, <1>3, <1>4, <1>5, <1>6, <1>7 DEF KeysNext

LEMMA OpenAlways == KeysSpec => []OpenInv
<1>1. KeysInit => OpenInv
  BY InitOpen
<1>2. OpenInv /\ [KeysNext]_keysVars => OpenInv'
  BY KeysStepOpen
<1> QED
  BY <1>1, <1>2, PTL DEF KeysSpec

\* In every state of a conversion of a folder's keys the variables of ShareKeys
\* have their types.
THEOREM KeysTypeCorrect == KeysSpec => []KeysTypeOK
<1>1. OpenInv => KeysTypeOK
  BY DEF OpenInv
<1> QED
  BY <1>1, OpenAlways, PTL

\* Every name and every version of every copy opens with a key its owner is
\* offered, through sharing, activation, joining, departure and cancellation, and
\* under one scope once the folder is shared or private again.
THEOREM EveryFileAlwaysOpens == KeysSpec => []EveryFileOpens
<1>1. OpenInv => EveryFileOpens
  BY DEF OpenInv, FilesFit, FileFits, EveryFileOpens
<1> QED
  BY <1>1, OpenAlways, PTL

-----------------------------------------------------------------------------
(* What the device converts is what the server asks for, if nobody writes. *)

Young == share \in {"none", "preparing"}

\* Where the share stands at each step of its creation.
CreationHolds ==
  Converts(Initiator, "share") =>
    /\ IF op[Initiator].step = "create" THEN share = "none"
       ELSE share = "preparing" \/ (share = "cancelled" /\ member[Initiator] = "left")
    /\ op[Initiator].step = "activate" => op[Initiator].todo = {}

\* The trash of a folder is not walked, and nothing of it is there.
NothingTrashed ==
  \A i \in Items : node[Initiator][i] # None => node[Initiator][i].live

\* Files that say the same are held at one address, so that converting one does
\* not take the tag of another.
HeadsApart ==
  \A i, j \in Items :
    (/\ node[Initiator][i] # None /\ node[Initiator][j] # None
     /\ text[node[Initiator][i].head] = text[node[Initiator][j].head])
    => node[Initiator][i].head = node[Initiator][j].head

\* Nothing is missing of a file that has been converted.
Ready(n) ==
  /\ n.key = "KS"
  /\ \A b \in n.kept \cup {n.head} : Sealed("KS", b)
  /\ tag["KS"][text[n.head]] = n.head

\* A file that waits has all that is missing on the list.
Waits(n, owed) == \A b \in n.kept \ {n.head} : b \in owed \/ Sealed("KS", b)

\* While nobody wrote, the walk is the folder, and of each file on it all that is
\* missing is on the list or has been converted.
Walked(i, n, o) ==
  /\ o.walk[i] = IF n = None THEN None ELSE n.head
  /\ n # None /\ o.step \in {"prepare", "activate"} =>
       IF i \in o.todo THEN Waits(n, o.owed[i]) ELSE Ready(n)

WalkHolds ==
  Converts(Initiator, "share") /\ op[Initiator].calm =>
    \A i \in Items : Walked(i, node[Initiator][i], op[Initiator])

PrepareInv == CreationHolds /\ (Young => NothingTrashed /\ HeadsApart /\ WalkHolds)

\* A share that is young has nobody in it but the initiator, and what anyone else
\* holds has no mark.
LEMMA OnlyTheInitiator ==
  ASSUME OpenInv, Young, NEW u \in Users \ {Initiator}
  PROVE  /\ member[u] = "none" /\ Believed(u) = {u} /\ ~Inside(u)
         /\ \A i \in Items : node[u][i] # None => ~node[u][i].marked
<1>1. member[u] = "none"
  BY DEF Young, OpenInv, Populations
<1> QED
  BY <1>1 DEF Believed, Inside, OpenInv, FilesFit, FileFits

\* The heads of a folder are sealed addresses.
LEMMA HeadsHeld ==
  ASSUME OpenInv, NEW i \in Items, node[Initiator][i] # None
  PROVE  /\ node[Initiator][i] \in Node
         /\ node[Initiator][i].head \in 1..Len(text)
         /\ text[node[Initiator][i].head] \in Texts
<1>1. node[Initiator][i] \in Node /\ sealed \subseteq (1..Len(text)) \X Scopes
      /\ text \in Seq(Texts)
  BY KeysConstants DEF OpenInv, KeysTypeOK, Held
<1>2. OpensFor(Initiator, node[Initiator][i].head)
  BY KeysConstants DEF OpenInv, FilesFit, FileFits
<1>3. node[Initiator][i].head \in 1..Len(text)
  BY <1>1, <1>2 DEF OpensFor, Sealed
<1> QED
  BY <1>1, <1>3

\* What is ready, or waits, goes on to while it and the tags of the share stay.
LEMMA WalkedOn ==
  ASSUME OpenInv, NEW i \in Items, NEW o,
         Walked(i, node[Initiator][i], o),
         node'[Initiator][i] = node[Initiator][i], sealed \subseteq sealed',
         tag'["KS"] = tag["KS"], \A b \in 1..Len(text) : text'[b] = text[b]
  PROVE  Walked(i, node[Initiator][i], o)'
<1>1. \A s, b : Sealed(s, b) => Sealed(s, b)'
  BY DEF Sealed
<1>2. PICK n : n = node[Initiator][i]
  OBVIOUS
<1>3. n # None => text'[n.head] = text[n.head]
  BY <1>2, HeadsHeld
<1>4. Walked(i, n, o)'
  BY <1>1, <1>2, <1>3 DEF Walked, Waits, Ready
<1> QED
  BY <1>2, <1>4 DEF Walked, Waits, Ready

\* A step that leaves the folder, its tags and the conversion of it alone.
LEMMA PrepareGoesOn ==
  ASSUME OpenInv, PrepareInv, share' = share,
         member'[Initiator] = member[Initiator], op'[Initiator] = op[Initiator],
         Young => /\ node'[Initiator] = node[Initiator] /\ sealed \subseteq sealed'
                  /\ tag'["KS"] = tag["KS"] /\ \A b \in 1..Len(text) : text'[b] = text[b]
  PROVE  PrepareInv'
<1>1. CreationHolds'
  BY DEF PrepareInv, CreationHolds, Converts
<1>2. ASSUME Young' PROVE NothingTrashed' /\ HeadsApart' /\ WalkHolds'
  <2>1. Young /\ NothingTrashed /\ HeadsApart /\ WalkHolds
    BY <1>2 DEF Young, PrepareInv
  <2>2. node'[Initiator] = node[Initiator]
    BY <2>1
  <2>3. NothingTrashed'
    BY <2>1, <2>2 DEF NothingTrashed
  <2>4. HeadsApart'
    BY <2>1, <2>2, HeadsHeld DEF HeadsApart
  <2>5. ASSUME Converts(Initiator, "share")', op'[Initiator].calm, NEW i \in Items
        PROVE  Walked(i, node[Initiator][i], op[Initiator])'
    <3>1. PICK o : o = op[Initiator]
      OBVIOUS
    <3>2. Walked(i, node[Initiator][i], o)
      BY <2>1, <2>5, <3>1 DEF WalkHolds, Converts
    <3>3. Walked(i, node[Initiator][i], o)'
      BY <2>1, <2>2, <3>2, WalkedOn
    <3> QED
      BY <3>1, <3>3 DEF Walked, Waits, Ready
  <2> QED
    BY <2>3, <2>4, <2>5 DEF WalkHolds
<1> QED
  BY <1>1, <1>2 DEF PrepareInv

\* A write: where it is to the folder, the device that shares it is told.
LEMMA PrepareWritten ==
  ASSUME Mishaps = {}, OpenInv, OpenInv', PrepareInv, NEW u \in Users,
         Counted(u),
         Young /\ u # Initiator =>
           /\ node'[Initiator] = node[Initiator] /\ sealed \subseteq sealed'
           /\ tag'["KS"] = tag["KS"] /\ \A b \in 1..Len(text) : text'[b] = text[b],
         Young /\ u = Initiator => NothingTrashed'
  PROVE  PrepareInv'
<1>1. /\ op' = [op EXCEPT ![u] = IF op[u] # None /\ op[u].doing = "share"
                                 THEN [op[u] EXCEPT !.calm = FALSE] ELSE op[u]]
      /\ UNCHANGED <<share, member>> /\ ~TwiceHeld(node', text')
  BY DEF Counted, Risk
<1>2. op \in [Users -> Conversion \cup {None}] /\ Initiator \in Users
  BY KeysConstants DEF OpenInv, KeysTypeOK
<1>3. CASE u # Initiator
  <2>1. op'[Initiator] = op[Initiator]
    BY <1>1, <1>2, <1>3
  <2> QED
    BY <1>1, <1>3, <2>1, PrepareGoesOn
<1>4. CASE u = Initiator
  <2>1. Converts(Initiator, "share")' =>
          /\ Converts(Initiator, "share") /\ ~op'[Initiator].calm
          /\ op'[Initiator].step = op[Initiator].step
          /\ op'[Initiator].todo = op[Initiator].todo
    <3> SUFFICES ASSUME Converts(Initiator, "share")'
                 PROVE  /\ Converts(Initiator, "share") /\ ~op'[Initiator].calm
                        /\ op'[Initiator].step = op[Initiator].step
                        /\ op'[Initiator].todo = op[Initiator].todo
      OBVIOUS
    <3>1. Converts(Initiator, "share")
      BY <1>1, <1>2, <1>4 DEF Converts
    <3>2. op'[Initiator] = [op[Initiator] EXCEPT !.calm = FALSE]
      BY <1>1, <1>2, <1>4, <3>1 DEF Converts
    <3> QED
      BY <3>1, <3>2, ShareOpTyped
  <2>2. CreationHolds'
    BY <1>1, <2>1 DEF PrepareInv, CreationHolds
  <2>3. WalkHolds'
    BY <2>1 DEF WalkHolds
  <2>4. Young' => NothingTrashed'
    BY <1>1, <1>4 DEF Young
  <2>5. ASSUME NothingTrashed', NEW i \in Items, NEW j \in Items,
               node'[Initiator][i] # None, node'[Initiator][j] # None,
               text'[node'[Initiator][i].head] = text'[node'[Initiator][j].head],
               node'[Initiator][i].head # node'[Initiator][j].head
        PROVE  FALSE
    <3>1. /\ i \in {k \in Items : node'[Initiator][k] # None /\ node'[Initiator][k].live}
          /\ j \in {k \in Items : node'[Initiator][k] # None /\ node'[Initiator][k].live}
      BY <2>5 DEF NothingTrashed
    <3>2. TwiceHeld(node', text')
      BY <1>2, <2>5, <3>1 DEF TwiceHeld
    <3> QED
      BY <1>1, <3>2
  <2>6. NothingTrashed' => HeadsApart'
    BY <2>5 DEF HeadsApart
  <2> QED
    BY <2>2, <2>3, <2>4, <2>6 DEF PrepareInv
<1> QED
  BY <1>3, <1>4

LEMMA StoredKeeps ==
  ASSUME OpenInv, NEW s \in Scopes, NEW t \in Texts,
         NEW w \in Stored(s, t)
  PROVE  sealed \subseteq w.sealed /\ \A b \in 1..Len(text) : w.text[b] = text[b]
<1>1. KeysTypeOK /\ TagsOpen
  BY DEF OpenInv
<1>2. sealed \subseteq w.sealed
  BY <1>1, StoredOpens
<1>3. \A b \in 1..Len(text) : w.text[b] = text[b]
  BY <1>1, StoredOpens
<1> QED
  BY <1>2, <1>3

\* What is sealed or looked up for one scope moves no tag of another.
LEMMA StoredLeavesOthers ==
  ASSUME KeysTypeOK, NEW s \in Scopes, NEW t \in Texts, NEW w \in Stored(s, t),
         NEW r \in Scopes, r # s
  PROVE  w.tag[r] = tag[r]
<1>1. CASE w = Reused(s, t)
  BY <1>1 DEF Reused
<1>2. CASE w = SealedAnew(s, t)
  <2>1. w.tag = [tag EXCEPT ![s][t] = w.at]
    BY <1>2 DEF SealedAnew
  <2> QED
    BY <2>1 DEF KeysTypeOK
<1>3. w \in {Reused(s, t), SealedAnew(s, t)}
  BY DEF Stored
<1> QED
  BY <1>1, <1>2, <1>3

LEMMA CreatePrepare ==
  ASSUME Mishaps = {}, OpenInv, OpenInv', PrepareInv, NEW u \in Users,
         NEW i \in Items, NEW t \in Texts, NEW s \in Scopes, CreateNode(u, i, t, s)
  PROVE  PrepareInv'
<1>1. PICK w \in Stored(s, t) :
        \E n \in [live : {TRUE}, marked : BOOLEAN, key : {s}, head : {w.at}, kept : {{w.at}}] :
          /\ MarkAccepted(u, n)
          /\ node' = Fanned(u, i, n, [v \in Users |-> n])
          /\ sealed' = w.sealed /\ tag' = w.tag /\ text' = w.text
  BY DEF CreateNode
<1>2. PICK n \in [live : {TRUE}, marked : BOOLEAN, key : {s}, head : {w.at}, kept : {{w.at}}] :
          /\ MarkAccepted(u, n)
          /\ node' = Fanned(u, i, n, [v \in Users |-> n])
          /\ sealed' = w.sealed /\ tag' = w.tag /\ text' = w.text
  BY <1>1
<1>3. Counted(u) /\ s \in Believed(u)
  BY DEF CreateNode
<1>4. Initiator \in Users /\ node[Initiator] \in [Items -> Node \cup {None}]
  BY KeysConstants DEF OpenInv, KeysTypeOK
<1>5. ASSUME Young, u # Initiator
      PROVE  /\ node'[Initiator] = node[Initiator] /\ sealed \subseteq sealed'
             /\ tag'["KS"] = tag["KS"] /\ \A b \in 1..Len(text) : text'[b] = text[b]
  <2>1. s = u /\ ~n.marked
    BY <1>2, <1>3, <1>5, OnlyTheInitiator DEF MarkAccepted
  <2>2. node'[Initiator] = node[Initiator]
    BY <1>2, <1>4, <1>5, <2>1 DEF Fanned
  <2>3. tag'["KS"] = tag["KS"]
    <3>1. "KS" \in Scopes /\ "KS" # s
      BY <2>1, KeysConstants DEF Scopes
    <3> QED
      BY <1>2, <3>1, StoredLeavesOthers DEF OpenInv
  <2>4. sealed \subseteq w.sealed /\ \A b \in 1..Len(text) : w.text[b] = text[b]
    BY StoredKeeps
  <2> QED
    BY <1>2, <2>2, <2>3, <2>4
<1>6. ASSUME Young, u = Initiator PROVE NothingTrashed'
  <2>1. node'[Initiator] = [node[Initiator] EXCEPT ![i] = n]
    BY <1>2, <1>4, <1>6 DEF Fanned
  <2> QED
    BY <1>4, <1>6, <2>1 DEF NothingTrashed, PrepareInv
<1> QED
  BY <1>3, <1>5, <1>6, PrepareWritten

LEMMA PutPrepare ==
  ASSUME Mishaps = {}, OpenInv, OpenInv', PrepareInv, NEW u \in Users,
         NEW i \in Items, NEW t \in Texts, NEW s \in Scopes, PutContent(u, i, t, s)
  PROVE  PrepareInv'
<1>1. PICK w \in Stored(s, t) :
        /\ node' = Fanned(u, i, Put(node[u][i], w.at),
                               [v \in Users |-> Put(node[v][i], w.at)])
        /\ sealed' = w.sealed /\ tag' = w.tag /\ text' = w.text
  BY DEF PutContent
<1>2. /\ Counted(u) /\ s \in Believed(u)
      /\ node[u][i] # None /\ node[u][i].live
  BY DEF PutContent
<1>3. PICK n : n = Put(node[u][i], w.at)
  OBVIOUS
<1>4. /\ Initiator \in Users /\ node[Initiator] \in [Items -> Node \cup {None}]
      /\ node[u][i] \in Node
  BY <1>2, KeysConstants DEF OpenInv, KeysTypeOK
<1>5. n.marked = node[u][i].marked /\ n.live
  BY <1>2, <1>3, <1>4 DEF Put, Node
<1>6. ASSUME Young, u # Initiator
      PROVE  /\ node'[Initiator] = node[Initiator] /\ sealed \subseteq sealed'
             /\ tag'["KS"] = tag["KS"] /\ \A b \in 1..Len(text) : text'[b] = text[b]
  <2>1. s = u /\ ~n.marked
    BY <1>2, <1>5, <1>6, OnlyTheInitiator
  <2>2. node'[Initiator] = node[Initiator]
    BY <1>1, <1>3, <1>4, <1>6, <2>1 DEF Fanned
  <2>3. tag'["KS"] = tag["KS"]
    <3>1. "KS" \in Scopes /\ "KS" # s
      BY <2>1, KeysConstants DEF Scopes
    <3> QED
      BY <1>1, <3>1, StoredLeavesOthers DEF OpenInv
  <2>4. sealed \subseteq w.sealed /\ \A b \in 1..Len(text) : w.text[b] = text[b]
    BY StoredKeeps
  <2> QED
    BY <1>1, <2>2, <2>3, <2>4
<1>7. ASSUME Young, u = Initiator PROVE NothingTrashed'
  <2>1. node'[Initiator] = [node[Initiator] EXCEPT ![i] = n]
    BY <1>1, <1>3, <1>4, <1>7 DEF Fanned
  <2> QED
    BY <1>4, <1>5, <1>7, <2>1 DEF NothingTrashed, PrepareInv
<1> QED
  BY <1>2, <1>6, <1>7, PrepareWritten

LEMMA DeletePrepare ==
  ASSUME Mishaps = {}, OpenInv, OpenInv', PrepareInv, NEW u \in Users,
         NEW i \in Items, DeleteNode(u, i)
  PROVE  PrepareInv'
<1>1. /\ Counted(u) /\ UNCHANGED <<sealed, tag, text>>
      /\ node[u][i] # None /\ ~(u = Initiator /\ Young)
      /\ node' = Fanned(u, i, Trashed(node[u][i]),
                             [v \in Users |-> Trashed(node[v][i])])
  BY DEF DeleteNode, Risk, Young
<1>2. Initiator \in Users /\ node[u][i] \in Node
  BY <1>1, KeysConstants DEF OpenInv, KeysTypeOK
<1>3. PICK n : n = Trashed(node[u][i])
  OBVIOUS
<1>4. n.marked = node[u][i].marked
  BY <1>1, <1>2, <1>3 DEF Trashed, Node
<1>5. ASSUME Young, u # Initiator PROVE node'[Initiator] = node[Initiator]
  <2>1. ~n.marked
    BY <1>1, <1>4, <1>5, OnlyTheInitiator
  <2> QED
    BY <1>1, <1>2, <1>3, <1>5, <2>1 DEF Fanned
<1> QED
  BY <1>1, <1>5, PrepareWritten

LEMMA RestorePrepare ==
  ASSUME Mishaps = {}, OpenInv, OpenInv', PrepareInv, NEW u \in Users,
         NEW i \in Items, NEW b \in Blobs, RestoreNode(u, i, b)
  PROVE  PrepareInv'
<1>1. /\ Counted(u) /\ UNCHANGED <<sealed, tag, text>> /\ node[u][i] # None
      /\ node' = Fanned(u, i, Restored(node[u][i], b),
                             [v \in Users |-> Restored(node[v][i], b)])
  BY DEF RestoreNode
<1>2. /\ Initiator \in Users /\ node[Initiator] \in [Items -> Node \cup {None}]
      /\ node[u][i] \in Node
  BY <1>1, KeysConstants DEF OpenInv, KeysTypeOK
<1>3. PICK n : n = Restored(node[u][i], b)
  OBVIOUS
<1>4. n.marked = node[u][i].marked /\ n.live
  BY <1>1, <1>2, <1>3, RestoredTyped
<1>5. ASSUME Young, u # Initiator PROVE node'[Initiator] = node[Initiator]
  <2>1. ~n.marked
    BY <1>1, <1>4, <1>5, OnlyTheInitiator
  <2> QED
    BY <1>1, <1>2, <1>3, <1>5, <2>1 DEF Fanned
<1>6. ASSUME Young, u = Initiator PROVE NothingTrashed'
  <2>1. node'[Initiator] = [node[Initiator] EXCEPT ![i] = n]
    BY <1>1, <1>2, <1>3, <1>6 DEF Fanned
  <2> QED
    BY <1>2, <1>4, <1>6, <2>1 DEF NothingTrashed, PrepareInv
<1> QED
  BY <1>1, <1>5, <1>6, PrepareWritten

LEMMA BeginPrepare ==
  ASSUME OpenInv, PrepareInv, BeginSharing
  PROVE  PrepareInv'
<1>1. PICK walk : walk = [i \in Items |->
        LET n == node[Initiator][i] IN IF n = None \/ ~n.live THEN None ELSE n.head]
  OBVIOUS
<1>2. PICK c : c = [doing |-> "share", step |-> "create", calm |-> TRUE, todo |-> {},
                    owed |-> [i \in Items |-> {}], walk |-> walk]
  OBVIOUS
<1>3. /\ share = "none" /\ op' = [op EXCEPT ![Initiator] = c]
      /\ UNCHANGED <<share, member, node, sealed, tag, text, writes>>
  BY <1>1, <1>2 DEF BeginSharing
<1>4. op'[Initiator] = c
  BY <1>3, KeysConstants DEF OpenInv, KeysTypeOK
<1>5. Young /\ NothingTrashed /\ HeadsApart
  BY <1>3 DEF Young, PrepareInv
<1>6. CreationHolds'
  BY <1>2, <1>3, <1>4 DEF CreationHolds
<1>7. NothingTrashed' /\ HeadsApart'
  BY <1>3, <1>5 DEF NothingTrashed, HeadsApart
<1>8. ASSUME NEW i \in Items PROVE Walked(i, node[Initiator][i], op[Initiator])'
  <2>1. c.walk[i] = IF node[Initiator][i] = None THEN None ELSE node[Initiator][i].head
    BY <1>1, <1>2, <1>5 DEF NothingTrashed
  <2> QED
    BY <1>2, <1>3, <1>4, <2>1 DEF Walked
<1>9. WalkHolds'
  BY <1>8 DEF WalkHolds
<1> QED
  BY <1>6, <1>7, <1>9 DEF PrepareInv

LEMMA CreateSharePrepare ==
  ASSUME OpenInv, PrepareInv, CreateShare
  PROVE  PrepareInv'
<1>1. /\ share = "none" /\ share' = "preparing"
      /\ node' = [node EXCEPT ![Initiator] = [i \in Items |->
                   IF node[Initiator][i] = None THEN None
                   ELSE [node[Initiator][i] EXCEPT !.marked = TRUE]]]
      /\ op' = [op EXCEPT ![Initiator].step = "owed"]
      /\ UNCHANGED <<sealed, tag, text, writes>>
      /\ Converts(Initiator, "share") /\ op[Initiator].step = "create"
  BY DEF CreateShare, AtStep
<1>2. NothingTrashed /\ HeadsApart /\ WalkHolds
  BY <1>1 DEF PrepareInv, Young
<1>3. /\ node[Initiator] \in [Items -> Node \cup {None}]
      /\ node \in [Users -> [Items -> Node \cup {None}]] /\ Initiator \in Users
      /\ None \notin Node
  BY KeysConstants DEF OpenInv, KeysTypeOK
<1>4. ASSUME NEW i \in Items
      PROVE  /\ node'[Initiator][i] = None <=> node[Initiator][i] = None
             /\ node[Initiator][i] # None =>
                  /\ node'[Initiator][i].live = node[Initiator][i].live
                  /\ node'[Initiator][i].head = node[Initiator][i].head
  <2>1. node'[Initiator][i] = IF node[Initiator][i] = None THEN None
                              ELSE [node[Initiator][i] EXCEPT !.marked = TRUE]
    BY <1>1, <1>3
  <2>2. \A m \in Node : LET x == [m EXCEPT !.marked = TRUE]
                             IN  x \in Node /\ x.live = m.live /\ x.head = m.head
    BY DEF Node
  <2> QED
    BY <1>3, <2>1, <2>2
<1>5. op'[Initiator] = [op[Initiator] EXCEPT !.step = "owed"]
  BY <1>1, <1>3 DEF OpenInv, KeysTypeOK
<1>6. /\ op'[Initiator].step = "owed" /\ op'[Initiator].walk = op[Initiator].walk
      /\ op'[Initiator].calm = op[Initiator].calm
  BY <1>1, <1>5, ShareOpTyped
<1>7. CreationHolds'
  BY <1>1, <1>6 DEF CreationHolds
<1>8. NothingTrashed' /\ HeadsApart'
  BY <1>1, <1>2, <1>4 DEF NothingTrashed, HeadsApart
<1>9. ASSUME op'[Initiator].calm, NEW i \in Items
      PROVE  Walked(i, node[Initiator][i], op[Initiator])'
  <2>1. Walked(i, node[Initiator][i], op[Initiator])
    BY <1>1, <1>2, <1>6, <1>9 DEF WalkHolds
  <2> QED
    BY <1>4, <1>6, <2>1 DEF Walked
<1>10. WalkHolds'
  BY <1>9 DEF WalkHolds
<1> QED
  BY <1>7, <1>8, <1>10 DEF PrepareInv

\* The list is asked for once and says of every file what is missing then.
LEMMA AskPrepare ==
  ASSUME OpenInv, PrepareInv, AskWhatIsOwed
  PROVE  PrepareInv'
<1>1. PICK owed : owed = [i \in Items |-> IF i \in Marked(Initiator)
                            THEN HistoryOwed(node[Initiator][i], "KS") ELSE {}]
  OBVIOUS
<1>2. PICK todo : todo = {i \in Items : op[Initiator].walk[i] # None}
  OBVIOUS
<1>3. PICK c : c = [op[Initiator] EXCEPT !.step = "prepare", !.todo = todo, !.owed = owed]
  OBVIOUS
<1>4. /\ op' = [op EXCEPT ![Initiator] = IF share # "preparing" THEN None ELSE c]
      /\ UNCHANGED <<share, member, node, sealed, tag, text, writes>>
      /\ Converts(Initiator, "share") /\ op[Initiator].step = "owed"
  BY <1>1, <1>2, <1>3 DEF AskWhatIsOwed, AtStep
<1>5. op'[Initiator] = IF share # "preparing" THEN None ELSE c
  BY <1>4, KeysConstants DEF OpenInv, KeysTypeOK
<1>6. /\ c.step = "prepare" /\ c.todo = todo /\ c.owed = owed
      /\ c.walk = op[Initiator].walk /\ c.calm = op[Initiator].calm
  BY <1>3, <1>4, ShareOpTyped
<1>7. Young => NothingTrashed' /\ HeadsApart'
  BY <1>4 DEF PrepareInv, NothingTrashed, HeadsApart
<1>8. CASE share # "preparing"
  <2>1. ~Converts(Initiator, "share")'
    BY <1>5, <1>8 DEF Converts
  <2> QED
    BY <1>4, <1>7, <2>1 DEF PrepareInv, CreationHolds, WalkHolds, Young
<1>9. CASE share = "preparing"
  <2>1. Young /\ WalkHolds /\ op'[Initiator] = c
    BY <1>5, <1>9 DEF Young, PrepareInv
  <2>2. CreationHolds'
    BY <1>4, <1>6, <1>9, <2>1 DEF CreationHolds
  <2>3. ASSUME c.calm, NEW i \in Items
        PROVE  Walked(i, node[Initiator][i], op[Initiator])'
    <3>1. PICK n : n = node[Initiator][i]
      OBVIOUS
    <3>2. op[Initiator].walk[i] = IF n = None THEN None ELSE n.head
      BY <1>4, <1>6, <2>1, <2>3, <3>1 DEF WalkHolds, Walked
    <3>3. ASSUME n # None PROVE i \in todo /\ Waits(n, owed[i])
      <4>1. n.head # None
        BY <3>1, <3>3, HeadsHeld, KeysConstants DEF Node, Blobs
      <4>2. i \in todo
        BY <1>2, <3>2, <3>3, <4>1
      <4>3. Inside(Initiator) /\ n.marked
        BY <1>9, <3>1, <3>3, KeysConstants
           DEF OpenInv, KeysTypeOK, Inside, FilesFit, FileFits
      <4>4. owed[i] = HistoryOwed(n, "KS")
        BY <1>1, <3>1, <3>3, <4>3 DEF Marked
      <4> QED
        BY <4>2, <4>4 DEF Waits, HistoryOwed
    <3>4. n # None => Waits(n, owed[i])'
      BY <1>4, <3>3 DEF Waits, Sealed
    <3> QED
      BY <1>4, <1>6, <2>1, <3>1, <3>2, <3>3, <3>4 DEF Walked, Waits, Ready
  <2>4. WalkHolds'
    BY <2>1, <2>3 DEF WalkHolds
  <2> QED
    BY <1>7, <2>1, <2>2, <2>4 DEF PrepareInv
<1> QED
  BY <1>8, <1>9

\* A batch converts one file and takes no tag from another.
LEMMA BatchPrepare ==
  ASSUME OpenInv, PrepareInv, NEW i \in Items, PrepareBatch(i)
  PROVE  PrepareInv'
<1>1. PICK o : o = op[Initiator]
  OBVIOUS
<1>2. /\ Converts(Initiator, "share") /\ o.step = "prepare" /\ i \in o.todo
      /\ UNCHANGED <<share, member, text, writes>>
  BY <1>1 DEF PrepareBatch, AtStep
<1>3. /\ node \in [Users -> [Items -> Node \cup {None}]] /\ Initiator \in Users
      /\ op \in [Users -> Conversion \cup {None}]
      /\ tag \in [Scopes -> [Texts -> (1..Len(text)) \cup {None}]]
      /\ "KS" \in Scopes
  BY KeysConstants DEF OpenInv, KeysTypeOK, Held, Scopes
<1>4. CASE BatchRefused(i)
  <2>1. op' = [op EXCEPT ![Initiator] = None] /\ UNCHANGED <<node, sealed, tag>>
    BY <1>4 DEF PrepareBatch
  <2>2. ~Converts(Initiator, "share")'
    BY <1>3, <2>1 DEF Converts
  <2>3. Young => NothingTrashed' /\ HeadsApart'
    BY <1>2, <2>1 DEF PrepareInv, NothingTrashed, HeadsApart
  <2> QED
    BY <1>2, <2>2, <2>3 DEF PrepareInv, CreationHolds, WalkHolds, Young
<1>5. CASE ~BatchRefused(i)
  <2>1. /\ node' = [node EXCEPT ![Initiator][i].key = "KS"]
        /\ sealed' = sealed \cup
             Moved(Addresses(o.walk[i], o.owed[i]), Initiator, "KS")
        /\ tag' = [tag EXCEPT !["KS"][text[o.walk[i]]] = o.walk[i]]
        /\ op' = [op EXCEPT ![Initiator].todo = @ \ {i}]
    BY <1>1, <1>5 DEF PrepareBatch, OnDisk
  <2>2. /\ share = "preparing" /\ node[Initiator][i] # None /\ node[Initiator][i].live
        /\ \A b \in Addresses(o.walk[i], o.owed[i]) : Sealed(Initiator, b)
    BY <1>1, <1>5 DEF BatchRefused
  <2>3. Young /\ NothingTrashed /\ HeadsApart /\ WalkHolds
    BY <2>2 DEF Young, PrepareInv
  <2>4. PICK m : m = node[Initiator][i]
    OBVIOUS
  <2>5. PICK n : n = [m EXCEPT !.key = "KS"]
    OBVIOUS
  <2>6. /\ m \in Node /\ m.head \in 1..Len(text) /\ text[m.head] \in Texts
        /\ m.head # None
    BY <2>2, <2>4, HeadsHeld, KeysConstants DEF Node, Blobs
  <2>7. /\ n \in Node /\ n.key = "KS" /\ n.head = m.head /\ n.kept = m.kept
        /\ n.live = m.live
    BY <1>3, <2>5, <2>6 DEF Node
  <2>8. node' = [node EXCEPT ![Initiator][i] = n]
    BY <2>1, <2>4, <2>5
  <2>9. node'[Initiator] = [node[Initiator] EXCEPT ![i] = n] /\ n # None
    BY <1>3, <2>7, <2>8, KeysConstants
  <2>10. \A j \in Items :
           /\ node'[Initiator][j] = None <=> node[Initiator][j] = None
           /\ node[Initiator][j] # None =>
                /\ node'[Initiator][j].live = node[Initiator][j].live
                /\ node'[Initiator][j].head = node[Initiator][j].head
    BY <1>3, <2>2, <2>4, <2>7, <2>9
  <2>11. PICK p : p = [o EXCEPT !.todo = o.todo \ {i}]
    OBVIOUS
  <2>12. /\ op'[Initiator] = p /\ p.step = "prepare" /\ p.todo = o.todo \ {i}
         /\ p.walk = o.walk /\ p.owed = o.owed /\ p.calm = o.calm
    BY <1>1, <1>2, <1>3, <2>1, <2>11, ShareOpTyped
  <2>13. CreationHolds'
    BY <1>2, <2>2, <2>12 DEF CreationHolds
  <2>14. NothingTrashed' /\ HeadsApart'
    BY <1>2, <2>3, <2>10 DEF NothingTrashed, HeadsApart
  <2>15. ASSUME p.calm
         PROVE  /\ \A j \in Items : Walked(j, node[Initiator][j], o)
                /\ o.walk[i] = m.head /\ Waits(m, o.owed[i])
    <3>1. \A j \in Items : Walked(j, node[Initiator][j], o)
      BY <1>1, <1>2, <2>3, <2>12, <2>15 DEF WalkHolds
    <3> QED
      BY <1>2, <2>2, <2>4, <3>1 DEF Walked
  <2>16. ASSUME p.calm, NEW j \in Items
         PROVE  Walked(j, node[Initiator][j], op[Initiator])'
    <3>1. tag' = [tag EXCEPT !["KS"][text[m.head]] = m.head]
      BY <2>1, <2>15, <2>16
    <3>2. \A s, b : Sealed(s, b) => Sealed(s, b)'
      BY <2>1 DEF Sealed
    <3>3. \A b \in o.owed[i] \cup {m.head} : Sealed("KS", b)'
      <4>1. \A b \in o.owed[i] \cup {m.head} :
              b \in Addresses(o.walk[i], o.owed[i])
        BY <2>6, <2>15, <2>16 DEF Addresses
      <4> QED
        BY <2>1, <2>2, <4>1 DEF Moved, Sealed
    <3>4. PICK x : x = node'[Initiator][j]
      OBVIOUS
    <3>5. CASE j = i
      <4>1. x = n
        BY <1>3, <2>9, <3>4, <3>5
      <4>2. \A b \in n.kept \cup {n.head} : Sealed("KS", b)'
        BY <2>7, <2>15, <2>16, <3>2, <3>3 DEF Waits
      <4>3. tag'["KS"][text[n.head]] = n.head
        BY <1>3, <2>6, <2>7, <3>1
      <4>4. Ready(n)'
        BY <1>2, <2>7, <4>2, <4>3 DEF Ready
      <4>5. i \notin p.todo /\ p.walk[i] = n.head
        BY <2>7, <2>12, <2>15, <2>16
      <4>6. Walked(i, n, p)'
        BY <2>9, <4>4, <4>5 DEF Walked
      <4> QED
        BY <2>12, <3>4, <3>5, <4>1, <4>6 DEF Walked, Waits, Ready
    <3>6. CASE j # i
      <4>1. x = node[Initiator][j] /\ Walked(j, x, o)
        BY <1>3, <2>9, <2>15, <2>16, <3>4, <3>6
      <4>2. x # None /\ Ready(x) => Ready(x)'
        <5> SUFFICES ASSUME x # None, Ready(x) PROVE Ready(x)'
          OBVIOUS
        <5>1. /\ x.head \in 1..Len(text) /\ text[x.head] \in Texts
              /\ text[x.head] = text[m.head] => x.head = m.head
          BY <2>2, <2>3, <2>4, <4>1, HeadsHeld DEF HeadsApart
        <5>2. tag'["KS"][text[x.head]] = x.head
          BY <1>3, <2>6, <3>1, <5>1 DEF Ready
        <5> QED
          BY <1>2, <3>2, <5>2 DEF Ready
      <4>3. Waits(x, o.owed[j]) => Waits(x, o.owed[j])'
        BY <3>2 DEF Waits
      <4>4. Walked(j, x, p)'
        BY <1>2, <2>12, <3>6, <4>1, <4>2, <4>3 DEF Walked
      <4> QED
        BY <2>12, <3>4, <4>4 DEF Walked, Waits, Ready
    <3> QED
      BY <3>5, <3>6
  <2>17. WalkHolds'
    BY <2>12, <2>16 DEF WalkHolds
  <2> QED
    BY <2>13, <2>14, <2>17 DEF PrepareInv
<1> QED
  BY <1>4, <1>5

LEMMA EndPrepare ==
  ASSUME OpenInv, PrepareInv, EndBatches
  PROVE  PrepareInv'
<1>1. PICK o : o = op[Initiator]
  OBVIOUS
<1>2. PICK p : p = [o EXCEPT !.step = "activate"]
  OBVIOUS
<1>3. /\ Converts(Initiator, "share") /\ o.step = "prepare" /\ o.todo = {}
      /\ op' = [op EXCEPT ![Initiator] = p]
      /\ UNCHANGED <<share, member, node, sealed, tag, text, writes>>
  BY <1>1, <1>2 DEF EndBatches, AtStep
<1>4. op'[Initiator] = p
  BY <1>3, KeysConstants DEF OpenInv, KeysTypeOK
<1>5. /\ p.step = "activate" /\ p.todo = {} /\ p.walk = o.walk /\ p.owed = o.owed
      /\ p.calm = o.calm
  BY <1>1, <1>2, <1>3, ShareOpTyped
<1>6. CreationHolds'
  BY <1>1, <1>3, <1>4, <1>5 DEF PrepareInv, CreationHolds
<1>7. ASSUME Young PROVE NothingTrashed' /\ HeadsApart' /\ WalkHolds'
  <2>1. NothingTrashed' /\ HeadsApart'
    BY <1>3, <1>7 DEF PrepareInv, NothingTrashed, HeadsApart
  <2>2. ASSUME p.calm, NEW i \in Items PROVE Walked(i, node[Initiator][i], op[Initiator])'
    <3>1. Walked(i, node[Initiator][i], o)
      BY <1>1, <1>3, <1>5, <1>7, <2>2 DEF PrepareInv, WalkHolds
    <3> QED
      BY <1>3, <1>4, <1>5, <3>1 DEF Walked, Ready, Sealed
  <2> QED
    BY <1>4, <2>1, <2>2 DEF WalkHolds
<1> QED
  BY <1>3, <1>6, <1>7 DEF PrepareInv, Young

\* A step that is over with the conversion of the initiator, if it had one.
LEMMA PrepareIsOver ==
  ASSUME OpenInv, PrepareInv, ~Converts(Initiator, "share")',
         Young' => Young /\ node'[Initiator] = node[Initiator] /\ UNCHANGED text
  PROVE  PrepareInv'
<1>1. CreationHolds' /\ WalkHolds'
  BY DEF CreationHolds, WalkHolds
<1>2. Young' => NothingTrashed' /\ HeadsApart'
  <2> SUFFICES ASSUME Young' PROVE NothingTrashed' /\ HeadsApart'
    OBVIOUS
  <2>1. NothingTrashed /\ HeadsApart /\ node'[Initiator] = node[Initiator] /\ text' = text
    BY DEF PrepareInv
  <2> QED
    BY <2>1 DEF NothingTrashed, HeadsApart
<1> QED
  BY <1>1, <1>2 DEF PrepareInv

LEMMA ActivatePrepare ==
  ASSUME OpenInv, PrepareInv, Activate
  PROVE  PrepareInv'
<1>1. /\ share' \in {share, "active"} /\ op' = [op EXCEPT ![Initiator] = None]
      /\ UNCHANGED <<node, text>>
  BY DEF Activate
<1>2. ~Converts(Initiator, "share")'
  BY <1>1, KeysConstants DEF OpenInv, KeysTypeOK, Converts
<1> QED
  BY <1>1, <1>2, PrepareIsOver DEF Young

LEMMA CancelPrepare ==
  ASSUME OpenInv, PrepareInv, CancelShare
  PROVE  PrepareInv'
<1>1. /\ share = "preparing" /\ share' = "cancelled" /\ op' = op
      /\ member' = [member EXCEPT ![Initiator] = "left"]
  BY DEF CancelShare
<1>2. member'[Initiator] = "left"
  BY <1>1, KeysConstants DEF OpenInv, KeysTypeOK
<1> QED
  BY <1>1, <1>2 DEF PrepareInv, CreationHolds, Young, Converts

\* Who may depart is in a share that is active, or is the initiator.
LEMMA OthersDepartLater ==
  ASSUME OpenInv, PrepareInv, NEW u \in Users, Depart(u),
         u = Initiator => ~Converts(u, "share")',
         u # Initiator => op'[Initiator] = op[Initiator]
  PROVE  PrepareInv'
<1>1. /\ share \in {"preparing", "active"} /\ Initiator \in Users
      /\ share = "preparing" => u = Initiator
  BY KeysConstants DEF Depart, MayDepart, OpenInv, KeysTypeOK, Populations
<1>2. ~Converts(Initiator, "share")'
  <2>1. CASE u # Initiator
    <3>1. share = "active" /\ op'[Initiator] = op[Initiator]
      BY <1>1, <2>1
    <3>2. ~Converts(Initiator, "share")
      BY <3>1 DEF PrepareInv, CreationHolds
    <3> QED
      BY <3>1, <3>2 DEF Converts
  <2> QED
    BY <2>1
<1>3. ~Young'
  BY <1>1 DEF Young, Depart, EndsShare
<1> QED
  BY <1>2, <1>3, PrepareIsOver

LEMMA MembersPrepare ==
  ASSUME OpenInv, PrepareInv, NEW u \in Users,
         Invite(u) \/ Decline(u) \/ JoinShare(u) \/ RemoveMember(u)
  PROVE  PrepareInv'
<1>1. CASE Invite(u) \/ Decline(u) \/ JoinShare(u)
  <2>1. /\ UNCHANGED <<share, sealed, tag, text, op>> /\ u # Initiator
        /\ \E p : member' = [member EXCEPT ![u] = p]
        /\ UNCHANGED node \/ share = "active"
    BY <1>1 DEF Invite, Decline, JoinShare, Live, OpenInv, Populations
  <2>2. member'[Initiator] = member[Initiator]
    BY <2>1, KeysConstants DEF OpenInv, KeysTypeOK
  <2> QED
    BY <2>1, <2>2, PrepareGoesOn DEF Young
<1>2. CASE RemoveMember(u)
  BY <1>2, OthersDepartLater DEF RemoveMember
<1> QED
  BY <1>1, <1>2

LEMMA LeavingPrepare ==
  ASSUME OpenInv, PrepareInv, NEW u \in Users,
         ListReplica(u) \/ BeginLeave(u) \/ FinalizeLeave(u) \/ GiveUp(u)
  PROVE  PrepareInv'
<1>1. /\ op \in [Users -> Conversion \cup {None}] /\ Initiator \in Users
      /\ member \in [Users -> {"none", "invited", "joined", "finalizing", "left"}]
  BY KeysConstants DEF OpenInv, KeysTypeOK
<1>2. CASE BeginLeave(u)
  <2>1. /\ op[u] # None /\ op[u].doing = "leave"
        /\ op' = [op EXCEPT ![u].step = "finalize"] \/ op' = [op EXCEPT ![u] = None]
        /\ Depart(u) \/ UNCHANGED <<share, member>>
        /\ UNCHANGED <<node, sealed, tag, text, writes>>
    BY <1>2 DEF BeginLeave, AtStep, Converts
  <2>2. op[u] \in [doing : {"leave"}, step : {"begin", "finalize"},
                   rows : UNION {[S -> Row] : S \in SUBSET Items}]
    BY <1>1, <2>1 DEF Conversion
  <2>3. PICK c : c = [op[u] EXCEPT !.step = "finalize"]
    OBVIOUS
  <2>4. c.doing = "leave"
    BY <2>2, <2>3
  <2>5. op' = [op EXCEPT ![u] = c] \/ op' = [op EXCEPT ![u] = None]
    BY <2>1, <2>3
  <2>6. ~Converts(u, "share")'
    BY <1>1, <2>4, <2>5 DEF Converts
  <2>7. \A v \in Users \ {u} : op'[v] = op[v]
    BY <1>1, <2>5
  <2>8. CASE Depart(u)
    BY <1>1, <2>6, <2>7, <2>8, OthersDepartLater
  <2>9. CASE UNCHANGED <<share, member>> /\ u = Initiator
    BY <2>1, <2>6, <2>9, PrepareIsOver DEF Young
  <2>10. CASE UNCHANGED <<share, member>> /\ u # Initiator
    BY <1>1, <2>1, <2>7, <2>10, PrepareGoesOn
  <2> QED
    BY <2>1, <2>8, <2>9, <2>10
<1>3. CASE ListReplica(u)
  <2>1. PICK c : c = [doing |-> "leave", step |-> "begin", rows |-> Listing(u)]
    OBVIOUS
  <2>2. /\ op' = [op EXCEPT ![u] = c] /\ c.doing = "leave"
        /\ UNCHANGED <<share, member, node, sealed, tag, text, writes>>
    BY <1>3, <2>1 DEF ListReplica
  <2>3. op'[u] = c /\ \A v \in Users \ {u} : op'[v] = op[v]
    BY <1>1, <2>2
  <2>4. CASE u = Initiator
    BY <2>2, <2>3, <2>4, PrepareIsOver DEF Young, Converts
  <2>5. CASE u # Initiator
    BY <1>1, <2>2, <2>3, <2>5, PrepareGoesOn
  <2> QED
    BY <2>4, <2>5
<1>4. CASE FinalizeLeave(u) \/ GiveUp(u)
  <2>1. /\ op' = [op EXCEPT ![u] = None] /\ share' = share
        /\ \/ UNCHANGED <<member, node, sealed, tag, text>>
           \/ /\ member[u] = "finalizing" /\ text' = text
              /\ member' = [member EXCEPT ![u] = "left"]
              /\ \E n : node' = [node EXCEPT ![u] = n]
    BY <1>4 DEF FinalizeLeave, GiveUp, FinalizeAccepted, MayLeave
  <2>2. op'[u] = None /\ \A v \in Users \ {u} : op'[v] = op[v]
    BY <1>1, <2>1
  <2>3. Young => UNCHANGED <<member, node, sealed, tag, text>>
    BY <1>1, <2>1 DEF Young, OpenInv, Populations, KeysTypeOK
  <2>4. CASE u = Initiator
    BY <2>1, <2>2, <2>3, <2>4, PrepareIsOver DEF Young, Converts
  <2>5. CASE u # Initiator
    <3>1. member'[Initiator] = member[Initiator]
      BY <1>1, <2>1, <2>5
    <3> QED
      BY <1>1, <2>1, <2>2, <2>3, <2>5, <3>1, PrepareGoesOn
  <2> QED
    BY <2>4, <2>5
<1> QED
  BY <1>2, <1>3, <1>4

LEMMA InitPrepare ==
  ASSUME KeysInit
  PROVE  PrepareInv
<1>1. ~Converts(Initiator, "share")
  BY KeysConstants DEF KeysInit, Converts
<1>2. PICK i \in Items :
        node = [u \in Users |-> [j \in Items |->
                  IF u = Initiator /\ j = i
                  THEN [live |-> TRUE, marked |-> FALSE, key |-> u,
                        head |-> 2, kept |-> {1, 2}]
                  ELSE None]]
  BY DEF KeysInit
<1>3. \A j \in Items : node[Initiator][j] # None =>
        j = i /\ node[Initiator][j].live
  BY <1>2, KeysConstants
<1>4. NothingTrashed /\ HeadsApart
  BY <1>3 DEF NothingTrashed, HeadsApart
<1> QED
  BY <1>1, <1>4 DEF PrepareInv, CreationHolds, WalkHolds

LEMMA KeysStepPrepares ==
  ASSUME Mishaps = {}, OpenInv, OpenInv', PrepareInv, [KeysNext]_keysVars
  PROVE  PrepareInv'
<1>1. CASE UNCHANGED keysVars
  BY <1>1, PrepareGoesOn DEF keysVars
<1>2. ASSUME NEW u \in Users, NEW i \in Items, NEW t \in Texts, NEW s \in Scopes,
             CreateNode(u, i, t, s) \/ PutContent(u, i, t, s)
      PROVE  PrepareInv'
  BY <1>2, CreatePrepare, PutPrepare
<1>3. ASSUME NEW u \in Users, NEW i \in Items,
             DeleteNode(u, i) \/ \E b \in Blobs : RestoreNode(u, i, b)
      PROVE  PrepareInv'
  BY <1>3, DeletePrepare, RestorePrepare
<1>4. CASE BeginSharing \/ CreateShare \/ AskWhatIsOwed \/ EndBatches
           \/ Activate \/ CancelShare
  BY <1>4, BeginPrepare, CreateSharePrepare, AskPrepare, EndPrepare, ActivatePrepare,
     CancelPrepare
<1>5. ASSUME NEW i \in Items, PrepareBatch(i) PROVE PrepareInv'
  BY <1>5, BatchPrepare
<1>6. ASSUME NEW u \in Users,
             Invite(u) \/ Decline(u) \/ JoinShare(u) \/ RemoveMember(u)
      PROVE  PrepareInv'
  BY <1>6, MembersPrepare
<1>7. ASSUME NEW u \in Users,
             ListReplica(u) \/ BeginLeave(u) \/ FinalizeLeave(u)
             \/ GiveUp(u)
      PROVE  PrepareInv'
  BY <1>7, LeavingPrepare
<1> QED
  BY <1>1, <1>2, <1>3, <1>4, <1>5, <1>6, <1>7 DEF KeysNext

\* What is ready on the device is complete on the server.
LEMMA ReadyIsAccepted ==
  ASSUME OpenInv, PrepareInv
  PROVE  PreparedIsAccepted
<1> SUFFICES ASSUME AtStep(Initiator, "share", "activate"), op[Initiator].calm
             PROVE  ActivationAccepted
  BY DEF PreparedIsAccepted
<1>1. /\ Converts(Initiator, "share") /\ op[Initiator].step = "activate"
      /\ op[Initiator].todo = {}
      /\ share = "preparing" \/ (share = "cancelled" /\ member[Initiator] = "left")
  BY DEF AtStep, PrepareInv, CreationHolds
<1>2. ASSUME NEW i \in Marked(Initiator)
      PROVE  LET n == node[Initiator][i]
             IN  /\ n.key = "KS" /\ \A b \in n.kept \cup {n.head} : Sealed("KS", b)
                 /\ Tagged(tag, "KS", n.head)
  <2>1. PICK n : n = node[Initiator][i]
    OBVIOUS
  <2>2. i \in Items /\ n # None /\ n.marked
    BY <2>1 DEF Marked
  <2>3. Inside(Initiator)
    BY <2>1, <2>2, KeysConstants DEF OpenInv, FilesFit, FileFits
  <2>4. share = "preparing"
    BY <1>1, <2>3 DEF Inside
  <2>5. Ready(n)
    BY <1>1, <2>1, <2>2, <2>4 DEF PrepareInv, Young, WalkHolds, Walked
  <2>6. text[n.head] \in Texts
    BY <2>1, <2>2, HeadsHeld
  <2> QED
    BY <2>1, <2>5, <2>6 DEF Ready, Tagged
<1>3. Gaps = {}
  BY <1>2 DEF Gaps, NeedsMaterial, HistoryOwed
<1> QED
  BY <1>2, <1>3 DEF ActivationAccepted

LEMMA PrepareAlways ==
  ASSUME Mishaps = {} PROVE KeysSpec => [](OpenInv /\ PrepareInv)
<1>1. KeysInit => OpenInv /\ PrepareInv
  BY InitOpen, InitPrepare
<1>2. (OpenInv /\ PrepareInv) /\ [KeysNext]_keysVars => (OpenInv /\ PrepareInv)'
  BY KeysStepOpen, KeysStepPrepares
<1> QED
  BY <1>1, <1>2, PTL DEF KeysSpec

\* A folder nobody wrote to since the device walked it is complete for the server
\* when the last batch has been sent, where no text is sealed twice and nothing
\* of the folder is in the trash.
THEOREM PreparedAlwaysAccepted ==
  ASSUME Mishaps = {} PROVE KeysSpec => []PreparedIsAccepted
<1>1. OpenInv /\ PrepareInv => PreparedIsAccepted
  BY ReadyIsAccepted
<1> QED
  BY <1>1, PrepareAlways, PTL
=============================================================================
