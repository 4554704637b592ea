------------------------------- MODULE Wakeup -------------------------------
(***************************************************************************)
(* What starts a pass that nobody pressed for.  A write notifies the one   *)
(* LISTEN of the server, the hub fans it out to the sockets of the         *)
(* account, and a hint asks the device for a pass; an edit on the device   *)
(* asks for one after a quiet period.  Both ask the gate, which lets one   *)
(* operation in at a time.                                                 *)
(*                                                                         *)
(* Both legs break and come back by themselves: the LISTEN by a cycle of   *)
(* attempts that may be superseded or stopped between any two awaits, the  *)
(* socket by a schedule of connections with a token that may be stale.     *)
(* Delays are left out: a timer that is set may fire at any later time.    *)
(***************************************************************************)
EXTENDS Naturals

CONSTANTS MaxWrites,    \* bound on writes of other devices
          MaxEdits,     \* bound on edits of this device
          MaxAttempts,  \* bound on attempts to LISTEN
          MaxSockets,   \* bound on sockets this device has at once
          MaxTurns,     \* bound on faults and on acts of a person, taken together
          LateAnswers   \* whether a refresh or a close may outlast the delay of a connection

ASSUME BoundsAreNaturals ==
  {MaxWrites, MaxEdits, MaxAttempts, MaxSockets, MaxTurns} \subseteq Nat

\* A turn costs one attempt, or leaves one socket to close, at most: no leg
\* stops at a bound.
ASSUME LegsOutnumberTurns == MaxTurns < MaxAttempts /\ MaxTurns < MaxSockets

VARIABLES head,     \* vaults.head_rev, raised by the writes of others
          leg,      \* the closure of subscribe(): its attempts and what it holds
          events,   \* drops of connections that their handlers have not seen yet
          hub,      \* notifications under way to the hub, fan-outs begun, subscribers
          session,  \* whether it is open, its access token, whether it can be refreshed
          push,     \* the PushListener main.ts holds
          sockets,  \* the sockets PushListeners made, until they are closed
          gate,     \* what holds the gate, and how far a pass in it is
          watcher,  \* the quiet period and the setting behind it
          known,    \* the write and the edit the last finished pass covers
          excused,  \* edits no pass is owed: made with the setting off, or asked for in vain
          spent     \* how many of MaxTurns

serverSide == <<leg, events, hub>>
deviceSide == <<session, push, sockets, gate, watcher, known, excused>>
vars == <<head, serverSide, deviceSide, spent>>

Attempts == 1..MaxAttempts
Sockets == 1..MaxSockets

\* `at`: what each attempt waits for; `current` the connection subscribed;
\* `held` the connections not given back to the pool, named by their attempt.
Leg == [generation : 0..(MaxAttempts + 1), at : [Attempts -> {"none", "connect", "listen", "done"}],
        current : 0..MaxAttempts, held : SUBSET Attempts, broken : SUBSET Attempts,
        retry : BOOLEAN, stop : {"no", "unlisten", "wait", "resolved"}]
Hub == [notified : 0..MaxWrites, fanning : 0..MaxWrites, subscribers : SUBSET Sockets]
Session == [open : BOOLEAN, fresh : BOOLEAN, refreshable : BOOLEAN]
Push == [on : BOOLEAN, socket : 0..MaxSockets, timer : BOOLEAN, refreshing : BOOLEAN]

\* `of`: made by the listener main.ts holds now.  `token`: still good.
Socket == [at : {"none", "opening", "asked", "accepted", "live", "refused", "closing"},
           of : BOOLEAN, token : BOOLEAN, hints : 0..MaxWrites]
NoSocket == [at |-> "none", of |-> FALSE, token |-> FALSE, hints |-> 0]
Gate == [by : {"free", "sync", "other"}, at : {"none", "prompt", "begun", "read"},
         head : 0..MaxWrites, edits : 0..MaxEdits]
Watcher == [armed : BOOLEAN, auto : BOOLEAN, edits : 0..MaxEdits]

CanTurn == spent < MaxTurns

\* A fault, or an act of a person: what was on its way may be lost by it.
Turn == CanTurn /\ spent' = spent + 1

------------------------------------------------------------------------------
(* subscribe: one LISTEN, again and again.                                  *)

Stopped == leg.stop # "no"
Hears == leg.current # 0 /\ leg.current \notin leg.broken

\* Mutant: an attempt that was stopped subscribes all the same.
GoesOn(l, g) == TRUE

\* Not stopped, not superseded: asked after every await of an attempt.
StillAsked(l, g) == l.stop = "no" /\ l.generation = g

\* scheduleReconnect
Scheduled(l) == [l EXCEPT !.retry = l.retry \/ l.stop = "no"]
Released(l, g) == [l EXCEPT !.held = @ \ {g}]

\* run, from the timer.
Run ==
    /\ leg.retry /\ leg.generation < MaxAttempts
    /\ leg' = [leg EXCEPT !.retry = FALSE, !.generation = @ + 1,
                          !.at = [@ EXCEPT ![leg.generation + 1] = "connect"]]
    /\ UNCHANGED <<head, events, hub, deviceSide, spent>>

\* A connection of the pool; one that comes too late goes back at once.
Connected(g) ==
    /\ leg.at[g] = "connect"
    /\ leg' = IF StillAsked(leg, g)
              THEN [leg EXCEPT !.at = [@ EXCEPT ![g] = "listen"], !.held = @ \cup {g}]
              ELSE [leg EXCEPT !.at = [@ EXCEPT ![g] = "done"]]
    /\ UNCHANGED <<head, events, hub, deviceSide, spent>>

\* LISTEN is answered.
Subscribed(g) ==
    /\ leg.at[g] = "listen"
    /\ LET done == [leg EXCEPT !.at = [@ EXCEPT ![g] = "done"]]
       IN  leg' = IF StillAsked(leg, g) THEN [done EXCEPT !.current = g] ELSE Released(done, g)
    /\ UNCHANGED <<head, events, hub, deviceSide, spent>>

\* The pool is down, or the LISTEN fails.
AttemptFails(g) ==
    /\ leg.at[g] \in {"connect", "listen"}
    /\ leg' = Scheduled(Released([leg EXCEPT !.at = [@ EXCEPT ![g] = "done"]], g))
    /\ Turn
    /\ UNCHANGED <<head, events, hub, deviceSide>>

\* The connection drops: `error` and then `end`, each to be seen by itself.
Drop ==
    /\ Hears
    /\ leg' = [leg EXCEPT !.broken = @ \cup {leg.current}]
    /\ events' = events \cup {<<leg.current, "error">>, <<leg.current, "end">>}
    /\ hub' = [hub EXCEPT !.notified = 0]
    /\ Turn
    /\ UNCHANGED <<head, deviceSide>>

\* A stale event of a connection already replaced changes nothing.
Torn(g) ==
    IF leg.current = g
    THEN Scheduled(Released([leg EXCEPT !.current = 0], g)) ELSE leg

Teardown(g, e) ==
    /\ <<g, e>> \in events
    /\ e = "end" => <<g, "error">> \notin events
    /\ events' = events \ {<<g, e>>}
    /\ leg' = Torn(g)
    /\ UNCHANGED <<head, hub, deviceSide, spent>>

\* stop, as far as its first await: the server is told to go down.
Stop ==
    /\ ~Stopped
    /\ leg' = [leg EXCEPT !.stop = IF leg.current # 0 THEN "unlisten" ELSE "wait",
                          !.generation = @ + 1, !.retry = FALSE, !.current = 0]
    /\ hub' = [hub EXCEPT !.notified = 0, !.subscribers = {}]
    /\ Turn
    /\ UNCHANGED <<head, events, deviceSide>>

\* UNLISTEN, answered or not, and the connection goes back.
Unlisten ==
    /\ leg.stop = "unlisten"
    /\ leg' = [leg EXCEPT !.stop = "wait",
                          !.held = {g \in leg.held : leg.at[g] = "listen"}]
    /\ UNCHANGED <<head, events, hub, deviceSide, spent>>

\* The attempt in flight is waited for.
StopResolves ==
    /\ leg.stop = "wait"
    /\ \A g \in Attempts : leg.at[g] \in {"none", "done"}
    /\ leg' = [leg EXCEPT !.stop = "resolved"]
    /\ UNCHANGED <<head, events, hub, deviceSide, spent>>

------------------------------------------------------------------------------
(* The hub and its route.                                                   *)

Up == Hears /\ push.on /\ push.socket # 0 /\ sockets[push.socket].at = "live"

\* journal_notify: delivered with the commit, to whoever listens.
Write ==
    /\ head < MaxWrites
    /\ head' = head + 1
    /\ hub' = IF Hears THEN [hub EXCEPT !.notified = @ + 1] ELSE hub
    /\ UNCHANGED <<leg, events, deviceSide, spent>>

\* The handler asks who owns the vault, and does not wait for the one before.
Notified ==
    /\ hub.notified > 0 /\ Hears
    /\ hub' = [hub EXCEPT !.notified = @ - 1, !.fanning = @ + 1]
    /\ UNCHANGED <<head, leg, events, deviceSide, spent>>

FanOut ==
    /\ hub.fanning > 0
    /\ hub' = [hub EXCEPT !.fanning = @ - 1]
    /\ sockets' = [s \in Sockets |->
                     IF s \in hub.subscribers /\ sockets[s].at \in {"accepted", "live"}
                     THEN [sockets[s] EXCEPT !.hints = @ + 1] ELSE sockets[s]]
    /\ UNCHANGED <<head, leg, events, session, push, gate, watcher, known, excused,
                   spent>>

\* The owner cannot be read: a missed hint.
FanOutFails ==
    /\ hub.fanning > 0
    /\ hub' = [hub EXCEPT !.fanning = @ - 1]
    /\ Turn
    /\ UNCHANGED <<head, leg, events, deviceSide>>

At(s, at) == sockets' = [sockets EXCEPT ![s].at = at]

Joined(s) == hub.subscribers \cup {s}

\* beginSocketAuth: the first frame settles it, by the signature and the
\* lifetime of the token.
Verify(s) ==
    /\ sockets[s].at = "asked"
    /\ IF sockets[s].token
       THEN At(s, "accepted") /\ hub' = [hub EXCEPT !.subscribers = Joined(s)]
       ELSE At(s, "refused") /\ UNCHANGED hub
    /\ UNCHANGED <<head, leg, events, session, push, gate, watcher, known, excused, spent>>

AuthTimesOut(s) ==
    /\ sockets[s].at \in {"opening", "asked"}
    /\ At(s, "refused")
    /\ Turn
    /\ UNCHANGED <<head, serverSide, session, push, gate, watcher, known, excused>>

------------------------------------------------------------------------------
(* PushListener.                                                            *)

\* schedule: one timer at a time, none once stopped.
Schedule(p) == [p EXCEPT !.timer = p.timer \/ p.on]

Unused == {s \in Sockets : sockets[s].at = "none"}
InTime == ~push.refreshing /\ \A s \in Sockets : sockets[s].of => sockets[s].at # "closing"

\* connect, from the timer; with the session locked it is tried again later.
\* A late answer has set a timer though a socket is open: the new one takes its
\* place in `socket`, and nothing will close the old one.
Connect ==
    /\ push.timer /\ session.open /\ Unused # {}
    /\ LateAnswers \/ InTime
    /\ LET s == CHOOSE x \in Unused : TRUE IN
       /\ sockets' = [sockets EXCEPT ![s] = [NoSocket EXCEPT !.at = "opening", !.of = TRUE,
                                 !.token = session.fresh]]
       /\ push' = [push EXCEPT !.timer = FALSE, !.socket = s]
    /\ UNCHANGED <<head, serverSide, session, gate, watcher, known, excused, spent>>

\* onopen: the token goes first.
Opened(s) ==
    /\ sockets[s].at = "opening"
    /\ At(s, "asked")
    /\ UNCHANGED <<head, serverSide, session, push, gate, watcher, known, excused, spent>>

\* onmessage, before the socket is known to be accepted.
Accepted(s) ==
    /\ sockets[s].at = "accepted"
    /\ At(s, "live")
    /\ UNCHANGED <<head, serverSide, session, push, gate, watcher, known, excused, spent>>

\* Closed here, and a refresh is begun; the close comes by itself.
Refused(s) ==
    /\ sockets[s].at = "refused"
    /\ At(s, "closing")
    /\ push' = IF sockets[s].of THEN [push EXCEPT !.refreshing = TRUE] ELSE push
    /\ UNCHANGED <<head, serverSide, session, gate, watcher, known, excused, spent>>

\* The refresh is over, well or not, and a connection is scheduled.
Refreshed ==
    /\ push.refreshing
    /\ push' = Schedule([push EXCEPT !.refreshing = FALSE])
    /\ session' = [session EXCEPT !.fresh = @ \/ (session.open /\ session.refreshable)]
    /\ UNCHANGED <<head, serverSide, sockets, gate, watcher, known, excused, spent>>

\* Mutant: a socket that closed is kept.
KeepsClosed(s) == push

ForgetsOwn(s) == IF push.socket = s THEN [push EXCEPT !.socket = 0] ELSE push

\* Mutant: a socket that closes schedules nothing.
ClosedForGood(s) == IF sockets[s].of THEN ForgetsOwn(s) ELSE push

\* onclose
AfterClose(s) == IF sockets[s].of THEN Schedule(ForgetsOwn(s)) ELSE push

Closed(s) ==
    /\ sockets[s].at = "closing"
    /\ sockets' = [sockets EXCEPT ![s] = NoSocket]
    /\ hub' = [hub EXCEPT !.subscribers = @ \ {s}]
    /\ push' = AfterClose(s)
    /\ UNCHANGED <<head, leg, events, session, gate, watcher, known, excused, spent>>

\* The network, or the server going down.
Break(s) ==
    /\ sockets[s].at \in {"opening", "asked", "accepted", "live"}
    /\ sockets' = [sockets EXCEPT ![s].at = "closing", ![s].hints = 0]
    /\ Turn
    /\ UNCHANGED <<head, serverSide, session, push, gate, watcher, known, excused>>

\* The access token is past its lifetime.  A socket already accepted stays.
Expire ==
    /\ session.fresh
    /\ session' = [session EXCEPT !.fresh = FALSE]
    /\ sockets' = [s \in Sockets |-> [sockets[s] EXCEPT !.token = FALSE]]
    /\ Turn
    /\ UNCHANGED <<head, serverSide, push, gate, watcher, known, excused>>

\* A refresh fails: whatever the reason, the refresh token is dropped.
LoseRefresh ==
    /\ session.refreshable /\ ~session.fresh
    /\ session' = [session EXCEPT !.refreshable = FALSE]
    /\ UNCHANGED <<head, serverSide, push, sockets, gate, watcher, known, excused, spent>>

------------------------------------------------------------------------------
(* The gate and the passes.                                                 *)

Free == gate.by = "free"
Nobody == [by |-> "free", at |-> "none", head |-> 0, edits |-> 0]
Pass(at) == [Nobody EXCEPT !.by = "sync", !.at = at]

\* An unattended pass: none with the gate held, none with the session locked.
Unattended == IF Free /\ session.open THEN Pass("begun") ELSE gate

\* onNotify: a hint is dropped where no pass can start.
Hint(s) ==
    /\ sockets[s].at = "live" /\ sockets[s].hints > 0
    /\ sockets' = [sockets EXCEPT ![s].hints = @ - 1]
    /\ gate' = Unattended
    /\ UNCHANGED <<head, serverSide, session, push, watcher, known, excused, spent>>

\* Mutant: a quiet period that ends while the gate is held is over.
RunOrForget ==
    /\ watcher.armed
    /\ watcher' = [watcher EXCEPT !.armed = FALSE]
    /\ gate' = Unattended
    /\ excused' = IF Free /\ ~session.open THEN watcher.edits ELSE excused
    /\ UNCHANGED <<head, serverSide, session, push, sockets, known, spent>>

\* The quiet period ends.  It begins again for as long as the gate is held.
Settle ==
    /\ watcher.armed /\ Free
    /\ watcher' = [watcher EXCEPT !.armed = FALSE]
    /\ gate' = Unattended
    /\ excused' = IF session.open THEN excused ELSE watcher.edits
    /\ UNCHANGED <<head, serverSide, session, push, sockets, known, spent>>

\* touched: with the setting off, what counts down is stopped too.
Edit ==
    /\ watcher.edits < MaxEdits
    /\ watcher' = [watcher EXCEPT !.edits = @ + 1, !.armed = watcher.auto]
    /\ excused' = IF watcher.auto THEN excused ELSE watcher.edits + 1
    /\ UNCHANGED <<head, serverSide, session, push, sockets, gate, known, spent>>

\* The setting alone stops nothing that counts down.
Switch ==
    /\ watcher' = [watcher EXCEPT !.auto = ~@]
    /\ Turn
    /\ UNCHANGED <<head, serverSide, session, push, sockets, gate, known, excused>>

\* A person presses, and is asked for the passphrase where it is needed.
Press ==
    /\ Free
    /\ gate' = Pass(IF session.open THEN "begun" ELSE "prompt")
    /\ Turn
    /\ UNCHANGED <<head, serverSide, session, push, sockets, watcher, known, excused>>

Opens == session' = [open |-> TRUE, fresh |-> TRUE, refreshable |-> TRUE]

\* Answered, dismissed or refused.
Prompted ==
    /\ gate.at = "prompt"
    /\ \/ Opens /\ gate' = Pass("begun")
       \/ UNCHANGED session /\ gate' = Nobody
    /\ UNCHANGED <<head, serverSide, push, sockets, watcher, known, excused, spent>>

\* unlocked(): a screen asks, whoever holds the gate.
UnlockFromScreen ==
    /\ ~session.open
    /\ Opens
    /\ UNCHANGED <<head, serverSide, push, sockets, gate, watcher, known, excused,
                   spent>>

\* What the server says and what the files say.  A request with a token past
\* its lifetime refreshes it, or the pass fails.
Walk ==
    /\ gate.at = "begun" /\ session.open
    /\ session.fresh \/ session.refreshable
    /\ gate' = [gate EXCEPT !.at = "read", !.head = head, !.edits = watcher.edits]
    /\ session' = [session EXCEPT !.fresh = TRUE]
    /\ UNCHANGED <<head, serverSide, push, sockets, watcher, known, excused, spent>>

\* The files a pass writes are edits to the watcher, the end of what counts
\* down where the setting is off.
EndPass ==
    /\ gate.at = "read"
    /\ gate' = Nobody
    /\ known' = [head |-> gate.head, edits |-> gate.edits]
    /\ IF gate.head > known.head
       THEN /\ watcher' = [watcher EXCEPT !.armed = watcher.auto]
            /\ excused' = IF watcher.auto THEN excused ELSE watcher.edits
       ELSE UNCHANGED <<watcher, excused>>
    /\ UNCHANGED <<head, serverSide, session, push, sockets, spent>>

\* A pass that fails says so, and asks for no other.
PassFails ==
    /\ gate.at \in {"begun", "read"}
    /\ (session.fresh \/ session.refreshable) => CanTurn
    /\ gate' = Nobody
    /\ excused' = watcher.edits
    /\ spent' = IF CanTurn THEN spent + 1 ELSE spent
    /\ UNCHANGED <<head, serverSide, session, push, sockets, watcher, known>>

\* A share or a restore from the trash takes the same gate.
OtherBegins ==
    /\ Free
    /\ gate' = [Nobody EXCEPT !.by = "other"]
    /\ Turn
    /\ UNCHANGED <<head, serverSide, session, push, sockets, watcher, known, excused>>

OtherEnds ==
    /\ gate.by = "other"
    /\ gate' = Nobody
    /\ UNCHANGED <<head, serverSide, session, push, sockets, watcher, known, excused,
                   spent>>

------------------------------------------------------------------------------
(* The person locks, moves to another address, or unloads the plugin.       *)

\* PushListener.stop: of the sockets, the newest is closed.
Silent == [on |-> FALSE, socket |-> 0, timer |-> FALSE, refreshing |-> FALSE]
StopPush ==
    sockets' = [s \in Sockets |->
                  IF s = push.socket
                  THEN [sockets[s] EXCEPT !.at = "closing", !.of = FALSE, !.hints = 0]
                  ELSE [sockets[s] EXCEPT !.of = FALSE]]

\* lock: refused while a pass has the client.  Nothing starts the listener again.
Lock ==
    /\ session.open /\ gate.at \notin {"begun", "read"}
    /\ session' = [open |-> FALSE, fresh |-> FALSE, refreshable |-> FALSE]
    /\ StopPush
    /\ push' = Silent
    /\ Turn
    /\ UNCHANGED <<head, serverSide, gate, watcher, known, excused>>

\* resume: the old listener stops before the session changes, the new one
\* starts after it, and waits for a token.
Resume ==
    /\ gate.at \notin {"begun", "read"}
    /\ session' = [open |-> FALSE, fresh |-> FALSE, refreshable |-> FALSE]
    /\ StopPush
    /\ push' = [Silent EXCEPT !.on = TRUE, !.timer = TRUE]
    /\ Turn
    /\ UNCHANGED <<head, serverSide, gate, watcher, known, excused>>

------------------------------------------------------------------------------
Init ==
    /\ head = 0
    /\ leg = [generation |-> 1, at |-> [g \in Attempts |-> IF g = 1 THEN "connect" ELSE "none"],
              current |-> 0, held |-> {}, broken |-> {}, retry |-> FALSE, stop |-> "no"]
    /\ events = {}
    /\ hub = [notified |-> 0, fanning |-> 0, subscribers |-> {}]
    /\ session = [open |-> FALSE, fresh |-> FALSE, refreshable |-> FALSE]
    /\ push = [Silent EXCEPT !.on = TRUE, !.timer = TRUE]
    /\ sockets = [s \in Sockets |-> NoSocket]
    /\ gate = Nobody
    /\ watcher \in {[armed |-> FALSE, auto |-> a, edits |-> 0] : a \in BOOLEAN}
    /\ known = [head |-> 0, edits |-> 0]
    /\ excused = 0 /\ spent = 0

\* What goes on by itself, on the server and on the device.
Cycle == Run \/ Unlisten \/ StopResolves
Attempted(g) == Connected(g) \/ Subscribed(g)
Serves(s) == Verify(s) \/ Opened(s) \/ Accepted(s) \/ Refused(s) \/ Closed(s) \/ Hint(s)
PassStep == Walk \/ EndPass \/ Prompted \/ OtherEnds

Faults ==
    \/ Drop \/ FanOutFails \/ Expire \/ LoseRefresh \/ PassFails
    \/ \E g \in Attempts : AttemptFails(g)
    \/ \E s \in Sockets : AuthTimesOut(s) \/ Break(s)

Person == Edit \/ Switch \/ Press \/ UnlockFromScreen \/ OtherBegins \/ Lock \/ Resume

Next ==
    \/ Cycle \/ PassStep \/ Notified \/ FanOut \/ Connect \/ Refreshed \/ Settle
    \/ \E g \in Attempts : Attempted(g) \/ \E e \in {"error", "end"} : Teardown(g, e)
    \/ \E s \in Sockets : Serves(s)
    \/ Write \/ Stop \/ Faults \/ Person

Spec == Init /\ [][Next]_vars

\* Requests are answered, timers fire, events reach their handlers, a prompt is
\* answered or dismissed, an operation ends.  A pass may meet the end of
\* another in the gate again and again, hence the strong form for Settle.
FairSpec ==
    /\ Spec
    /\ WF_vars(Run) /\ WF_vars(Unlisten) /\ WF_vars(StopResolves)
    /\ WF_vars(PassStep \/ (~session.fresh /\ ~session.refreshable /\ PassFails))
    /\ WF_vars(Notified) /\ WF_vars(FanOut)
    /\ WF_vars(Connect) /\ WF_vars(Refreshed) /\ SF_vars(Settle)
    /\ \A g \in Attempts : WF_vars(Attempted(g))
                            /\ WF_vars(\E e \in {"error", "end"} : Teardown(g, e))
    /\ \A s \in Sockets : WF_vars(Serves(s))

------------------------------------------------------------------------------
(* Properties.                                                              *)

TypeOK ==
    /\ head \in 0..MaxWrites
    /\ leg \in Leg /\ hub \in Hub
    /\ events \subseteq Attempts \X {"error", "end"}
    /\ session \in Session /\ push \in Push
    /\ \A s \in Sockets : sockets[s] \in Socket
    /\ push.socket # 0 => sockets[push.socket].of
    /\ gate \in Gate /\ watcher \in Watcher
    /\ known.head <= head /\ known.edits <= watcher.edits
    /\ excused \in 0..MaxEdits /\ spent <= MaxTurns

\* stop resolves once nothing is subscribed and nothing in flight (listen.ts),
\* and a listener that was stopped leaves no socket behind (main.ts, onunload).
\* With LateAnswers it fails: of two open sockets stop() closes the newest.
NothingOutlivesStop ==
    /\ leg.stop = "resolved" =>
         leg.held = {} /\ leg.current = 0 /\ ~leg.retry
    /\ \A s \in Sockets : ~sockets[s].of => sockets[s].at \in {"none", "closing"}

\* Both legs come back, whatever dropped, failed, timed out or expired, unless
\* the server is going down, the listener was stopped, the session is locked or
\* its refresh token is gone.
BackInTouch ==
    []<>(Up \/ Stopped \/ ~push.on \/ ~session.open
            \/ ~(session.fresh \/ session.refreshable))

\* An edit is deferred and not dropped: it is followed by a pass that reads it,
\* through any operation that held the gate, unless automatic passes were off,
\* the session was locked when the vault settled, or the pass failed.
EditIsCarried ==
    \A n \in 1..MaxEdits :
        (watcher.edits >= n) ~> (known.edits >= n \/ excused >= n)
=============================================================================
